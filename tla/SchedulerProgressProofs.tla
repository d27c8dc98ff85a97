---------------------- MODULE SchedulerProgressProofs ----------------------
(***************************************************************************)
(* Further proofs about Scheduler, on top of the invariant SInv: schedule()*)
(* never ends in a scheduler error, a batch respects the limits and        *)
(* max_num_active_seqs holds.                                              *)
(***************************************************************************)
EXTENDS SchedulerProofs

\* Nothing runs, nothing is restored and nothing is scheduled yet.
Starving == loop.scheduled = <<>> /\ running = <<>> /\ DOMAIN pending = {}

\* A starving handler still has a request to turn to: waiting in the prefill
\* loop, preempted by the decode loop.  The second pass has nothing to decode.
ProgressInv ==
    /\ pc # "error"
    /\ pc = "step" => ~IsFinished
    /\ pc \in Prefilling /\ Starving => waiting # <<>> /\ loop.deferred = {}
    /\ pc = "prefill" /\ Starving /\ loop.residentOnly => Residents(waiting) # {}
    /\ pc \in Prefilling /\ loop.scheduled = <<>> => loop.batched = 0
    /\ pc = "ensure" /\ ~Resident(loop.cur) => Residents(waiting) = {}
    /\ pc = "decode" /\ Starving => loop.retryPrefill /\ ~loop.second /\ waiting # <<>>
    /\ pc \in Prefilling /\ loop.second => running = <<>> \/ loop.scheduled # <<>>
    /\ pc \in Decoding /\ loop.second => running = <<>> /\ pc = "decode" /\ loop.scheduled = <<>>

---------------------------------------------------------------------------
(* schedule() finds work or something to wait for *)

\* Locals of the same pass, with the same batch and the same requests put off.
SamePass(l) ==
    /\ l.scheduled = loop.scheduled /\ l.batched = loop.batched
    /\ l.deferred = loop.deferred /\ l.second = loop.second

LEMMA PassLocals ==
    ASSUME SInv
    PROVE  /\ loop \in Locals /\ SamePass(loop)
           /\ \A n \in Nat : SamePass([loop EXCEPT !.hit = n])
           /\ \A s \in Seqs : SamePass([loop EXCEPT !.cur = s]) /\ [loop EXCEPT !.cur = s].cur = s
           /\ SamePass([loop EXCEPT !.residentOnly = TRUE])
           /\ Len(loop.scheduled) \in Nat /\ (loop.scheduled = <<>> <=> Len(loop.scheduled) = 0)
           /\ waiting = <<>> <=> Range(waiting) = {}
           /\ MaxNumSeqs \in Nat /\ MaxNumSeqs > 0 /\ MaxNumBatched \in Nat /\ MaxNumBatched > 0
<1>1. QueueTyped /\ loop \in Locals /\ loop.scheduled \in Seq(Seqs) /\ waiting \in Seq(Seqs)
  BY LocalTypes DEF SInv, SchedInv, CoreInv, QueueTyped
<1>2. /\ SamePass(loop)
      /\ \A n \in Nat : SamePass([loop EXCEPT !.hit = n])
      /\ \A s \in Seqs : SamePass([loop EXCEPT !.cur = s]) /\ [loop EXCEPT !.cur = s].cur = s
      /\ SamePass([loop EXCEPT !.residentOnly = TRUE])
  BY <1>1 DEF SamePass, Locals
<1>3. /\ Len(loop.scheduled) \in Nat /\ (loop.scheduled = <<>> <=> Len(loop.scheduled) = 0)
      /\ waiting = <<>> <=> Range(waiting) = {}
  BY <1>1, QueueRange, EmptySeq, LenProperties
<1> QED
  BY <1>1, <1>2, <1>3, LimitsAssumption

\* Control points ProgressInv does not speak of.
LEMMA ElsewhereProgress ==
    ASSUME pc' \in Executing \cup {"idle", "waitAny", "failActive"}
    PROVE  ProgressInv'
  BY DEF ProgressInv, Executing, Prefilling, Choosing, Decoding

\* The prefill loop works on with the same queues.
LEMMA ChoosingProgress ==
    ASSUME SInv, ProgressInv, pc \in Prefilling, pc' \in Choosing,
           UNCHANGED <<waiting, running, pending>>, SamePass(loop'),
           pc' = "ensure" /\ ~Resident(loop.cur)' => Residents(waiting)' = {}
    PROVE  ProgressInv'
<1>1. /\ pc' \in Prefilling /\ pc' \notin {"error", "step", "prefill", "decode"}
      /\ pc' \notin Decoding
  BY DEF Prefilling, Choosing, Decoding
<1>2. Starving' <=> Starving
  BY DEF Starving, SamePass
<1> QED
  BY <1>1, <1>2 DEF ProgressInv, SamePass

LEMMA BreakProgress ==
    ASSUME SInv, ProgressInv, pc \in Prefilling, UNCHANGED <<waiting, running, pending>>,
           NEW l, l \in Locals, l.scheduled = loop.scheduled, l.second = loop.second,
           Break(l), ~Starving
    PROVE  ProgressInv'
<1>1. CASE l.scheduled # <<>>
  <2>1. pc' = "run"
    BY <1>1 DEF Break
  <2> QED
    BY <2>1, ElsewhereProgress DEF Executing
<1>2. CASE l.scheduled = <<>>
  <2>1. pc' = "decode" /\ loop' = [l EXCEPT !.cur = NoSeq, !.hit = 0]
    BY <1>2 DEF Break
  <2>2. loop'.scheduled = <<>> /\ loop'.second = loop.second
    BY <1>2, <2>1 DEF Locals
  <2>3. ~Starving'
    BY <1>2, <2>2 DEF Starving
  <2>4. loop.second => running = <<>>
    BY <1>2 DEF ProgressInv
  <2>5. pc' \notin Prefilling
    BY <2>1 DEF Prefilling, Choosing
  <2> QED
    BY <2>1, <2>2, <2>3, <2>4, <2>5 DEF ProgressInv
<1> QED
  BY <1>1, <1>2

\* The prefill loop returns to its head with work in sight elsewhere.
LEMMA ContinueProgress ==
    ASSUME SInv, ProgressInv, pc \in Prefilling, NEW l, l \in Locals,
           l.scheduled = <<>> => l.batched = 0, l.second => running' = <<>> \/ l.scheduled # <<>>,
           Continue(l), l.scheduled # <<>> \/ running' # <<>> \/ DOMAIN pending' # {}
    PROVE  ProgressInv'
<1>1. pc' = "prefill" /\ loop' = [l EXCEPT !.cur = NoSeq, !.hit = 0]
  BY DEF Continue
<1>2. /\ loop'.scheduled = l.scheduled /\ loop'.second = l.second /\ loop'.batched = l.batched
  BY <1>1 DEF Locals
<1>3. ~Starving'
  BY <1>2 DEF Starving
<1>4. pc' \notin Decoding
  BY <1>1 DEF Decoding
<1> QED
  BY <1>1, <1>2, <1>3, <1>4 DEF ProgressInv

\* Pages are owned by the requests of the queues.
LEMMA OwnersQueued ==
    ASSUME SInv, pc \in Prefilling, NEW s \in Seqs, Resident(s)
    PROVE  s \in Residents(waiting) \/ s \in Range(running) \/ s \in DOMAIN pending
<1>1. pc \notin Decoding /\ pc # "finish"
  BY DEF Prefilling, Choosing, Decoding
<1>2. status[s] \in {"waiting", "running", "waiting_for_kv"}
  BY <1>1 DEF SInv, SchedInv, CoreInv, NoOrphanPages
<1>3. ~Popped(s) /\ ~Finishing(s)
  BY <1>1 DEF Popped, Finishing
<1>4. s \in Range(waiting) \/ s \in Range(running) \/ s \in DOMAIN pending
  BY <1>2, <1>3 DEF SInv, SchedInv, CoreInv, QueueInv, QueuedAt
<1> QED
  BY <1>4 DEF Residents

\* With every page free, any admitted request fits: _admit compared its longest
\* length with the capacity of the cache.
LEMMA EmptyCacheFits ==
    ASSUME SInv, pc \in Prefilling, Starving, Residents(waiting) = {}, NEW s \in Seqs
    PROVE  CanAllocate(s) /\ CanResume(s)
<1>1. TypeOK /\ TableInv /\ PoolConsistent
  BY DEF SInv, IndInv
<1>2. \A t \in Seqs : ~Resident(t)
  <2>1. Range(running) = {}
    BY PassLocals, QueueRange DEF Starving, SInv, SchedInv, CoreInv, QueueTyped
  <2> QED
    BY <2>1, OwnersQueued DEF Starving
<1>3. \A b \in Blocks : HeldBy(blockTable, b) = {}
  <2>1. Range(<<>>) = {}
    BY FreshTyped DEF Fresh
  <2> QED
    BY <1>2, <2>1 DEF HeldBy, Resident
<1>4. freeBlocks = Blocks /\ usedBlocks = {}
  BY <1>1, <1>3, FreeIsUnheld DEF TypeOK
<1>5. NumBlocks(s) \in Nat /\ Cardinality(Blocks) \in Nat /\ NumBlocks(s) <= Cardinality(Blocks)
  <2>1. Cardinality(Blocks) \in Nat
    BY BlocksAssumption, FS_CardinalityType
  <2>2. PICK c \in Nat : c = Cardinality(Blocks)
    BY <2>1
  <2>3. PICK n \in Nat : n = Len(tokens[s])
    BY <1>1, TableSizes
  <2>4. n <= c * BlockSize
    <3>1. n <= Len(Prompt[s]) + MaxTokens[s]
      BY <2>3 DEF SInv, SchedInv, CoreInv, RequestInv, RequestAt
    <3>2. Len(Prompt[s]) \in Nat /\ MaxTokens[s] \in Nat /\ c * BlockSize \in Nat
      BY <2>2, PageOrder, PromptAssumption, AdmissionAssumption, LenProperties
    <3>3. Len(Prompt[s]) + MaxTokens[s] <= c * BlockSize
      BY <2>2, AdmissionAssumption
    <3> QED
      BY <3>1, <3>2, <3>3
  <2>5. PICK k \in Nat : k = CacheableBlocks(s)
    BY <1>1, TableSizes
  <2>6. NumBlocks(s) = k + 1 /\ k * BlockSize < n
    BY <1>1, <2>3, <2>5, TableSizes
  <2>7. k * BlockSize < c * BlockSize
    <3>1. k * BlockSize \in Nat /\ c * BlockSize \in Nat
      BY PageOrder
    <3> QED
      BY <2>4, <2>6, <3>1
  <2>8. k < c
    BY <2>7, PageOrder
  <2> QED
    BY <2>2, <2>6, <2>8
<1>6. \A ids : InUse(ids) = {}
  BY <1>4 DEF InUse
<1>7. Cardinality({}) = 0
  BY FS_EmptySet
<1>8. Retained(s) \in Nat
  BY <1>1, TableSizes
<1> QED
  BY <1>4, <1>5, <1>6, <1>7, <1>8 DEF CanAllocate, CanResume, PlannedAllocationPages

LEMMA EnterProgress ==
    ASSUME SInv, ProgressInv, NEW b \in BOOLEAN, Enter(b), UNCHANGED <<waiting, running, pending>>,
           ~IsFinished, b => running = <<>> /\ DOMAIN pending = {} /\ waiting # <<>>
    PROVE  ProgressInv'
<1>1. PICK prefill \in ShouldSchedulePrefill(Range(waiting)) :
         /\ pc' = IF prefill THEN "prefill" ELSE "decode"
         /\ loop' = [Fresh EXCEPT !.second = b]
  BY DEF Enter
<1>2. /\ loop'.scheduled = <<>> /\ loop'.batched = 0 /\ loop'.deferred = {} /\ ~loop'.residentOnly
      /\ loop'.second = b
  BY <1>1 DEF Fresh
<1>3. waiting = <<>> <=> Range(waiting) = {}
  BY PassLocals
<1>4. Starving' <=> running = <<>> /\ DOMAIN pending = {}
  BY <1>2 DEF Starving
<1>5. prefill \in BOOLEAN /\ (prefill => waiting # <<>>) /\ (~prefill => waiting = <<>> \/ running # <<>>)
  <2>1. ShouldSchedulePrefill(Range(waiting)) \subseteq BOOLEAN
    BY DEF ShouldSchedulePrefill
  <2>2. Range(waiting) = {} => ShouldSchedulePrefill(Range(waiting)) = {FALSE}
    BY DEF ShouldSchedulePrefill
  <2>3. Range(waiting) # {} /\ running = <<>> => ShouldSchedulePrefill(Range(waiting)) = {TRUE}
    BY DEF ShouldSchedulePrefill
  <2> QED
    BY <1>1, <1>3, <2>1, <2>2, <2>3, Zenon
<1>6. CASE prefill
  <2>1. pc' = "prefill" /\ pc' \in Prefilling /\ pc' \notin Decoding
    BY <1>1, <1>6 DEF Prefilling, Decoding
  <2> QED
    BY <1>2, <1>5, <1>6, <2>1 DEF ProgressInv
<1>7. CASE ~prefill
  <2>1. pc' = "decode" /\ pc' \notin Prefilling
    BY <1>1, <1>7 DEF Prefilling, Choosing
  <2>2. ~b /\ ~Starving'
    BY <1>4, <1>5, <1>7 DEF IsFinished
  <2> QED
    BY <1>2, <2>1, <2>2 DEF ProgressInv
<1> QED
  BY <1>5, <1>6, <1>7

\* A starving prefill loop is not left at its head.
LEMMA StarvingSelects ==
    ASSUME SInv, ProgressInv, pc = "prefill", Starving
    PROVE  /\ ~(waiting = <<>> \/ Len(loop.scheduled) >= MaxNumSeqs)
           /\ Remaining # 0 /\ \A prefers \in StillPrefers : prefers
<1>1. /\ waiting # <<>> /\ loop.deferred = {} /\ loop.batched = 0
      /\ loop.residentOnly => Residents(waiting) # {}
  BY DEF ProgressInv, Prefilling, Starving
<1>2. loop.scheduled = <<>> /\ running = <<>> /\ DOMAIN pending = {}
  BY DEF Starving
<1>3. /\ Len(loop.scheduled) = 0 /\ MaxNumSeqs \in Nat /\ MaxNumSeqs > 0 /\ MaxNumBatched \in Nat
      /\ MaxNumBatched > 0 /\ Range(waiting) # {}
  BY <1>1, <1>2, PassLocals
<1>4. AtResidentLimit => Residents(waiting) # {}
  <2>1. SUFFICES ASSUME AtResidentLimit, Residents(waiting) = {} PROVE FALSE
    OBVIOUS
  <2>2. ResidentCount = 0
    <3>1. Len(<<>>) = 0 /\ Cardinality({}) = 0
      BY FS_EmptySet
    <3> QED
      BY <1>2, <2>1, <3>1 DEF ResidentCount
  <2> QED
    BY <2>1, <2>2, LimitsAssumption DEF AtResidentLimit
<1>5. Eligible # {}
  BY <1>1, <1>3, <1>4 DEF Eligible
<1>6. \A prefers \in StillPrefers : prefers
  BY <1>2, <1>5 DEF StillPrefers, ShouldSchedulePrefill
<1> QED
  BY <1>1, <1>3, <1>6 DEF Remaining

LEMMA SelectPrefillProgress ==
    ASSUME SInv, ProgressInv, SelectPrefill
    PROVE  ProgressInv'
<1>1. /\ pc = "prefill" /\ pc \in Prefilling /\ UNCHANGED <<waiting, running, pending>>
      /\ UNCHANGED bmVars
  BY DEF SelectPrefill, schedVars, Prefilling
<1>2. CASE Break(loop) /\ ~Starving
  BY <1>1, <1>2, PassLocals, BreakProgress
<1>3. CASE ~(Break(loop) /\ ~Starving)
  <2>1. PICK s \in SelectFirst(waiting, Eligible) :
            /\ pc' = IF Resident(s) THEN "ensure" ELSE "allocate"
            /\ loop' = [loop EXCEPT !.cur = s]
    BY <1>1, <1>3, StarvingSelects DEF SelectPrefill
  <2>2. s \in Seqs
    <3>1. s \in Range(waiting)
      BY DEF SelectFirst, Range
    <3> QED
      BY <3>1, LocalTypes DEF SInv, SchedInv, CoreInv
  <2>3. SamePass(loop') /\ loop'.cur = s
    BY <2>1, <2>2, PassLocals
  <2>4. pc' \in Choosing
    BY <2>1 DEF Choosing
  <2>5. Resident(s)' <=> Resident(s)
    BY <1>1 DEF bmVars, seqVars, Resident
  <2>6. pc' = "ensure" => Resident(loop.cur)'
    BY <2>1, <2>3, <2>5 DEF Resident
  <2> QED
    BY <1>1, <2>3, <2>4, <2>6, ChoosingProgress
<1> QED
  BY <1>2, <1>3

LEMMA EnsureResumeProgress ==
    ASSUME SInv, ProgressInv, EnsureResume
    PROVE  ProgressInv'
<1>1. pc = "ensure" /\ pc \in Choosing /\ pc \in Prefilling /\ UNCHANGED <<waiting, running, pending>>
  BY DEF EnsureResume, schedVars, Choosing, Prefilling
<1>2. PICK s \in Seqs : s = loop.cur
  BY <1>1, CurrentIdle DEF SInv
<1>3. CASE loop' = loop /\ pc' \in {"resume", "allocate", "evict"}
  <2>1. SamePass(loop') /\ pc' \in Choosing /\ pc' # "ensure"
    BY <1>3, PassLocals DEF Choosing
  <2> QED
    BY <1>1, <2>1, ChoosingProgress
<1>4. CASE CannotResumeOp(s) /\ ~Resident(s) /\ Break(loop)
  <2>1. Residents(waiting) = {}
    BY <1>1, <1>2, <1>4 DEF ProgressInv
  <2>2. ~Starving
    BY <1>1, <1>4, <2>1, EmptyCacheFits DEF CannotResumeOp
  <2> QED
    BY <1>1, <1>4, <2>2, PassLocals, BreakProgress
<1> QED
  BY <1>2, <1>3, <1>4 DEF EnsureResume

LEMMA EvictRetainedProgress ==
    ASSUME SInv, ProgressInv, EvictRetained
    PROVE  ProgressInv'
<1>1. /\ pc = "evict" /\ pc \in Choosing \ {"abortRestore"} /\ pc \in Prefilling
      /\ UNCHANGED <<waiting, running, pending>>
  BY DEF EvictRetained, schedVars, Choosing, Prefilling
<1>2. PICK s \in Seqs : s = loop.cur /\ Resident(s)
  BY <1>1, CurrentIdle DEF SInv, SchedInv, CurInv
<1>3. CASE Break(loop) /\ running # <<>>
  <2>1. ~Starving
    BY <1>3 DEF Starving
  <2> QED
    BY <1>1, <1>3, <2>1, PassLocals, BreakProgress
<1>4. ASSUME NEW v \in Range(waiting), ReclaimSuffixOp(v, 0)
      PROVE  v \in Seqs /\ ~Resident(v)' /\ \A t \in Seqs \ {v} : Resident(t)' <=> Resident(t)
  <2>1. v \in Seqs /\ TypeOK /\ Retained(v) \in Nat
    BY LocalTypes, TableSizes DEF SInv, SchedInv, CoreInv, IndInv
  <2>2. ~Resident(v)' /\ \A t \in Seqs \ {v} : Untouched(t)
    BY <1>4, <2>1, ReclaimEffect
  <2> QED
    BY <2>1, <2>2, SameRequest
<1>5. CASE \E v \in Residents(waiting) \ {s} : ReclaimSuffixOp(v, 0) /\ pc' = "ensure" /\ loop' = loop
  <2>1. PICK v \in Residents(waiting) \ {s} :
            ReclaimSuffixOp(v, 0) /\ pc' = "ensure" /\ loop' = loop
    BY <1>5
  <2>2. Resident(s)'
    BY <1>2, <1>4, <2>1 DEF Residents
  <2>3. Resident(loop.cur)'
    BY <1>2, <2>1, <2>2 DEF Resident
  <2>4. SamePass(loop') /\ pc' \in Choosing
    BY <2>1, PassLocals DEF Choosing
  <2> QED
    BY <1>1, <2>3, <2>4, ChoosingProgress
<1>6. CASE Residents(waiting) \ {s} = {} /\ ReclaimSuffixOp(s, 0) /\ pc' = "ensure" /\ loop' = loop
  <2>1. s \in Range(waiting)
    BY <1>1, <1>2, CurrentIdle DEF SInv
  <2>2. ~Resident(s)' /\ \A t \in Seqs \ {s} : Resident(t)' <=> Resident(t)
    BY <1>4, <1>6, <2>1
  <2>3. Residents(waiting)' = {}
    <3>1. Range(waiting) \subseteq Seqs /\ waiting' = waiting
      BY <1>1, LocalTypes DEF SInv, SchedInv, CoreInv
    <3>2. \A t \in Range(waiting) : ~Resident(t)'
      BY <1>6, <2>2, <3>1 DEF Residents
    <3> QED
      BY <3>1, <3>2 DEF Residents
  <2>4. SamePass(loop') /\ pc' \in Choosing
    BY <1>6, PassLocals DEF Choosing
  <2> QED
    BY <1>1, <2>3, <2>4, ChoosingProgress
<1> QED
  BY <1>2, <1>3, <1>5, <1>6 DEF EvictRetained

LEMMA DeferProgress ==
    ASSUME SInv, ProgressInv, pc \in Prefilling, UNCHANGED <<waiting, running, pending>>,
           NEW s \in Seqs, Defer(s), running # <<>>
    PROVE  ProgressInv'
<1> DEFINE l == [loop EXCEPT !.deferred = @ \cup {s}]
<1>1. /\ l \in Locals /\ l.scheduled = loop.scheduled /\ l.second = loop.second
      /\ l.batched = loop.batched
  BY PassLocals DEF Locals
<1>2. Continue(l) \/ Break(l)
  BY DEF Defer
<1>3. /\ loop.scheduled = <<>> => loop.batched = 0
      /\ loop.second => running = <<>> \/ loop.scheduled # <<>>
  BY DEF ProgressInv
<1>4. ~Starving
  BY DEF Starving
<1> HIDE DEF l
<1>5. CASE Continue(l)
  BY <1>1, <1>3, <1>5, ContinueProgress
<1>6. CASE Break(l)
  BY <1>1, <1>4, <1>6, BreakProgress
<1> QED
  BY <1>2, <1>5, <1>6

LEMMA TryAllocateProgress ==
    ASSUME SInv, ProgressInv, TryAllocate
    PROVE  ProgressInv'
<1>1. /\ pc = "allocate" /\ pc \in Choosing /\ pc \in Prefilling
      /\ UNCHANGED <<waiting, running, pending>>
  BY DEF TryAllocate, schedVars, Choosing, Prefilling
<1>2. PICK s \in Seqs : s = loop.cur
  BY <1>1, CurrentIdle DEF SInv
<1>3. CASE ~CanAllocate(s) /\ ForgetPlanOp(s) /\ NoRoom(s)
  <2>1. CASE running = <<>> /\ Residents(waiting) # {}
    <3>1. Continue([loop EXCEPT !.residentOnly = TRUE])
      BY <1>3, <2>1 DEF NoRoom
    <3>2. /\ pc' = "prefill" /\ pc' \in Prefilling /\ pc' \notin Decoding
          /\ loop' = [[loop EXCEPT !.residentOnly = TRUE] EXCEPT !.cur = NoSeq, !.hit = 0]
      BY <3>1 DEF Continue, Prefilling, Decoding
    <3>3. /\ SamePass(loop')
      BY <3>2, PassLocals DEF Locals, SamePass
    <3>4. Starving' <=> Starving
      BY <1>1, <3>3 DEF Starving, SamePass
    <3>5. Residents(waiting)' = Residents(waiting)
      <4>1. blockTable' = blockTable
        BY <1>3 DEF ForgetPlanOp, seqVars
      <4> QED
        BY <1>1, <4>1 DEF Residents, Resident
    <3> QED
      BY <1>1, <2>1, <3>2, <3>3, <3>4, <3>5 DEF ProgressInv, SamePass
  <2>2. CASE Lookahead > 0 /\ running # <<>>
    <3>1. Defer(s)
      BY <1>3, <2>2 DEF NoRoom
    <3> QED
      BY <1>1, <2>2, <3>1, DeferProgress
  <2>3. CASE ~(running = <<>> /\ Residents(waiting) # {}) /\ ~(Lookahead > 0 /\ running # <<>>)
    <3>1. Break(loop)
      BY <1>3, <2>3 DEF NoRoom
    <3>2. ~Starving
      BY <1>1, <1>3, <2>3, EmptyCacheFits DEF Starving
    <3> QED
      BY <1>1, <3>1, <3>2, PassLocals, BreakProgress
  <2> QED
    BY <2>1, <2>2, <2>3
<1>4. CASE Defer(s) /\ running # <<>>
  BY <1>1, <1>4, DeferProgress
<1>5. CASE /\ pc' \in {"restore", "admit"}
           /\ loop' = [loop EXCEPT !.hit = Len(LookupCachedBlocks(s))]
  <2>1. SamePass(loop')
    BY <1>5, PassLocals DEF SamePass, Locals
  <2>2. pc' \in Choosing /\ pc' # "ensure"
    BY <1>5 DEF Choosing
  <2> QED
    BY <1>1, <2>1, <2>2, ChoosingProgress
<1> QED
  BY <1>2, <1>3, <1>4, <1>5 DEF TryAllocate

LEMMA AdmitProgress ==
    ASSUME SInv, ProgressInv, Admit
    PROVE  ProgressInv'
<1>1. pc = "admit" /\ pc \in Choosing /\ pc \in Prefilling /\ pending' = pending
  BY DEF Admit, Choosing, Prefilling
<1>2. PICK s \in Seqs : s = loop.cur
  BY <1>1, CurrentIdle DEF SInv
<1>3. PICK need : need = Len(tokens[s]) - (IF Resident(s) THEN numCached[s] ELSE loop.hit * BlockSize)
  OBVIOUS
<1>4. CASE ~Fits(need) /\ Break(loop) /\ UNCHANGED <<waiting, running>>
  <2>1. ~Starving
    BY <1>4 DEF Fits, Starving
  <2> QED
    BY <1>1, <1>4, <2>1, PassLocals, BreakProgress
<1>5. ~(~Resident(s) /\ Len(AllocatePlan(s, loop.hit)) # loop.hit)
  BY <1>1, <1>2 DEF SInv, SchedInv, CurInv, Planned
<1>6. CASE \E k : Continue([loop EXCEPT !.scheduled = Append(@, s), !.batched = @ + k])
  <2>1. PICK k : Continue([loop EXCEPT !.scheduled = Append(@, s), !.batched = @ + k])
    BY <1>6
  <2>2. /\ pc' = "prefill" /\ loop'.scheduled = Append(loop.scheduled, s)
    BY <2>1, PassLocals DEF Continue, Locals
  <2>3. loop'.scheduled # <<>>
    <3>1. loop.scheduled \in Seq(Seqs)
      BY LocalTypes DEF SInv, SchedInv, CoreInv
    <3>2. Append(loop.scheduled, s) # <<>>
      BY <3>1, AppendProperties
    <3> QED
      BY <2>2, <3>2
  <2>4. pc' \notin Decoding
    BY <2>2 DEF Decoding
  <2> QED
    BY <2>2, <2>3, <2>4 DEF ProgressInv, Starving
<1> QED
  BY <1>2, <1>3, <1>4, <1>5, <1>6 DEF Admit

LEMMA PrefillProgress ==
    ASSUME SInv, ProgressInv, PrefillStep
    PROVE  ProgressInv'
<1>1. CASE Schedule_
  <2>1. pc = "step" /\ Enter(FALSE) /\ UNCHANGED <<waiting, running, pending>>
    BY <1>1 DEF Schedule_, schedVars
  <2>2. ~IsFinished
    BY <2>1 DEF ProgressInv
  <2> QED
    BY <2>1, <2>2, EnterProgress
<1>2. CASE Resume_ \/ SkipRestore \/ ReserveThenRaise \/ AbortRestore
  <2>1. /\ pc \in Choosing /\ pc \in Prefilling /\ pc' \in Choosing /\ pc' # "ensure" /\ loop' = loop
        /\ UNCHANGED <<waiting, running, pending>>
    BY <1>2 DEF Resume_, SkipRestore, ReserveThenRaise, AbortRestore, schedVars, Choosing, Prefilling
  <2> QED
    BY <2>1, PassLocals, ChoosingProgress
<1>3. CASE StartRestore
  <2>1. pc = "restore" /\ pc \in Prefilling /\ Continue(loop) /\ running' = running
    BY <1>3 DEF StartRestore, Prefilling, Choosing
  <2>2. DOMAIN pending' # {}
    BY <1>3 DEF StartRestore
  <2>3. /\ loop.scheduled = <<>> => loop.batched = 0
        /\ loop.second => running = <<>> \/ loop.scheduled # <<>>
    BY <2>1 DEF ProgressInv
  <2> QED
    BY <2>1, <2>2, <2>3, PassLocals, ContinueProgress
<1> QED
  BY <1>1, <1>2, <1>3, SelectPrefillProgress, EnsureResumeProgress, EvictRetainedProgress,
     TryAllocateProgress, AdmitProgress DEF PrefillStep

LEMMA DecodeProgress ==
    ASSUME SInv, ProgressInv, DecodeStep
    PROVE  ProgressInv'
<1>1. CASE SelectDecode
  <2>1. pc = "decode" /\ running # <<>> /\ pc' = "append" /\ \E s : loop' = [loop EXCEPT !.cur = s]
    BY <1>1 DEF SelectDecode
  <2>2. ~loop.second /\ loop'.second = loop.second
    BY <2>1, PassLocals DEF ProgressInv, Decoding, Locals
  <2> QED
    BY <2>1, <2>2 DEF ProgressInv, Prefilling, Choosing
<1>2. CASE AppendPressure
  <2>1. pc = "append" /\ pc \in Decoding /\ ~loop.second
    BY <1>2 DEF AppendPressure, ProgressInv, Decoding
  <2>2. CASE pc' = pc /\ loop' = loop
    BY <2>1, <2>2 DEF ProgressInv, Prefilling, Choosing
  <2>3. CASE /\ Preempt(loop.cur) /\ pc' = "decode"
             /\ loop' = [loop EXCEPT !.retryPrefill = TRUE, !.cur = NoSeq]
    <3>1. waiting' = <<loop.cur>> \o waiting
      BY <2>3 DEF Preempt
    <3>2. PICK s \in Seqs : s = loop.cur
      BY <2>1 DEF SInv, SchedInv, CurInv
    <3>3. waiting \in Seq(Seqs)
      BY DEF SInv, SchedInv, CoreInv, QueueTyped
    <3>4. Range(waiting') # {} /\ waiting' \in Seq(Seqs)
      <4>1. /\ <<s>> \o waiting \in Seq(Seqs)
            /\ s \in Range(<<s>> \o waiting)
        BY <3>3, PushToQueue
      <4>2. waiting' = <<s>> \o waiting
        BY <3>1, <3>2
      <4> QED
        BY <4>1, <4>2
    <3>5. waiting' # <<>>
      BY <3>4, QueueRange
    <3>6. loop'.retryPrefill /\ ~loop'.second
      BY <2>1, <2>3, PassLocals DEF Locals
    <3> QED
      BY <2>3, <3>5, <3>6 DEF ProgressInv, Prefilling, Choosing
  <2> QED
    BY <1>2, <2>2, <2>3 DEF AppendPressure
<1>3. CASE Append_
  <2>1. pc = "append" /\ ~loop.second /\ pc' = "decode"
    BY <1>3 DEF Append_, ProgressInv, Decoding
  <2>2. PICK s \in Seqs : s = loop.cur
    BY <2>1 DEF SInv, SchedInv, CurInv
  <2>3. loop' = [loop EXCEPT !.scheduled = Append(loop.scheduled, s), !.cur = NoSeq]
    BY <1>3, <2>2 DEF Append_
  <2>4. loop'.scheduled = Append(loop.scheduled, s) /\ ~loop'.second
    BY <2>1, <2>3, PassLocals DEF Locals
  <2>5. loop'.scheduled # <<>>
    <3>1. loop.scheduled \in Seq(Seqs)
      BY LocalTypes DEF SInv, SchedInv, CoreInv
    <3> QED
      BY <2>4, <3>1, AppendProperties
  <2> QED
    BY <2>1, <2>4, <2>5 DEF ProgressInv, Starving, Prefilling, Choosing
<1>4. CASE DecodeEnd
  <2>1. /\ pc = "decode" /\ (running = <<>> \/ Len(loop.scheduled) >= MaxNumSeqs)
        /\ waiting' = waiting /\ pending' = pending
    BY <1>4 DEF DecodeEnd
  <2>2. loop.scheduled = <<>> => running = <<>>
    BY <2>1, PassLocals
  <2>3. CASE loop.scheduled # <<>>
    <3>1. pc' = "run"
      BY <1>4, <2>3 DEF DecodeEnd
    <3> QED
      BY <3>1, ElsewhereProgress DEF Executing
  <2>4. CASE loop.scheduled = <<>> /\ DOMAIN pending # {}
    <3>1. pc' = "waitAny"
      BY <1>4, <2>4 DEF DecodeEnd
    <3> QED
      BY <3>1, ElsewhereProgress
  <2>5. CASE loop.scheduled = <<>> /\ DOMAIN pending = {}
    <3>1. Starving
      BY <2>2, <2>5 DEF Starving
    <3>2. loop.retryPrefill /\ ~loop.second /\ waiting # <<>>
      BY <2>1, <3>1 DEF ProgressInv
    <3>3. Enter(TRUE) /\ running' = running
      BY <1>4, <2>5, <3>2 DEF DecodeEnd
    <3>4. ~IsFinished
      BY <3>2 DEF IsFinished
    <3> QED
      BY <2>1, <2>2, <2>5, <3>2, <3>3, <3>4, EnterProgress
  <2> QED
    BY <2>3, <2>4, <2>5
<1> QED
  BY <1>1, <1>2, <1>3, <1>4 DEF DecodeStep

LEMMA StepProgress ==
    ASSUME SInv, ProgressInv, [Next]_vars
    PROVE  ProgressInv'
<1>1. CASE StartStep
  <2>1. pc' = "step" /\ ~IsFinished /\ UNCHANGED <<waiting, running, pending>>
    BY <1>1 DEF StartStep, schedVars
  <2>2. ~IsFinished'
    BY <2>1 DEF IsFinished
  <2> QED
    BY <2>1, <2>2 DEF ProgressInv, Prefilling, Choosing, Decoding
<1>2. CASE PrefillStep
  BY <1>2, PrefillProgress
<1>3. CASE DecodeStep
  BY <1>3, DecodeProgress
<1>4. CASE RunStep \/ FailEnd \/ RunRaises
  <2>1. pc' \in Executing \cup {"idle", "waitAny", "failActive"}
    BY <1>4 DEF RunStep, RunModel, PostprocessOne, Finish, EndStep, FailEnd, RunRaises, Executing
  <2> QED
    BY <2>1, ElsewhereProgress
<1>5. CASE \E s \in Seqs : FailActive(s) \/ CancelIdle(s) \/ Add(s)
  <2>1. pc' \in {"idle", "failActive"}
    BY <1>5 DEF FailActive, CancelIdle, Add
  <2> QED
    BY <2>1, ElsewhereProgress
<1>6. CASE Transfers
  <2>1. PICK s \in Seqs : CompleteRestore(s) \/ FailRestore(s)
    BY <1>6 DEF Transfers
  <2>2. pc' = "step" /\ (waiting' = Append(waiting, s) \/ waiting' = <<s>> \o waiting)
    BY <2>1 DEF CompleteRestore, FailRestore
  <2>3. waiting \in Seq(Seqs)
    BY DEF SInv, SchedInv, CoreInv, QueueTyped
  <2>4. Range(waiting') # {} /\ waiting' \in Seq(Seqs)
    <3>1. /\ <<s>> \o waiting \in Seq(Seqs)
          /\ s \in Range(<<s>> \o waiting)
      BY <2>3, PushToQueue
    <3>2. /\ Append(waiting, s) \in Seq(Seqs)
          /\ s \in Range(Append(waiting, s))
      BY <2>3, AppendToQueue
    <3> QED
      BY <2>2, <3>1, <3>2
  <2>5. waiting' # <<>>
    BY <2>4, QueueRange
  <2> QED
    BY <2>2, <2>5 DEF ProgressInv, IsFinished, Prefilling, Choosing, Decoding
<1>7. CASE UNCHANGED vars
  <2>1. UNCHANGED <<blockTable, waiting, running, pending, pc, loop>>
    BY <1>7 DEF vars, bmVars, seqVars, schedVars
  <2>2. PICK c : c = loop.cur
    OBVIOUS
  <2>3. Resident(c)' <=> Resident(c)
    BY <2>1 DEF Resident
  <2>4. /\ Starving' <=> Starving
        /\ IsFinished' <=> IsFinished
        /\ Residents(waiting)' = Residents(waiting)
    BY <2>1 DEF Starving, IsFinished, Residents, Resident
  <2> QED
    BY <2>1, <2>2, <2>3, <2>4 DEF ProgressInv
<1> QED
  BY <1>1, <1>2, <1>3, <1>4, <1>5, <1>6, <1>7 DEF Next, Engine, Client, Quiet

LEMMA InitProgress ==
    ASSUME Init
    PROVE  ProgressInv
<1>1. pc = "idle"
  BY DEF Init
<1> QED
  BY <1>1 DEF ProgressInv, Prefilling, Choosing, Decoding

\* A request the admission test lets in is never answered with "no runnable
\* request fits", "scheduler retry failed to make progress" or "prefix cache
\* changed between capacity check and allocation", for any mix of requests,
\* cache size, limits and policy answers.
THEOREM SchedulerNeverGivesUp == Spec => []NoSchedulerError
<1>1. Init => ProgressInv
  BY InitProgress
<1>2. SInv /\ ProgressInv /\ [Next]_vars => ProgressInv'
  BY StepProgress
<1>3. ProgressInv => NoSchedulerError
  BY DEF ProgressInv, NoSchedulerError
<1> QED
  BY <1>1, <1>2, <1>3, SchedulerInvariance, PTL DEF Spec

---------------------------------------------------------------------------
(* A batch respects the limits *)

\* The running totals of the tokens scheduled so far end at the tokens counted.
Totals(total) ==
    /\ total \in [0..Len(loop.scheduled) -> 0..MaxNumBatched]
    /\ total[0] = 0 /\ total[Len(loop.scheduled)] = loop.batched
    /\ \A i \in 1..Len(loop.scheduled) :
          total[i] = total[i - 1] + numScheduled[loop.scheduled[i]]

\* A prefill batch is being built, or was built and is about to run.
BuildsPrefill == pc \in Prefilling \/ (pc = "run" /\ loop.isPrefill)

\* The batch within the limits; after its first member all are complete.
LimitInv ==
    /\ Len(loop.scheduled) <= MaxNumSeqs
    /\ BuildsPrefill =>
          /\ \E total : Totals(total)
          /\ \A i \in 2..Len(loop.scheduled) : status[loop.scheduled[i]] = "running"

\* The members of the batch keep their tokens and status.
SameMembers ==
    /\ loop'.scheduled = loop.scheduled /\ loop'.batched = loop.batched
    /\ \A t \in Scheduled : numScheduled'[t] = numScheduled[t] /\ status'[t] = status[t]

LEMMA BatchMembers ==
    ASSUME SInv
    PROVE  /\ loop.scheduled \in Seq(Seqs) /\ Len(loop.scheduled) \in Nat
           /\ \A i \in 1..Len(loop.scheduled) : loop.scheduled[i] \in Scheduled
<1>1. loop.scheduled \in Seq(Seqs)
  BY LocalTypes DEF SInv, SchedInv, CoreInv
<1> QED
  BY <1>1, LenProperties DEF Scheduled, Range

LEMMA MembersWithinLimits ==
    ASSUME SInv, LimitInv, pc \in Prefilling, SameMembers
    PROVE  LimitInv'
<1>1. PICK q \in Seq(Seqs), n \in Nat : q = loop.scheduled /\ n = Len(q)
  BY BatchMembers
<1>2. \A i \in 1..n : numScheduled'[q[i]] = numScheduled[q[i]] /\ status'[q[i]] = status[q[i]]
  BY <1>1, BatchMembers DEF SameMembers
<1>3. PICK total : Totals(total)
  BY DEF LimitInv, BuildsPrefill
<1>4. loop'.scheduled = q /\ loop'.batched = loop.batched
  BY <1>1 DEF SameMembers
<1>5. Totals(total)'
  BY <1>1, <1>2, <1>3, <1>4 DEF Totals
<1>6. \A i \in 2..n : status'[q[i]] = "running"
  BY <1>1, <1>2 DEF LimitInv, BuildsPrefill
<1> QED
  BY <1>1, <1>4, <1>5, <1>6 DEF LimitInv

\* Control points at which LimitInv only bounds the length of the batch.
LEMMA ShortBatchWithinLimits ==
    ASSUME Len(loop'.scheduled) <= MaxNumSeqs, ~BuildsPrefill'
    PROVE  LimitInv'
  BY DEF LimitInv

\* A pass starts with an empty batch.
LEMMA FreshWithinLimits ==
    ASSUME SInv, loop'.scheduled = <<>>, loop'.batched = 0
    PROVE  LimitInv'
<1>1. Len(<<>>) = 0 /\ MaxNumSeqs \in Nat /\ MaxNumBatched \in Nat
  BY LimitsAssumption
<1>2. Totals([i \in 0..0 |-> 0])'
  BY <1>1 DEF Totals
<1> QED
  BY <1>1, <1>2 DEF LimitInv

LEMMA LoopKeepsBatch ==
    ASSUME NEW l, l \in Locals, l.scheduled = loop.scheduled, l.batched = loop.batched,
           Break(l) \/ Continue(l)
    PROVE  loop'.scheduled = loop.scheduled /\ loop'.batched = loop.batched
<1>1. \/ loop' = [l EXCEPT !.cur = NoSeq, !.hit = 0]
      \/ loop' = [l EXCEPT !.isPrefill = TRUE, !.cur = NoSeq, !.hit = 0]
  BY DEF Break, Continue
<1> QED
  BY <1>1 DEF Locals

LEMMA DeferKeepsBatch ==
    ASSUME loop \in Locals, NEW s \in Seqs, Defer(s)
    PROVE  loop'.scheduled = loop.scheduled /\ loop'.batched = loop.batched
<1> DEFINE l == [loop EXCEPT !.deferred = @ \cup {s}]
<1>1. l \in Locals /\ l.scheduled = loop.scheduled /\ l.batched = loop.batched
  BY DEF Locals
<1>2. Continue(l) \/ Break(l)
  BY DEF Defer
<1> HIDE DEF l
<1> QED
  BY <1>1, <1>2, LoopKeepsBatch

\* Only admission adds to a prefill batch, and nothing is taken from it.
LEMMA PrefillKeepsMembers ==
    ASSUME SInv, PrefillStep, ~Schedule_, ~Admit
    PROVE  SameMembers
<1>1. loop \in Locals /\ TypeOK
  BY PassLocals DEF SInv, IndInv
<1>2. \A s : [loop EXCEPT !.cur = s].scheduled = loop.scheduled
             /\ [loop EXCEPT !.cur = s].batched = loop.batched
  BY <1>1 DEF Locals
<1>3. CASE SelectPrefill
  <2>1. UNCHANGED <<numScheduled, status>>
    BY <1>3 DEF SelectPrefill, bmVars, seqVars, schedVars
  <2>2. Break(loop) \/ \E s : loop' = [loop EXCEPT !.cur = s]
    BY <1>3 DEF SelectPrefill
  <2>3. loop'.scheduled = loop.scheduled /\ loop'.batched = loop.batched
    BY <1>1, <1>2, <2>2, LoopKeepsBatch
  <2> QED
    BY <2>1, <2>3 DEF SameMembers
<1>4. CASE EnsureResume
  <2>1. UNCHANGED <<numScheduled, status>>
    BY <1>4 DEF EnsureResume, CanResumeOp, CannotResumeOp, seqVars, schedVars
  <2>2. Break(loop) \/ loop' = loop
    BY <1>4 DEF EnsureResume
  <2>3. loop'.scheduled = loop.scheduled /\ loop'.batched = loop.batched
    BY <1>1, <2>2, LoopKeepsBatch
  <2> QED
    BY <2>1, <2>3 DEF SameMembers
<1>5. CASE EvictRetained
  <2>1. UNCHANGED <<numScheduled, status>>
    BY <1>5 DEF EvictRetained, ReclaimSuffixOp, bmVars, seqVars, schedVars
  <2>2. Break(loop) \/ loop' = loop
    BY <1>5 DEF EvictRetained
  <2>3. loop'.scheduled = loop.scheduled /\ loop'.batched = loop.batched
    BY <1>1, <2>2, LoopKeepsBatch
  <2> QED
    BY <2>1, <2>3 DEF SameMembers
<1>6. CASE Resume_ \/ SkipRestore
  <2>1. UNCHANGED <<numScheduled, status, loop>>
    BY <1>6 DEF Resume_, ResumeOp, SkipRestore, bmVars, seqVars, schedVars
  <2> QED
    BY <2>1 DEF SameMembers
<1>7. CASE TryAllocate
  <2>1. UNCHANGED <<numScheduled, status>>
    BY <1>7 DEF TryAllocate, ForgetPlanOp, CanAllocateOp, seqVars, schedVars
  <2>2. PICK s \in Seqs : s = loop.cur
    BY <1>7, CurrentIdle DEF SInv, TryAllocate, Choosing
  <2>3. NoRoom(s) \/ Defer(s) \/ \E n : loop' = [loop EXCEPT !.hit = n]
    BY <1>7, <2>2 DEF TryAllocate
  <2>4. CASE Defer(s) \/ Break(loop)
    BY <1>1, <2>1, <2>4, DeferKeepsBatch, LoopKeepsBatch DEF SameMembers
  <2>5. CASE Continue([loop EXCEPT !.residentOnly = TRUE])
    <3>1. PICK l : l = [loop EXCEPT !.residentOnly = TRUE]
      OBVIOUS
    <3>2. l \in Locals /\ l.scheduled = loop.scheduled /\ l.batched = loop.batched
      BY <1>1, <3>1 DEF Locals
    <3>3. Continue(l)
      BY <2>5, <3>1
    <3> QED
      BY <2>1, <3>2, <3>3, LoopKeepsBatch DEF SameMembers
  <2>6. CASE \E n : loop' = [loop EXCEPT !.hit = n]
    BY <1>1, <2>1, <2>6 DEF SameMembers, Locals
  <2> QED
    BY <2>3, <2>4, <2>5, <2>6 DEF NoRoom
<1>8. CASE StartRestore \/ ReserveThenRaise \/ AbortRestore
  <2>1. PICK s \in Seqs : s = loop.cur /\ s \notin Scheduled
    BY <1>8, CurrentIdle DEF SInv, StartRestore, ReserveThenRaise, AbortRestore, Choosing
  <2>2. \A t \in Seqs \ {s} : numScheduled'[t] = numScheduled[t] /\ status'[t] = status[t]
    <3>1. \/ numScheduled' = [numScheduled EXCEPT ![s] = 0]
          \/ numScheduled' = numScheduled
      BY <1>8, <2>1 DEF StartRestore, ReserveThenRaise, AbortRestore, ReserveRestore, AllocateOp,
                        DeallocateOp
    <3>2. \E x : status' = [status EXCEPT ![s] = x]
      BY <1>8, <2>1 DEF StartRestore, ReserveThenRaise, AbortRestore, ReserveRestore
    <3>3. numScheduled \in [Seqs -> Nat] /\ status \in [Seqs -> Statuses]
      BY <1>1 DEF TypeOK, SeqTyped, SInv, SchedInv, CoreInv, QueueTyped
    <3> QED
      BY <3>1, <3>2, <3>3
  <2>3. loop'.scheduled = loop.scheduled /\ loop'.batched = loop.batched
    BY <1>1, <1>8, LoopKeepsBatch DEF StartRestore, ReserveThenRaise, AbortRestore
  <2>4. Scheduled \subseteq Seqs
    BY LocalTypes DEF SInv, SchedInv, CoreInv
  <2> QED
    BY <2>1, <2>2, <2>3, <2>4 DEF SameMembers
<1> QED
  BY <1>3, <1>4, <1>5, <1>6, <1>7, <1>8 DEF PrefillStep

\* An admitted request is counted, and completes unless it is the first.
LEMMA AdmitWithinLimits ==
    ASSUME SInv, SInv', LimitInv, Admit
    PROVE  LimitInv'
<1>1. pc = "admit" /\ pc \in Choosing /\ pc \in Prefilling /\ loop \in Locals /\ TypeOK
  BY PassLocals DEF Admit, Choosing, Prefilling, SInv, IndInv
<1>2. PICK s \in Seqs : s = loop.cur /\ s \notin Scheduled
  BY <1>1, CurrentIdle DEF SInv
<1>3. PICK q \in Seq(Seqs), n \in Nat : q = loop.scheduled /\ n = Len(q) /\ (n = 0 <=> q = <<>>)
  BY BatchMembers, EmptySeq
<1>4. Remaining \in Nat /\ n < MaxNumSeqs /\ MaxNumSeqs \in Nat
  BY <1>1, <1>3, CurrentIdle, LimitsAssumption DEF SInv, SchedInv, CurInv
<1>5. PICK need \in Int : need = Len(tokens[s]) - (IF Resident(s) THEN numCached[s] ELSE loop.hit * BlockSize)
  <2>1. Len(tokens[s]) \in Nat /\ numCached[s] \in Nat
    BY <1>1, TableSizes DEF TypeOK, SeqTyped
  <2>2. loop.hit \in Nat /\ loop.hit * BlockSize \in Nat
    BY <1>1, PageOrder DEF Locals
  <2> QED
    BY <2>1, <2>2
<1>6. PICK k : k = Min({need, Remaining})
  OBVIOUS
<1>7. \/ Break(loop) /\ UNCHANGED <<bmVars, status>>
      \/ pc' = "error"
      \/ /\ n > 0 => Remaining >= need
         /\ IF Resident(s) THEN ScheduleOp(s, k) ELSE AllocateOp(s, loop.hit, k)
         /\ Enqueue(s, k = need)
         /\ Continue([loop EXCEPT !.scheduled = Append(@, s), !.batched = @ + k])
  BY <1>2, <1>3, <1>5, <1>6 DEF Admit, Fits, Raise
<1>8. CASE Break(loop) /\ UNCHANGED <<bmVars, status>>
  <2>1. UNCHANGED numScheduled
    BY <1>8 DEF bmVars, seqVars
  <2> QED
    BY <1>1, <1>8, <2>1, LoopKeepsBatch, MembersWithinLimits DEF SameMembers
<1>9. CASE pc' = "error"
  <2>1. pc' \notin {"prefill", "run", "decode"}
    BY <1>9
  <2>2. loop' = loop
    BY <1>2, <2>1 DEF Admit, Raise, Break, Continue
  <2>3. ~BuildsPrefill'
    BY <1>9 DEF BuildsPrefill, Prefilling, Choosing
  <2> QED
    BY <1>3, <1>4, <2>2, <2>3, ShortBatchWithinLimits DEF LimitInv
<1>10. CASE /\ n > 0 => Remaining >= need
            /\ IF Resident(s) THEN ScheduleOp(s, k) ELSE AllocateOp(s, loop.hit, k)
            /\ Enqueue(s, k = need)
            /\ Continue([loop EXCEPT !.scheduled = Append(@, s), !.batched = @ + k])
  <2>1. /\ pc' = "prefill" /\ loop'.scheduled = Append(q, s) /\ loop'.batched = loop.batched + k
        /\ loop'.batched \in 0..MaxNumBatched
    <3>1. /\ pc' = "prefill"
          /\ loop' = [loop EXCEPT !.scheduled = Append(q, s), !.batched = loop.batched + k,
                                  !.cur = NoSeq, !.hit = 0]
      BY <1>3, <1>10 DEF Continue
    <3>2. loop' \in Locals
      BY DEF SInv, SchedInv, CoreInv, QueueTyped
    <3> QED
      BY <1>1, <3>1, <3>2 DEF Locals
  <2>2. numScheduled \in [Seqs -> Nat] /\ numScheduled' = [numScheduled EXCEPT ![s] = k]
    BY <1>1, <1>10 DEF ScheduleOp, AllocateOp, TypeOK, SeqTyped
  <2>3. /\ n > 0 => status'[s] = "running"
        /\ \A t \in Seqs \ {s} : status'[t] = status[t]
    <3>1. n > 0 => k = need
      BY <1>4, <1>6, <1>10, LesserOf
    <3>2. status \in [Seqs -> Statuses]
      BY DEF SInv, SchedInv, CoreInv, QueueTyped
    <3> QED
      BY <1>10, <3>1, <3>2 DEF Enqueue
  <2>4. \A i \in 1..n : q[i] \in Seqs \ {s}
    <3>1. Scheduled \subseteq Seqs
      BY LocalTypes DEF SInv, SchedInv, CoreInv
    <3> QED
      BY <1>2, <1>3, <3>1, BatchMembers
  <2>5. PICK r : r = Append(q, s)
    OBVIOUS
  <2>6. Len(r) = n + 1 /\ r[n + 1] = s /\ \A i \in 1..n : r[i] = q[i]
    BY <1>3, <2>5
  <2>7. PICK total : /\ total \in [0..n -> 0..MaxNumBatched] /\ total[0] = 0 /\ total[n] = loop.batched
                     /\ \A i \in 1..n : total[i] = total[i - 1] + numScheduled[q[i]]
    BY <1>1, <1>3 DEF LimitInv, BuildsPrefill, Totals
  <2>8. PICK b \in 0..MaxNumBatched : b = loop'.batched
    BY <2>1
  <2>9. PICK new \in [0..(n + 1) -> 0..MaxNumBatched] : new[n + 1] = b /\ \A i \in 0..n : new[i] = total[i]
    <3> DEFINE f == [i \in 0..(n + 1) |-> IF i = n + 1 THEN b ELSE total[i]]
    <3>1. f \in [0..(n + 1) -> 0..MaxNumBatched]
      BY <2>7
    <3>2. f[n + 1] = b /\ \A i \in 0..n : f[i] = total[i]
      OBVIOUS
    <3> HIDE DEF f
    <3> QED
      BY <3>1, <3>2
  <2>10. \A i \in 1..(n + 1) : new[i] = new[i - 1] + numScheduled'[r[i]]
    <3>1. SUFFICES ASSUME NEW i \in 1..(n + 1) PROVE new[i] = new[i - 1] + numScheduled'[r[i]]
      OBVIOUS
    <3>2. CASE i \in 1..n
      <4>1. i \in 0..n /\ i - 1 \in 0..n /\ numScheduled'[r[i]] = numScheduled[q[i]]
        BY <2>2, <2>4, <2>6, <3>2
      <4> QED
        BY <2>7, <2>9, <3>2, <4>1
    <3>3. CASE i = n + 1
      <4>1. numScheduled'[r[i]] = k /\ new[i - 1] = loop.batched /\ new[i] = b
        BY <2>2, <2>6, <2>7, <2>9, <3>3
      <4> QED
        BY <2>1, <2>8, <4>1
    <3> QED
      BY <3>2, <3>3
  <2>11. Totals(new)'
    <3>1. new[0] = 0 /\ new[n + 1] = b
      BY <2>7, <2>9
    <3> QED
      BY <2>1, <2>5, <2>6, <2>8, <2>9, <2>10, <3>1 DEF Totals
  <2>12. \A i \in 2..(n + 1) : status'[r[i]] = "running"
    <3>1. SUFFICES ASSUME NEW i \in 2..(n + 1) PROVE status'[r[i]] = "running"
      OBVIOUS
    <3>2. CASE i \in 2..n
      <4>1. i \in 1..n /\ status[q[i]] = "running"
        BY <1>1, <1>3, <3>2 DEF LimitInv, BuildsPrefill
      <4> QED
        BY <2>3, <2>4, <2>6, <4>1
    <3>3. CASE i = n + 1
      BY <2>3, <2>6, <3>1, <3>3
    <3> QED
      BY <3>2, <3>3
  <2>13. loop'.scheduled = r
    BY <2>1, <2>5
  <2> QED
    BY <1>4, <2>6, <2>11, <2>12, <2>13 DEF LimitInv
<1> QED
  BY <1>7, <1>8, <1>9, <1>10

\* The decode loop stops at max_num_seqs, and a decode batch is no prefill.
LEMMA DecodeWithinLimits ==
    ASSUME SInv, SInv', LimitInv, DecodeStep
    PROVE  LimitInv'
<1>1. loop \in Locals /\ ~loop.isPrefill /\ MaxNumSeqs \in Nat /\ Len(loop.scheduled) <= MaxNumSeqs
  BY PassLocals DEF DecodeStep, SelectDecode, AppendPressure, Append_, DecodeEnd, Decoding,
                    SInv, SchedInv, CoreInv, BatchInv, LimitInv
<1>2. CASE SelectDecode \/ AppendPressure
  <2>1. loop'.scheduled = loop.scheduled /\ pc' \in {"append", "decode"}
    <3>1. CASE SelectDecode
      <4>1. pc' = "append" /\ \E s : loop' = [loop EXCEPT !.cur = s]
        BY <3>1 DEF SelectDecode
      <4> QED
        BY <1>1, <4>1 DEF Locals
    <3>2. CASE AppendPressure
      <4>1. /\ pc' \in {"append", "decode"}
            /\ loop' = loop \/ loop' = [loop EXCEPT !.retryPrefill = TRUE, !.cur = NoSeq]
        BY <3>2 DEF AppendPressure
      <4> QED
        BY <1>1, <4>1 DEF Locals
    <3> QED
      BY <1>2, <3>1, <3>2
  <2>2. ~BuildsPrefill'
    BY <2>1 DEF BuildsPrefill, Prefilling, Choosing
  <2> QED
    BY <1>1, <2>1, <2>2, ShortBatchWithinLimits
<1>3. CASE Append_
  <2>1. PICK s \in Seqs : s = loop.cur
    BY <1>3 DEF SInv, SchedInv, CurInv, Append_
  <2>2. pc = "append" /\ pc' = "decode" /\ loop'.scheduled = Append(loop.scheduled, s)
    <3>1. /\ pc = "append" /\ pc' = "decode"
          /\ loop' = [loop EXCEPT !.scheduled = Append(loop.scheduled, s), !.cur = NoSeq]
      BY <1>3, <2>1 DEF Append_
    <3> QED
      BY <1>1, <3>1 DEF Locals
  <2>3. Len(loop.scheduled) < MaxNumSeqs
    BY <2>2 DEF SInv, SchedInv, CurInv
  <2>4. Len(Append(loop.scheduled, s)) = Len(loop.scheduled) + 1 /\ Len(loop.scheduled) \in Nat
    BY BatchMembers, AppendToQueue
  <2>5. ~BuildsPrefill'
    BY <2>2 DEF BuildsPrefill, Prefilling, Choosing
  <2> QED
    BY <1>1, <2>2, <2>3, <2>4, <2>5, ShortBatchWithinLimits
<1>4. CASE DecodeEnd
  <2>1. \/ loop' = loop /\ pc' \in {"run", "error"}
        \/ loop' = Fresh \/ \E b : loop' = [Fresh EXCEPT !.second = b]
    BY <1>4 DEF DecodeEnd, Enter
  <2>2. CASE loop' = loop /\ pc' \in {"run", "error"}
    <3>1. ~BuildsPrefill'
      BY <1>1, <2>2 DEF BuildsPrefill, Prefilling, Choosing
    <3> QED
      BY <1>1, <2>2, <3>1, ShortBatchWithinLimits
  <2>3. CASE loop' = Fresh \/ \E b : loop' = [Fresh EXCEPT !.second = b]
    <3>1. loop'.scheduled = <<>> /\ loop'.batched = 0
      BY <2>3 DEF Fresh
    <3> QED
      BY <3>1, FreshWithinLimits
  <2> QED
    BY <2>1, <2>2, <2>3
<1> QED
  BY <1>2, <1>3, <1>4 DEF DecodeStep

LEMMA StepWithinLimits ==
    ASSUME SInv, SInv', LimitInv, [Next]_vars
    PROVE  LimitInv'
<1>1. /\ loop \in Locals /\ MaxNumSeqs \in Nat /\ Len(loop.scheduled) <= MaxNumSeqs
      /\ Len(loop.scheduled) \in Nat
  BY PassLocals DEF LimitInv
<1>2. CASE Schedule_
  <2>1. \E b : loop' = [Fresh EXCEPT !.second = b]
    BY <1>2 DEF Schedule_, Enter
  <2>2. loop'.scheduled = <<>> /\ loop'.batched = 0
    BY <2>1 DEF Fresh
  <2> QED
    BY <2>2, FreshWithinLimits
<1>3. CASE PrefillStep /\ ~Schedule_ /\ ~Admit
  <2>1. pc \in Prefilling
    BY <1>3 DEF PrefillStep, SelectPrefill, EnsureResume, EvictRetained, Resume_, TryAllocate,
                SkipRestore, StartRestore, ReserveThenRaise, AbortRestore, Prefilling, Choosing
  <2> QED
    BY <1>3, <2>1, PrefillKeepsMembers, MembersWithinLimits
<1>4. CASE Admit
  BY <1>4, AdmitWithinLimits
<1>5. CASE DecodeStep
  BY <1>5, DecodeWithinLimits
<1>6. CASE PostprocessOne
  <2>1. /\ pc' \in {"post", "finish"} /\ loop.scheduled # <<>>
        /\ \E s : loop' = [loop EXCEPT !.scheduled = Tail(loop.scheduled), !.cur = s]
    BY <1>6 DEF PostprocessOne
  <2>2. loop'.scheduled = Tail(loop.scheduled)
    BY <1>1, <2>1 DEF Locals
  <2>3. Len(Tail(loop.scheduled)) = Len(loop.scheduled) - 1
    BY <2>1, BatchMembers, TailOfQueue
  <2>4. ~BuildsPrefill'
    BY <2>1 DEF BuildsPrefill, Prefilling, Choosing
  <2> QED
    BY <1>1, <2>2, <2>3, <2>4, ShortBatchWithinLimits
<1>7. CASE EndStep \/ FailEnd
  <2>1. loop'.scheduled = <<>> /\ loop'.batched = 0
    BY <1>7 DEF EndStep, FailEnd, Fresh
  <2> QED
    BY <2>1, FreshWithinLimits
<1>8. CASE \/ StartStep \/ RunModel \/ Finish \/ RunRaises \/ Transfers
           \/ \E s \in Seqs : FailActive(s) \/ CancelIdle(s) \/ Add(s)
  <2>1. loop' = loop /\ pc' \in {"step", "post", "failActive", "idle"}
    BY <1>8 DEF StartStep, RunModel, Finish, RunRaises, Transfers, CompleteRestore, FailRestore,
                FailActive, CancelIdle, CancelRequest, Add
  <2>2. ~BuildsPrefill'
    BY <2>1 DEF BuildsPrefill, Prefilling, Choosing
  <2> QED
    BY <1>1, <2>1, <2>2, ShortBatchWithinLimits
<1>9. CASE UNCHANGED vars
  <2>1. UNCHANGED <<numScheduled, status, pc, loop>>
    BY <1>9 DEF vars, bmVars, seqVars, schedVars
  <2>2. \A total : Totals(total)' <=> Totals(total)
    BY <2>1 DEF Totals
  <2>3. BuildsPrefill' <=> BuildsPrefill
    BY <2>1 DEF BuildsPrefill
  <2> QED
    BY <2>1, <2>2, <2>3 DEF LimitInv
<1> QED
  BY <1>2, <1>3, <1>4, <1>5, <1>6, <1>7, <1>8, <1>9
     DEF Next, Engine, Client, Quiet, RunStep

LEMMA BatchLimits ==
    ASSUME SInv, LimitInv
    PROVE  BatchWellFormed
<1>1. SUFFICES ASSUME pc = "run" PROVE BatchWellFormed
  BY DEF BatchWellFormed
<1>2. PICK q \in Seq(Seqs), n \in Nat : q = loop.scheduled /\ n = Len(q) /\ (n = 0 <=> q = <<>>)
  BY BatchMembers, EmptySeq
<1>3. IsInjective(q) /\ n \in 1..MaxNumSeqs
  <2>1. IsInjective(q) /\ q # <<>> /\ n <= MaxNumSeqs /\ MaxNumSeqs \in Nat
    BY <1>1, <1>2, LimitsAssumption DEF SInv, SchedInv, CoreInv, QueueInv, BatchInv, LimitInv
  <2> QED
    BY <1>2, <2>1
<1>4. /\ Scheduled \subseteq Seqs
      /\ loop.isPrefill => \A s \in Scheduled : PrefillMember(s)
      /\ ~loop.isPrefill => \A s \in Scheduled : DecodeMember(s)
  BY <1>1, LocalTypes DEF SInv, SchedInv, CoreInv, BatchInv, Executing
<1>5. \A s \in Scheduled : numScheduled[s] > 0
  <2>1. numScheduled \in [Seqs -> Nat]
    BY DEF SInv, IndInv, TypeOK, SeqTyped
  <2> QED
    BY <1>4, <2>1 DEF PrefillMember, DecodeMember, Idle
<1>6. ASSUME loop.isPrefill
      PROVE  /\ WithinBudget(loop.scheduled)
             /\ \A i \in 2..n : numCached[q[i]] + numScheduled[q[i]] = Len(tokens[q[i]])
  <2>1. PICK total : Totals(total)
    BY <1>1, <1>6 DEF LimitInv, BuildsPrefill
  <2>2. \A i \in 2..n : q[i] \in Scheduled /\ status[q[i]] = "running"
    <3>1. \A i \in 2..n : i \in 1..n
      OBVIOUS
    <3> QED
      BY <1>1, <1>2, <1>6, <3>1, BatchMembers DEF LimitInv, BuildsPrefill
  <2> QED
    BY <1>2, <1>4, <1>6, <2>1, <2>2 DEF Totals, WithinBudget, PrefillMember
<1>7. ~loop.isPrefill => \A s \in Scheduled : NewestMissing(s)
  BY <1>4 DEF DecodeMember
<1> QED
  BY <1>2, <1>3, <1>5, <1>6, <1>7 DEF BatchWellFormed

\* A batch handed to the model has between one and max_num_seqs distinct
\* members with work each; a prefill batch stays within max_num_batched_tokens
\* and only its first member may be a chunk; a decode batch computes one token
\* per member.
THEOREM BatchesWithinLimits == Spec => []BatchWellFormed
<1>1. Init => LimitInv
  <2>1. SUFFICES ASSUME Init PROVE LimitInv
    OBVIOUS
  <2>2. loop.scheduled = <<>> /\ ~BuildsPrefill /\ MaxNumSeqs \in Nat
    BY <2>1, LimitsAssumption DEF Init, Fresh, BuildsPrefill, Prefilling, Choosing
  <2> QED
    BY <2>2 DEF LimitInv
<1>2. SInv /\ SInv' /\ LimitInv /\ [Next]_vars => LimitInv'
  BY StepWithinLimits
<1>3. SInv /\ LimitInv => BatchWellFormed
  BY BatchLimits
<1> QED
  BY <1>1, <1>2, <1>3, SchedulerInvariance, PTL DEF Spec

---------------------------------------------------------------------------
(* max_num_active_seqs *)

\* The requests that own pages.
Owners == {s \in Seqs : Resident(s)}

\* The control points from which a request without pages may be given some.
MayAllocate == pc \in {"ensure", "allocate", "restore", "admit"} /\ ~Resident(loop.cur)

\* The limit holds of the owners, and leaves room for one about to become one.
ResidentInv ==
    MaxActive > 0 =>
        /\ Cardinality(Owners) <= MaxActive
        /\ MayAllocate => Cardinality(Owners) < MaxActive

LEMMA OwnersFinite ==
    /\ IsFiniteSet(Owners) /\ Cardinality(Owners) \in Nat
    /\ IsFiniteSet(Owners') /\ Cardinality(Owners') \in Nat
<1>1. Owners \in SUBSET Seqs /\ Owners' \in SUBSET Seqs
  BY DEF Owners
<1> QED
  BY <1>1, SeqsAssumption, FS_Subset, FS_CardinalityType

\* Pages are given back or stay where they are.
LEMMA OwnersShrink ==
    ASSUME ResidentInv, Owners' \subseteq Owners, MayAllocate' => MayAllocate \/ Owners' # Owners
    PROVE  ResidentInv'
<1>1. PICK A, B : A = Owners /\ B = Owners'
  OBVIOUS
<1>2. /\ IsFiniteSet(A) /\ B \in SUBSET A
  BY <1>1, OwnersFinite
<1>3. /\ Cardinality(B) <= Cardinality(A)
      /\ Cardinality(A) = Cardinality(B) => A = B
  BY <1>2, FS_Subset
<1>4. PICK a \in Nat, b \in Nat : a = Cardinality(A) /\ b = Cardinality(B)
  BY <1>1, OwnersFinite
<1>5. b <= a /\ (a = b => A = B) /\ MaxActive \in Nat
  BY <1>3, <1>4, LimitsAssumption
<1>6. /\ MaxActive > 0 => a <= MaxActive /\ (MayAllocate => a < MaxActive)
      /\ MayAllocate' => MayAllocate \/ A # B
  BY <1>1, <1>4 DEF ResidentInv
<1>7. MaxActive > 0 => b <= MaxActive /\ (MayAllocate' => b < MaxActive)
  BY <1>5, <1>6
<1> QED
  BY <1>1, <1>4, <1>7 DEF ResidentInv

\* The request at hand becomes an owner.
LEMMA OwnerAdded ==
    ASSUME ResidentInv, MayAllocate, ~MayAllocate', NEW s, Owners' \subseteq Owners \cup {s}
    PROVE  ResidentInv'
<1>1. PICK A, B : A = Owners /\ B = Owners'
  OBVIOUS
<1>2. IsFiniteSet(A) /\ B \in SUBSET (A \cup {s})
  BY <1>1, OwnersFinite
<1>3. IsFiniteSet(A \cup {s}) /\ Cardinality(A \cup {s}) = IF s \in A THEN Cardinality(A) ELSE Cardinality(A) + 1
  BY <1>2, FS_AddElement
<1>4. Cardinality(B) <= Cardinality(A \cup {s})
  BY <1>2, <1>3, FS_Subset
<1>5. PICK a \in Nat, b \in Nat : a = Cardinality(A) /\ b = Cardinality(B)
  BY <1>1, OwnersFinite
<1>6. b <= a + 1 /\ MaxActive \in Nat
  BY <1>3, <1>4, <1>5, LimitsAssumption
<1>7. MaxActive > 0 => a < MaxActive
  BY <1>1, <1>5 DEF ResidentInv
<1> QED
  BY <1>1, <1>5, <1>6, <1>7 DEF ResidentInv

\* Only the table of s changes.
LEMMA OneTable ==
    ASSUME SInv, NEW s \in Seqs, NEW x, blockTable' = [blockTable EXCEPT ![s] = x]
    PROVE  /\ Owners' \subseteq Owners \cup {s}
           /\ Resident(s) => Owners' \subseteq Owners
           /\ x = <<>> => Owners' = Owners \ {s}
<1>1. PICK T : blockTable \in [Seqs -> T]
  BY DEF SInv, IndInv, TypeOK, SeqTyped
<1>2. blockTable'[s] = x /\ \A t \in Seqs \ {s} : blockTable'[t] = blockTable[t]
  BY <1>1
<1> QED
  BY <1>2 DEF Owners, Resident

LEMMA SameTables ==
    ASSUME UNCHANGED blockTable
    PROVE  Owners' = Owners
  BY DEF Owners, Resident

\* What the resident count counts.
LEMMA QueueCardinality ==
    ASSUME NEW q \in Seq(Seqs)
    PROVE  /\ IsFiniteSet(Range(q)) /\ Cardinality(Range(q)) \in Nat /\ Len(q) \in Nat
           /\ Cardinality(Range(q)) <= Len(q)
           /\ IsInjective(q) => Cardinality(Range(q)) = Len(q)
<1>1. Len(q) \in Nat /\ DOMAIN q = 1..Len(q)
  BY LenProperties
<1>2. q \in Surjection(1..Len(q), Range(q))
  BY <1>1 DEF Surjection, Range
<1>3. IsInjective(q) => q \in Injection(1..Len(q), Range(q))
  BY <1>1, <1>2 DEF Injection, Surjection, IsInjective
<1>4. IsFiniteSet(1..Len(q)) /\ Cardinality(1..Len(q)) = Len(q)
  BY <1>1, PositionsFinite
<1>5. /\ IsFiniteSet(Range(q)) /\ Cardinality(Range(q)) <= Cardinality(1..Len(q))
      /\ Cardinality(Range(q)) = Cardinality(1..Len(q)) <=> q \in Injection(1..Len(q), Range(q))
  BY <1>2, <1>4, FS_Surjection
<1> QED
  BY <1>1, <1>3, <1>4, <1>5, FS_CardinalityType

LEMMA CountedSets ==
    ASSUME SInv
    PROVE  /\ IsFiniteSet(DOMAIN pending) /\ IsFiniteSet(Residents(waiting)) /\ IsFiniteSet(Range(running))
           /\ Cardinality(DOMAIN pending) \in Nat /\ Cardinality(Residents(waiting)) \in Nat
           /\ Cardinality(Range(running)) \in Nat /\ Len(running) \in Nat
           /\ Cardinality(Range(running)) = Len(running)
<1>1. /\ DOMAIN pending \in SUBSET Seqs /\ Residents(waiting) \in SUBSET Seqs
      /\ running \in Seq(Seqs) /\ IsInjective(running)
  BY LocalTypes DEF SInv, SchedInv, CoreInv, QueueTyped, QueueInv, Residents
<1>2. IsFiniteSet(DOMAIN pending) /\ IsFiniteSet(Residents(waiting))
  BY <1>1, SeqsAssumption, FS_Subset
<1> QED
  BY <1>1, <1>2, QueueCardinality, FS_CardinalityType

\* In the prefill loop every owner is counted.
LEMMA OwnersCounted ==
    ASSUME SInv, pc \in Prefilling
    PROVE  Cardinality(Owners) <= ResidentCount /\ ResidentCount \in Nat
<1>1. PICK R, P, W : R = Range(running) /\ P = DOMAIN pending /\ W = Residents(waiting)
  OBVIOUS
<1>2. PICK r \in Nat, p \in Nat, w \in Nat : r = Cardinality(R) /\ p = Cardinality(P) /\ w = Cardinality(W)
  BY <1>1, CountedSets
<1>3. IsFiniteSet(R) /\ IsFiniteSet(P) /\ IsFiniteSet(W) /\ ResidentCount = r + p + w
  BY <1>1, <1>2, CountedSets DEF ResidentCount
<1>4. IsFiniteSet(R \cup P) /\ Cardinality(R \cup P) <= r + p /\ Cardinality(R \cup P) \in Nat
  <2>1. /\ IsFiniteSet(R \cup P)
        /\ Cardinality(R \cup P) = Cardinality(R) + Cardinality(P) - Cardinality(R \cap P)
    BY <1>3, FS_Union
  <2>2. (R \cap P) \in SUBSET R
    OBVIOUS
  <2>3. Cardinality(R \cap P) \in Nat
    BY <1>3, <2>2, FS_Subset, FS_CardinalityType
  <2> QED
    BY <1>2, <2>1, <2>3, FS_CardinalityType
<1>5. IsFiniteSet((R \cup P) \cup W) /\ Cardinality((R \cup P) \cup W) <= r + p + w
      /\ Cardinality((R \cup P) \cup W) \in Nat
  <2>1. /\ IsFiniteSet((R \cup P) \cup W)
        /\ Cardinality((R \cup P) \cup W) = Cardinality(R \cup P) + Cardinality(W) - Cardinality((R \cup P) \cap W)
    BY <1>3, <1>4, FS_Union
  <2>2. ((R \cup P) \cap W) \in SUBSET W
    OBVIOUS
  <2>3. Cardinality((R \cup P) \cap W) \in Nat
    BY <1>3, <2>2, FS_Subset, FS_CardinalityType
  <2>4. PICK u \in Nat, d \in Nat : u = Cardinality(R \cup P) /\ d = Cardinality((R \cup P) \cap W)
    BY <1>4, <2>3
  <2>5. Cardinality((R \cup P) \cup W) = u + w - d /\ u <= r + p
    BY <1>2, <1>4, <2>1, <2>4
  <2>6. Cardinality((R \cup P) \cup W) \in Nat
    BY <2>1, FS_CardinalityType
  <2> QED
    BY <2>1, <2>4, <2>5, <2>6
<1>6. Owners \in SUBSET ((R \cup P) \cup W)
  BY <1>1, OwnersQueued DEF Owners
<1>7. Cardinality(Owners) <= Cardinality((R \cup P) \cup W)
  BY <1>5, <1>6, FS_Subset
<1>8. Cardinality(Owners) \in Nat
  BY OwnersFinite
<1> QED
  BY <1>3, <1>5, <1>7, <1>8

\* Between steps every request counted owns pages, and none is counted twice.
LEMMA CountedOwn ==
    ASSUME SInv, pc = "idle"
    PROVE  ResidentCount <= Cardinality(Owners)
<1>1. PICK R, P, W : R = Range(running) /\ P = DOMAIN pending /\ W = Residents(waiting)
  OBVIOUS
<1>2. PICK r \in Nat, p \in Nat, w \in Nat : r = Cardinality(R) /\ p = Cardinality(P) /\ w = Cardinality(W)
  BY <1>1, CountedSets
<1>3. IsFiniteSet(R) /\ IsFiniteSet(P) /\ IsFiniteSet(W) /\ ResidentCount = r + p + w
  BY <1>1, <1>2, CountedSets DEF ResidentCount
<1>4. /\ TypeOK /\ TableInv /\ loop = Fresh /\ \A s \in Seqs : Idle(s) /\ QueuedAt(s) /\ RequestAt(s)
  <2>1. loop = Fresh /\ pc # "failActive"
    BY DEF SInv, SchedInv, CoreInv, BatchInv, Outside
  <2>2. Scheduled = {}
    BY <2>1, FreshTyped DEF Scheduled
  <2> QED
    BY <2>1, <2>2 DEF SInv, IndInv, SchedInv, CoreInv, BatchInv, QueueInv, RequestInv
<1>5. ~(pc \in Decoding) /\ pc # "finish" /\ pc # "abortRestore"
  BY DEF Decoding
<1>6. \A s \in Seqs : /\ s \in R <=> status[s] = "running"
                      /\ s \in P <=> status[s] = "waiting_for_kv"
                      /\ s \in W => status[s] = "waiting" /\ Resident(s)
  BY <1>1, <1>4, <1>5 DEF QueuedAt, Aborting, Popped, Finishing, Residents
<1>7. R \subseteq Seqs /\ P \subseteq Seqs /\ W \subseteq Seqs
  BY <1>1, LocalTypes DEF SInv, SchedInv, CoreInv, QueueTyped, Residents
<1>8. ((R \cup P) \cup W) \in SUBSET Owners
  <2>1. \A s \in R : Resident(s)
    BY <1>4, <1>6, <1>7 DEF RequestAt, DecodeReady, Resident
  <2>2. \A s \in P : Resident(s)
    <3>1. SUFFICES ASSUME NEW s \in P PROVE Resident(s)
      OBVIOUS
    <3>2. s \in Seqs /\ Retained(s) = NumBlocks(s)
      BY <1>1, <1>4, <1>7, <3>1 DEF RequestAt, PendingAt
    <3>3. NumBlocks(s) = CacheableBlocks(s) + 1 /\ CacheableBlocks(s) \in Nat
      BY <1>4, <3>2, TableSizes
    <3>4. Len(<<>>) = 0
      OBVIOUS
    <3> QED
      BY <3>2, <3>3, <3>4 DEF Retained, Resident
  <2> QED
    BY <1>6, <1>7, <2>1, <2>2 DEF Owners
<1>9. R \cap P = {} /\ (R \cup P) \cap W = {} /\ Cardinality({}) = 0
  BY <1>6, <1>7, FS_EmptySet
<1>10. Cardinality(R \cup P) = r + p /\ IsFiniteSet(R \cup P)
  <2>1. /\ IsFiniteSet(R \cup P)
        /\ Cardinality(R \cup P) = Cardinality(R) + Cardinality(P) - Cardinality(R \cap P)
    BY <1>3, FS_Union
  <2>2. Cardinality(R \cap P) = 0
    BY <1>9
  <2>3. Cardinality(R \cup P) = r + p - 0
    BY <1>2, <2>1, <2>2
  <2> QED
    BY <2>1, <2>3
<1>11. Cardinality((R \cup P) \cup W) = r + p + w
  <2>1. Cardinality((R \cup P) \cup W) = Cardinality(R \cup P) + Cardinality(W) - Cardinality((R \cup P) \cap W)
    BY <1>3, <1>10, FS_Union
  <2>2. Cardinality((R \cup P) \cap W) = 0
    BY <1>9
  <2>3. Cardinality((R \cup P) \cup W) = r + p + w - 0
    BY <1>2, <1>10, <2>1, <2>2
  <2> QED
    BY <2>3
<1>12. Cardinality((R \cup P) \cup W) <= Cardinality(Owners)
  BY <1>8, OwnersFinite, FS_Subset
<1> QED
  BY <1>3, <1>11, <1>12

\* The prefill loop turns to a request without pages only below the limit.
LEMMA SelectPrefillResidents ==
    ASSUME SInv, ResidentInv, SelectPrefill
    PROVE  ResidentInv'
<1>1. pc = "prefill" /\ pc \in Prefilling /\ UNCHANGED blockTable /\ loop \in Locals
  BY PassLocals DEF SelectPrefill, bmVars, seqVars, Prefilling
<1>2. Owners' = Owners
  BY <1>1, SameTables
<1>3. CASE ~MayAllocate'
  BY <1>2, <1>3, OwnersShrink
<1>4. CASE MayAllocate'
  <2>1. PICK s \in SelectFirst(waiting, Eligible) :
            /\ pc' = IF Resident(s) THEN "ensure" ELSE "allocate"
            /\ loop' = [loop EXCEPT !.cur = s]
    BY <1>4 DEF SelectPrefill, Break, MayAllocate
  <2>2. s \in Eligible /\ loop'.cur = s
    BY <1>1, <2>1 DEF SelectFirst, Locals
  <2>3. ~Resident(s)
    BY <1>1, <1>4, <2>2 DEF MayAllocate, Resident
  <2>4. ~AtResidentLimit
    BY <2>2, <2>3 DEF Eligible, Residents
  <2>5. PICK a \in Nat, c \in Nat : a = Cardinality(Owners) /\ c = ResidentCount /\ a <= c
    BY <1>1, OwnersCounted, OwnersFinite
  <2>6. MaxActive > 0 => a < MaxActive
    BY <2>4, <2>5, LimitsAssumption DEF AtResidentLimit
  <2> QED
    BY <1>2, <2>5, <2>6, LimitsAssumption DEF ResidentInv
<1> QED
  BY <1>3, <1>4

LEMMA PrefillResidents ==
    ASSUME SInv, SInv', ResidentInv, PrefillStep
    PROVE  ResidentInv'
<1>0. loop \in Locals
  BY PassLocals
<1>1. CASE Schedule_
  <2>1. UNCHANGED blockTable /\ pc' \in {"prefill", "decode"}
    BY <1>1 DEF Schedule_, Enter, bmVars, seqVars
  <2> QED
    BY <2>1, SameTables, OwnersShrink DEF MayAllocate
<1>2. CASE SelectPrefill
  BY <1>2, SelectPrefillResidents
<1>3. CASE EnsureResume
  <2>1. pc = "ensure" /\ UNCHANGED blockTable
    BY <1>3 DEF EnsureResume, CanResumeOp, CannotResumeOp, seqVars
  <2>2. MayAllocate' => UNCHANGED loop /\ MayAllocate
    BY <1>3, <2>1 DEF EnsureResume, Break, MayAllocate, Resident
  <2> QED
    BY <2>1, <2>2, SameTables, OwnersShrink
<1>4. CASE EvictRetained
  <2>1. pc = "evict"
    BY <1>4 DEF EvictRetained
  <2>2. PICK s \in Seqs : s = loop.cur /\ Resident(s)
    BY <2>1, CurrentIdle DEF SInv, SchedInv, CurInv, Choosing
  <2>3. ASSUME NEW v \in Seqs, Resident(v), ReclaimSuffixOp(v, 0)
        PROVE  Owners' \subseteq Owners /\ Owners' # Owners
    <3>1. TypeOK /\ Retained(v) \in Nat
      BY TableSizes DEF SInv, IndInv
    <3>2. ~Resident(v)'
      BY <2>3, <3>1, ReclaimEffect
    <3>3. \E x : blockTable' = [blockTable EXCEPT ![v] = x]
      BY <2>3 DEF ReclaimSuffixOp
    <3>4. Owners' \subseteq Owners
      BY <2>3, <3>3, OneTable
    <3> QED
      BY <2>3, <3>2, <3>4 DEF Owners
  <2>4. CASE \E v \in Residents(waiting) : ReclaimSuffixOp(v, 0)
    <3>1. PICK v \in Residents(waiting) : ReclaimSuffixOp(v, 0)
      BY <2>4
    <3>2. v \in Seqs /\ Resident(v)
      BY LocalTypes DEF Residents, SInv, SchedInv, CoreInv
    <3> QED
      BY <2>3, <3>1, <3>2, OwnersShrink
  <2>5. CASE ReclaimSuffixOp(s, 0)
    BY <2>2, <2>3, <2>5, OwnersShrink
  <2>6. CASE Break(loop) /\ UNCHANGED bmVars
    <3>1. UNCHANGED blockTable /\ pc' \in {"run", "decode"}
      BY <2>6 DEF Break, bmVars, seqVars
    <3> QED
      BY <3>1, SameTables, OwnersShrink DEF MayAllocate
  <2> QED
    BY <1>4, <2>2, <2>4, <2>5, <2>6 DEF EvictRetained
<1>5. CASE Resume_
  <2>1. pc = "resume" /\ loop' = loop
    BY <1>5 DEF Resume_
  <2>2. PICK s \in Seqs : s = loop.cur /\ Resident(s)
    BY <2>1, CurrentIdle DEF SInv, SchedInv, CurInv, Choosing
  <2>3. \E x : blockTable' = [blockTable EXCEPT ![s] = x]
    BY <1>5, <2>2 DEF Resume_, ResumeOp, TakePages
  <2>4. Owners' \subseteq Owners
    BY <2>2, <2>3, OneTable
  <2>5. MayAllocate' => Owners' # Owners
    BY <2>1, <2>2 DEF MayAllocate, Owners, Resident
  <2> QED
    BY <2>4, <2>5, OwnersShrink
<1>6. CASE TryAllocate
  <2>1. pc = "allocate" /\ UNCHANGED blockTable /\ ~Resident(loop.cur)
    BY <1>6 DEF TryAllocate, ForgetPlanOp, CanAllocateOp, seqVars, SInv, SchedInv, CurInv
  <2>2. MayAllocate
    BY <2>1 DEF MayAllocate
  <2> QED
    BY <2>1, <2>2, SameTables, OwnersShrink
<1>7. CASE SkipRestore
  <2>1. pc = "restore" /\ UNCHANGED blockTable /\ ~Resident(loop.cur)
    BY <1>7 DEF SkipRestore, bmVars, seqVars, SInv, SchedInv, CurInv
  <2>2. MayAllocate
    BY <2>1 DEF MayAllocate
  <2> QED
    BY <2>1, <2>2, SameTables, OwnersShrink
<1>8. CASE StartRestore \/ ReserveThenRaise
  <2>1. pc = "restore" /\ pc' \in {"prefill", "abortRestore"} /\ ~Resident(loop.cur)
    BY <1>8 DEF StartRestore, ReserveThenRaise, Continue, SInv, SchedInv, CurInv
  <2>2. PICK s \in Seqs : s = loop.cur
    BY <2>1, CurrentIdle DEF SInv, Choosing
  <2>3. \E x : blockTable' = [blockTable EXCEPT ![s] = x]
    BY <1>8, <2>2 DEF StartRestore, ReserveThenRaise, ReserveRestore, AllocateOp, TakePages
  <2>4. Owners' \subseteq Owners \cup {s}
    BY <2>3, OneTable
  <2> QED
    BY <2>1, <2>4, OwnerAdded DEF MayAllocate
<1>9. CASE AbortRestore
  <2>1. pc = "abortRestore"
    BY <1>9 DEF AbortRestore
  <2>2. PICK s \in Seqs : s = loop.cur /\ Retained(s) = NumBlocks(s)
    BY <2>1, CurrentIdle DEF SInv, SchedInv, CurInv, Choosing, Reserved
  <2>3. Resident(s)
    <3>1. NumBlocks(s) = CacheableBlocks(s) + 1 /\ CacheableBlocks(s) \in Nat
      BY TableSizes DEF SInv, IndInv
    <3>2. Len(<<>>) = 0
      OBVIOUS
    <3> QED
      BY <2>2, <3>1, <3>2 DEF Retained, Resident
  <2>4. blockTable' = [blockTable EXCEPT ![s] = <<>>]
    BY <1>9, <2>2 DEF AbortRestore, DeallocateOp, ReleaseAll
  <2>5. Owners' = Owners \ {s} /\ s \in Owners
    BY <2>3, <2>4, OneTable DEF Owners
  <2> QED
    BY <2>5, OwnersShrink
<1>10. CASE Admit
  <2>1. pc = "admit"
    BY <1>10 DEF Admit
  <2>2. PICK s \in Seqs : s = loop.cur
    BY <2>1, CurrentIdle DEF SInv, Choosing
  <2>3. \/ UNCHANGED blockTable
        \/ ~Resident(s) /\ \E x : blockTable' = [blockTable EXCEPT ![s] = x]
    BY <1>10, <2>2 DEF Admit, Raise, ScheduleOp, AllocateOp, TakePages, bmVars, seqVars
  <2>4. ~MayAllocate'
    BY <1>10 DEF Admit, Raise, Break, Continue, MayAllocate
  <2>5. CASE UNCHANGED blockTable
    BY <2>4, <2>5, SameTables, OwnersShrink
  <2>6. CASE ~Resident(s) /\ \E x : blockTable' = [blockTable EXCEPT ![s] = x]
    <3>1. MayAllocate
      BY <2>1, <2>2, <2>6 DEF MayAllocate
    <3>2. Owners' \subseteq Owners \cup {s}
      BY <2>6, OneTable
    <3> QED
      BY <2>4, <3>1, <3>2, OwnerAdded
  <2> QED
    BY <2>3, <2>5, <2>6
<1> QED
  BY <1>1, <1>2, <1>3, <1>4, <1>5, <1>6, <1>7, <1>8, <1>9, <1>10 DEF PrefillStep

\* The decode loop serves and preempts requests that own pages.
LEMMA DecodeResidents ==
    ASSUME SInv, ResidentInv, DecodeStep
    PROVE  ResidentInv'
<1>1. /\ pc \in Decoding /\ Scheduled \subseteq Seqs /\ Range(running) \subseteq Seqs
      /\ ~MayAllocate'
  <2>1. pc \in Decoding /\ pc' \in {"append", "decode", "run", "waitAny", "prefill", "error"}
    BY DEF DecodeStep, SelectDecode, AppendPressure, Append_, DecodeEnd, Enter, Decoding
  <2> QED
    BY <2>1, LocalTypes DEF MayAllocate, SInv, SchedInv, CoreInv
<1>2. ASSUME NEW s \in Seqs, s \in Range(running) \/ (pc = "append" /\ s = loop.cur)
      PROVE  Resident(s)
  <2>1. s \notin Scheduled /\ (s \in Range(running) \/ Popped(s))
    BY <1>1, <1>2 DEF SInv, SchedInv, CoreInv, QueueInv, QueuedAt, Popped
  <2> QED
    BY <1>1, <2>1, RunningReady DEF SInv, DecodeReady, Resident
<1>3. ASSUME NEW s \in Seqs, Resident(s), NEW x, blockTable' = [blockTable EXCEPT ![s] = x]
      PROVE  ResidentInv'
  <2>1. Owners' \subseteq Owners
    BY <1>3, OneTable
  <2> QED
    BY <1>1, <2>1, OwnersShrink
<1>4. CASE UNCHANGED blockTable
  BY <1>1, <1>4, SameTables, OwnersShrink
<1>5. CASE SelectDecode
  <2>1. PICK s \in SelectFirst(running, Range(running)) :
           UNCHANGED bmVars \/ \E keep : CompressOp(s, keep)
    BY <1>5 DEF SelectDecode
  <2>2. s \in Range(running) /\ s \in Seqs
    BY <1>1 DEF SelectFirst, Range
  <2>3. UNCHANGED blockTable \/ \E x : blockTable' = [blockTable EXCEPT ![s] = x]
    BY <2>1 DEF bmVars, seqVars, CompressOp
  <2> QED
    BY <1>2, <1>3, <1>4, <2>2, <2>3
<1>6. CASE AppendPressure
  <2>1. pc = "append"
    BY <1>6 DEF AppendPressure
  <2>2. PICK v \in Seqs : Preempt(v) /\ (v \in Range(running) \/ v = loop.cur)
    <3>1. loop.cur \in Seqs
      BY <2>1 DEF SInv, SchedInv, CurInv
    <3>2. CASE running # <<>>
      <4>1. SelectVictim(running) \subseteq Range(running)
        <5>1. running \in Seq(Seqs)
          BY DEF SInv, SchedInv, CoreInv, QueueTyped
        <5>2. Last(running) \in Range(running)
          <6>1. Len(running) \in 1..Len(running) /\ DOMAIN running = 1..Len(running)
            BY <3>2, <5>1, EmptySeq, LenProperties
          <6> QED
            BY <6>1 DEF Last, Range
        <5> QED
          BY <5>2 DEF SelectVictim
      <4>2. PICK v \in SelectVictim(running) : Preempt(v)
        BY <1>6, <3>2 DEF AppendPressure
      <4> QED
        BY <1>1, <4>1, <4>2
    <3>3. CASE running = <<>>
      BY <1>6, <3>1, <3>3 DEF AppendPressure
    <3> QED
      BY <3>2, <3>3
  <2>3. \E x : blockTable' = [blockTable EXCEPT ![v] = x]
    BY <2>2 DEF Preempt, DeallocateOp, ReleaseAll, ReclaimSuffixOp
  <2> QED
    BY <1>2, <1>3, <2>1, <2>2, <2>3
<1>7. CASE Append_
  <2>1. PICK s \in Seqs : s = loop.cur /\ pc = "append"
    BY <1>7 DEF Append_, SInv, SchedInv, CurInv
  <2>2. UNCHANGED blockTable \/ \E x : blockTable' = [blockTable EXCEPT ![s] = x]
    BY <1>7, <2>1 DEF Append_, MayAppendOp, TakePages
  <2> QED
    BY <1>2, <1>3, <1>4, <2>1, <2>2
<1>8. CASE DecodeEnd
  <2>1. UNCHANGED blockTable
    BY <1>8 DEF DecodeEnd, bmVars, seqVars
  <2> QED
    BY <1>4, <2>1
<1> QED
  BY <1>5, <1>6, <1>7, <1>8 DEF DecodeStep

LEMMA StepResidents ==
    ASSUME SInv, SInv', ResidentInv, [Next]_vars
    PROVE  ResidentInv'
<1>1. CASE PrefillStep
  BY <1>1, PrefillResidents
<1>2. CASE DecodeStep
  BY <1>2, DecodeResidents
<1>3. CASE StartStep \/ RunModel \/ PostprocessOne \/ EndStep \/ FailEnd \/ RunRaises
  <2>1. UNCHANGED blockTable /\ pc' \in {"step", "post", "finish", "idle", "failActive"}
    BY <1>3 DEF StartStep, RunModel, RunOp, PostprocessOne, PostprocessOp, EndStep, FailEnd, RunRaises,
                bmVars, seqVars
  <2> QED
    BY <2>1, SameTables, OwnersShrink DEF MayAllocate
<1>4. CASE \E s \in Seqs : Add(s) \/ CompleteRestore(s)
  <2>1. UNCHANGED blockTable /\ pc' \in {"step", "idle"}
    BY <1>4 DEF Add, CompleteRestore, CommitRestoredPrefixOp, bmVars, seqVars
  <2> QED
    BY <2>1, SameTables, OwnersShrink DEF MayAllocate
<1>5. CASE Finish \/ \E s \in Seqs : FailActive(s) \/ CancelIdle(s) \/ FailRestore(s)
  <2>1. /\ pc' \in {"post", "failActive", "idle", "step"}
        /\ \E s \in Seqs : blockTable' = [blockTable EXCEPT ![s] = <<>>]
    BY <1>5 DEF Finish, FailActive, CancelIdle, CancelRequest, CancelOp, FailRestore, DeallocateOp,
                ReleaseAll, SInv, SchedInv, CurInv
  <2>2. Owners' \subseteq Owners
    BY <2>1, OneTable
  <2> QED
    BY <2>1, <2>2, OwnersShrink DEF MayAllocate
<1>6. CASE UNCHANGED vars
  <2>1. UNCHANGED <<blockTable, pc, loop>>
    BY <1>6 DEF vars, bmVars, seqVars
  <2>2. MayAllocate' <=> MayAllocate
    BY <2>1 DEF MayAllocate, Resident
  <2> QED
    BY <2>1, <2>2, SameTables, OwnersShrink
<1> QED
  BY <1>1, <1>2, <1>3, <1>4, <1>5, <1>6 DEF Next, Engine, RunStep, Transfers, Client, Quiet

\* Between engine steps at most max_num_active_seqs requests run, are restored
\* or retain pages, however admissions, restores, evictions, preemptions and
\* failures of a restore follow each other.
THEOREM ResidentsWithinLimit == Spec => []ResidentLimit
<1>1. Init => ResidentInv
  <2>1. SUFFICES ASSUME Init PROVE ResidentInv
    OBVIOUS
  <2>2. Owners = {} /\ ~MayAllocate
    BY <2>1 DEF Init, BMInit, Owners, Resident, MayAllocate
  <2> QED
    BY <2>2, FS_EmptySet, LimitsAssumption DEF ResidentInv
<1>2. SInv /\ SInv' /\ ResidentInv /\ [Next]_vars => ResidentInv'
  BY StepResidents
<1>3. SInv /\ ResidentInv => ResidentLimit
  <2>1. SUFFICES ASSUME SInv, ResidentInv, MaxActive > 0, pc = "idle" PROVE ResidentCount <= MaxActive
    BY DEF ResidentLimit
  <2>2. PICK a \in Nat : a = Cardinality(Owners)
    BY OwnersFinite
  <2>3. ResidentCount <= a /\ a <= MaxActive /\ ResidentCount \in Nat
    BY <2>1, <2>2, CountedOwn, CountedSets DEF ResidentInv, ResidentCount
  <2> QED
    BY <2>2, <2>3, LimitsAssumption
<1> QED
  BY <1>1, <1>2, <1>3, SchedulerInvariance, PTL DEF Spec
=============================================================================
