------------------------ MODULE TransferCoordinator ------------------------
(***************************************************************************)
(* AsyncKVTransferCoordinator (nanovllm/engine/transfer_coordinator.py):   *)
(* one asyncio loop, any number of callers, one entry per object key.      *)
(*                                                                         *)
(* No lock body awaits, so each is one step, and so is the code between    *)
(* two awaits.  Every operation that reaches the backend gets the entry's  *)
(* next generation and is chained behind io_tail, which is always the      *)
(* operation of the generation before: a task is its key and generation.   *)
(* The backend call runs in a worker thread between "queued" and "io".     *)
(***************************************************************************)
EXTENDS Integers, Sequences, FiniteSets, Functions

CONSTANTS
    Keys,     \* object keys
    Values,   \* payloads
    None,     \* no payload
    Callers   \* calls of get, put and evict

ASSUME NoneAssumption == None \notin Values
ASSUME CallersAssumption == IsFiniteSet(Callers)

VARIABLES
    state,       \* _Entry.state
    generation,  \* _Entry.generation
    payload,     \* _Entry.payload
    task,        \* _Entry.task: generation of the current operation, 0 for None
    waiters,     \* _Entry.waiters
    tasks,       \* tasks[k][g]: the asyncio task of generation g
    backend,     \* what the storage backend holds under each key
    call,        \* the calls; ghosts: the values their key held meanwhile
                 \* (seen), and whether the answer was one of them (held)
    closed,      \* _closed
    closing      \* progress of close(): "no", "waiting", "closing", "yes"

entryVars == <<state, generation, payload, task, waiters>>
vars == <<entryVars, tasks, backend, call, closed, closing>>

MaybeValue == Values \cup {None}
InFlight == {"fetching", "writing", "evicting"}

Init ==
    /\ state = [k \in Keys |-> "absent"]
    /\ generation = [k \in Keys |-> 0]
    /\ payload = [k \in Keys |-> None]
    /\ task = [k \in Keys |-> 0]
    /\ waiters = [k \in Keys |-> 0]
    /\ tasks = [k \in Keys |-> <<>>]
    /\ backend \in [Keys -> MaybeValue]
    /\ call = [c \in Callers |-> [pc |-> "ready"]]
    /\ closed = FALSE
    /\ closing = "no"

---------------------------------------------------------------------------
(* Callers *)

Raises(c) == call' = [call EXCEPT ![c] = [pc |-> "returned", outcome |-> "raised",
                                          held |-> TRUE]]

\* The call ends with what it claims of the key, one of seen if it is true.
Returns(c, claim, seen) ==
    call' = [call EXCEPT ![c] = [pc |-> "returned", outcome |-> "ok",
                                 held |-> claim \in seen]]

\* get answers None for a miss and for a task that was superseded.
Answers(c, result, seen) ==
    Returns(c, result, IF result = None THEN {None} ELSE seen)

Awaits(c, op, k, g, joined, retry, seen) ==
    call' = [call EXCEPT ![c] = [pc |-> "awaiting", op |-> op, key |-> k,
                                 gen |-> g, joined |-> joined, retry |-> retry,
                                 seen |-> seen]]

\* Slip: the new operation is not recorded in the entry.
LaunchUntracked(k, st, kind, value) ==
    /\ generation' = [generation EXCEPT ![k] = @ + 1]
    /\ state' = [state EXCEPT ![k] = st]
    /\ payload' = [payload EXCEPT ![k] = None]
    /\ tasks' = [tasks EXCEPT ![k] = Append(@,
          [kind |-> kind, value |-> value, stage |-> "queued", ok |-> FALSE,
           result |-> None])]
    /\ UNCHANGED task

\* A new operation on k supersedes whatever is in flight.
Launch(k, st, kind, value) ==
    /\ generation' = [generation EXCEPT ![k] = @ + 1]
    /\ state' = [state EXCEPT ![k] = st]
    /\ payload' = [payload EXCEPT ![k] = None]
    /\ tasks' = [tasks EXCEPT ![k] = Append(@,
          [kind |-> kind, value |-> value, stage |-> "queued", ok |-> FALSE,
           result |-> None])]
    /\ task' = [task EXCEPT ![k] = generation[k] + 1]

\* One turn of get's loop, under the lock, with w waiters on the entry.
GetLocked(c, k, w, seen) ==
    \/ /\ state[k] = "resident"
       /\ Answers(c, payload[k], seen)
       /\ waiters' = [waiters EXCEPT ![k] = w]
       /\ UNCHANGED <<state, generation, payload, task, tasks>>
    \/ /\ state[k] \in InFlight
       /\ IF task[k] = 0
          THEN /\ Raises(c)
               /\ waiters' = [waiters EXCEPT ![k] = w]
          ELSE /\ Awaits(c, "get", k, task[k], TRUE, state[k] = "evicting", seen)
               /\ waiters' = [waiters EXCEPT ![k] = w + 1]
       /\ UNCHANGED <<state, generation, payload, task, tasks>>
    \/ /\ state[k] \in {"absent", "failed"}
       /\ Launch(k, "fetching", "fetch", None)
       /\ Awaits(c, "get", k, generation[k] + 1, FALSE, FALSE, seen)
       /\ waiters' = [waiters EXCEPT ![k] = w]

Begin(c) ==
    /\ call[c].pc = "ready"
    /\ UNCHANGED <<backend, closed, closing>>

Rejected(c) == closed /\ Raises(c)
                      /\ UNCHANGED <<entryVars, tasks>>

Get(c, k) ==
    /\ Begin(c)
    /\ Rejected(c) \/ (~closed /\ GetLocked(c, k, waiters[k], {backend[k]}))

Put(c, k, v) ==
    /\ Begin(c)
    /\ \/ Rejected(c)
       \/ /\ ~closed
          /\ Launch(k, "writing", "put", v)
          /\ Awaits(c, "put", k, generation[k] + 1, FALSE, FALSE, {backend[k]})
          /\ UNCHANGED waiters

Evict(c, k) ==
    /\ Begin(c)
    /\ \/ Rejected(c)
       \/ /\ ~closed
          /\ Launch(k, "evicting", "remove", None)
          /\ Awaits(c, "evict", k, generation[k] + 1, FALSE, FALSE, {backend[k]})
          /\ UNCHANGED waiters

\* Slips: every caller leaves, or nobody does.
LeftByAll(c) == waiters[call[c].key] - 1
LeftByNone(c) == waiters[call[c].key]

\* The finally block: a caller that joined another's task leaves it.
Left(c) == LET w == waiters[call[c].key]
           IN  IF call[c].joined /\ w > 0 THEN w - 1 ELSE w

Leave(c) == waiters' = [waiters EXCEPT ![call[c].key] = Left(c)]

\* What the task t leaves its caller: the exception or the result.
Deliver(c, t) ==
    \/ ~t.ok /\ Raises(c)
    \/ t.ok /\ call[c].op = "get"   /\ Answers(c, t.result, call[c].seen)
    \/ t.ok /\ call[c].op = "put"   /\ Returns(c, t.value, call[c].seen)
    \/ t.ok /\ call[c].op = "evict" /\ Returns(c, None, call[c].seen)

\* The awaited task is over.  _fetch and _put answer None when their generation
\* was superseded.  A get that waited for an eviction takes another turn,
\* without _ensure_open.
Wake(c) ==
    LET k == call[c].key
        t == tasks[k][call[c].gen]
    IN  /\ call[c].pc = "awaiting"
        /\ t.stage = "done"
        /\ \/ /\ t.ok /\ call[c].retry
              /\ GetLocked(c, k, Left(c), call[c].seen)
           \/ /\ ~t.ok \/ ~call[c].retry
              /\ Leave(c)
              /\ Deliver(c, t)
              /\ UNCHANGED <<state, generation, payload, task, tasks>>
        /\ UNCHANGED <<backend, closed, closing>>

\* The caller is cancelled while it waits; shield protects the shared task.
CancelWaiter(c) ==
    /\ call[c].pc = "awaiting"
    /\ Leave(c)
    /\ Raises(c)
    /\ UNCHANGED <<state, generation, payload, task, tasks, backend, closed,
                   closing>>

---------------------------------------------------------------------------
(* Tasks *)

\* Slip: tasks are not chained behind each other.
TurnAlways(k, g) == TRUE

\* Nothing before the task of generation g is unfinished.
Turn(k, g) == g > 1 => tasks[k][g - 1].stage = "done"

Stored(t, old) == CASE t.kind = "put"    -> t.value
                    [] t.kind = "remove" -> None
                    [] OTHER             -> old

\* The backend call.  One that raises may or may not have taken effect; a
\* closed backend always raises.
BackendIO(k, g, ok, effect) ==
    LET t == tasks[k][g]
    IN  /\ g \in DOMAIN tasks[k] /\ t.stage = "queued" /\ Turn(k, g)
        /\ ok => effect
        /\ closing = "yes" => ~effect
        /\ backend' = [backend EXCEPT ![k] = IF effect THEN Stored(t, @) ELSE @]
        /\ tasks' = [tasks EXCEPT ![k][g] =
              [t EXCEPT !.stage = "io", !.ok = ok,
                        !.value = IF t.kind = "fetch" THEN backend[k] ELSE @]]
        /\ call' = [c \in Callers |->
              IF call[c].pc = "awaiting" /\ call[c].key = k
              THEN [call[c] EXCEPT !.seen = @ \cup {backend'[k]}] ELSE call[c]]
        /\ UNCHANGED <<entryVars, closed, closing>>

DoneState(t) ==
    IF ~t.ok THEN "failed"
    ELSE IF t.kind = "remove" \/ t.value = None THEN "absent" ELSE "resident"

\* Slip: a superseded task publishes its result.
FinishUnchecked(k, g) ==
    LET t == tasks[k][g]
    IN  /\ g \in DOMAIN tasks[k] /\ t.stage = "io"
        /\ state' = [state EXCEPT ![k] = DoneState(t)]
        /\ payload' = [payload EXCEPT ![k] = IF t.ok THEN t.value ELSE None]
        /\ task' = [task EXCEPT ![k] = 0]
        /\ tasks' = [tasks EXCEPT ![k][g] =
              [t EXCEPT !.stage = "done", !.result = t.value]]
        /\ UNCHANGED <<generation, waiters, backend, call, closed, closing>>

\* Slip: the task ends without settling its entry.
FinishKeepsEntry(k, g) ==
    LET t == tasks[k][g]
    IN  /\ g \in DOMAIN tasks[k] /\ t.stage = "io"
        /\ tasks' = [tasks EXCEPT ![k][g] = [t EXCEPT !.stage = "done"]]
        /\ UNCHANGED <<entryVars, backend, call, closed, closing>>

\* _finish_success and _finish_failure: only the current generation publishes.
TaskFinish(k, g) ==
    LET t == tasks[k][g]
        current == generation[k] = g
    IN  /\ g \in DOMAIN tasks[k] /\ t.stage = "io"
        /\ IF current
           THEN /\ state' = [state EXCEPT ![k] = DoneState(t)]
                /\ payload' = [payload EXCEPT ![k] =
                      IF t.ok THEN t.value ELSE None]
                /\ task' = [task EXCEPT ![k] = 0]
           ELSE UNCHANGED <<state, payload, task>>
        /\ tasks' = [tasks EXCEPT ![k][g] =
              [t EXCEPT !.stage = "done",
                        !.result = IF current /\ t.ok THEN t.value ELSE None]]
        /\ UNCHANGED <<generation, waiters, backend, call, closed, closing>>

---------------------------------------------------------------------------
(* close *)

Idle == \A k \in Keys : \A g \in DOMAIN tasks[k] : tasks[k][g].stage = "done"

CloseBegin ==
    /\ ~closed
    /\ closed' = TRUE
    /\ closing' = "waiting"
    /\ UNCHANGED <<entryVars, tasks, backend, call>>

\* wait_idle saw every io_tail done.
CloseIdle ==
    /\ closing = "waiting"
    /\ \A k \in Keys : generation[k] > 0 => tasks[k][generation[k]].stage = "done"
    /\ closing' = "closing"
    /\ UNCHANGED <<entryVars, tasks, backend, call, closed>>

CloseBackend ==
    /\ closing = "closing"
    /\ closing' = "yes"
    /\ UNCHANGED <<entryVars, tasks, backend, call, closed>>

Quiet == closing = "yes" /\ Idle
         /\ (\A c \in Callers : call[c].pc = "returned") /\ UNCHANGED vars

---------------------------------------------------------------------------
Call == \E c \in Callers, k \in Keys :
            Get(c, k) \/ Evict(c, k) \/ \E v \in Values : Put(c, k, v)

Resume == \E c \in Callers : Wake(c)

Task == \E k \in Keys : \E g \in 1..Len(tasks[k]) :
            \/ TaskFinish(k, g)
            \/ \E ok, effect \in BOOLEAN : BackendIO(k, g, ok, effect)

Cancelled == \E c \in Callers : CancelWaiter(c)

Close == CloseBegin \/ CloseIdle \/ CloseBackend

Next == Call \/ Resume \/ Task \/ Cancelled \/ Close \/ Quiet

Spec == Init /\ [][Next]_vars

\* The event loop runs what is ready and a backend call eventually returns.
FairSpec == Spec /\ WF_vars(Task) /\ WF_vars(Resume)

---------------------------------------------------------------------------
(* Properties *)

TaskSet == [kind : {"fetch", "put", "remove"}, value : MaybeValue,
            stage : {"queued", "io", "done"}, ok : BOOLEAN, result : MaybeValue]

CallSet ==
    [pc : {"ready"}]
    \cup [pc : {"awaiting"}, op : {"get", "put", "evict"}, key : Keys, gen : Nat,
          joined : BOOLEAN, retry : BOOLEAN, seen : SUBSET MaybeValue]
    \cup [pc : {"returned"}, outcome : {"ok", "raised"}, held : BOOLEAN]

\* The entries, the tasks, the backend and the calls keep their types.
TypeOK ==
    /\ state \in [Keys -> {"absent", "fetching", "resident", "writing",
                           "evicting", "failed"}]
    /\ generation \in [Keys -> Nat]
    /\ payload \in [Keys -> MaybeValue]
    /\ task \in [Keys -> Nat]
    /\ waiters \in [Keys -> Nat]
    /\ tasks \in [Keys -> Seq(TaskSet)]
    /\ backend \in [Keys -> MaybeValue]
    /\ call \in [Callers -> CallSet]
    /\ closed \in BOOLEAN
    /\ closing \in {"no", "waiting", "closing", "yes"}

\* A key in an in-flight state has an unfinished current operation, so a get
\* that joins it is always woken and never meets "missing its I/O task"; a
\* settled key has none.
InFlightHasTask ==
    \A k \in Keys :
        IF state[k] \in InFlight
        THEN /\ task[k] = generation[k] /\ task[k] \in DOMAIN tasks[k]
             /\ tasks[k][task[k]].stage # "done"
        ELSE task[k] = 0

\* What the coordinator serves without I/O is what the backend holds, and what
\* it reports absent the backend does not hold: no superseded fetch, write or
\* eviction, in whatever order it ends, leaves its mark on a settled entry.
SettledAgreesWithBackend ==
    \A k \in Keys :
        /\ state[k] = "resident" => payload[k] # None /\ backend[k] = payload[k]
        /\ state[k] = "absent" /\ generation[k] > 0 => backend[k] = None

\* A payload that get answers is one the key really held during the call; when
\* put returns, the key held its value, and when evict returns, nothing.
AnswersWereHeld ==
    \A c \in Callers : call[c].pc = "returned" => call[c].held

\* waiters counts exactly the callers sharing another call's task, also when
\* some of them are cancelled.
WaitersCounted ==
    \A k \in Keys :
        waiters[k] = Cardinality({c \in Callers :
            /\ call[c].pc = "awaiting"
            /\ call[c].key = k /\ call[c].joined})

\* Whatever is cancelled, superseded or failed around it, a call ends: a caller
\* never calls twice here, so a time when nobody waits is one when all returned.
EveryCallReturns ==
    (\E c \in Callers : call[c].pc = "awaiting")
        ~> (\A c \in Callers : call[c].pc # "awaiting")

\* close() waits for outstanding I/O and rejects new work: once the backend is
\* closed no operation is left or started.
ClosedMeansIdle == closing = "yes" => Idle
=============================================================================
