--------------------- MODULE TransferCoordinatorProofs ---------------------
(***************************************************************************)
(* Proofs about the transfer coordinator, for any number of keys, payloads *)
(* and callers.  The inductive invariant says how the chain of operations  *)
(* of a key stands to its entry and to the backend.                        *)
(***************************************************************************)
EXTENDS TransferCoordinator, FiniteSetTheorems, TLAPS

\* generation counts the operations started on a key.
GenerationCounts == \A k \in Keys : generation[k] = Len(tasks[k])

\* A task's payload fits its kind.
ValueFitsKind ==
    \A k \in Keys : \A g \in 1..Len(tasks[k]) :
        /\ tasks[k][g].kind = "put" => tasks[k][g].value # None
        /\ tasks[k][g].kind = "remove" => tasks[k][g].value = None
        /\ tasks[k][g].result \in {None, tasks[k][g].value}
        /\ tasks[k][g].stage # "done" => tasks[k][g].result = None

\* io_tail chains the operations of a key: one begins when all before are done.
Chained ==
    \A k \in Keys : \A g \in 1..Len(tasks[k]) :
        tasks[k][g].stage # "queued" =>
            \A h \in 1..(g - 1) : tasks[k][h].stage = "done"

\* A key that is not in flight is untouched, or its last operation is done.
SettledIsDone ==
    \A k \in Keys :
        state[k] \notin InFlight =>
            IF Len(tasks[k]) = 0 THEN state[k] = "absent"
            ELSE tasks[k][Len(tasks[k])].stage = "done"

\* Between its I/O and its publication the last operation of a key agrees with
\* the backend.
LastIOAgrees ==
    \A k \in Keys : Len(tasks[k]) > 0 =>
        LET t == tasks[k][Len(tasks[k])]
        IN  t.stage = "io" /\ t.ok => t.value = backend[k]

\* A waiting call has seen what its key holds, and what the operation it waits
\* for stored or fetched.
WaiterSees(c) ==
    LET k == call[c].key
        t == tasks[k][call[c].gen]
    IN  /\ call[c].gen \in 1..Len(tasks[k])
        /\ backend[k] \in call[c].seen
        /\ call[c].op = "evict" => t.kind = "remove"
        /\ call[c].retry => call[c].op = "get"
        /\ t.stage # "queued" /\ t.ok => t.value \in call[c].seen

WaitersSee == \A c \in Callers : call[c].pc = "awaiting" => WaiterSees(c)

EntryInv == /\ GenerationCounts
            /\ InFlightHasTask
            /\ ValueFitsKind
            /\ Chained
            /\ SettledIsDone
            /\ LastIOAgrees
            /\ SettledAgreesWithBackend

CallInv == WaitersSee /\ AnswersWereHeld

IndInv == TypeOK /\ EntryInv /\ CallInv

---------------------------------------------------------------------------
(* Types *)

\* Starting an operation keeps the entries and the task lists well typed.
LEMMA LaunchType ==
    ASSUME TypeOK, NEW k \in Keys, NEW st \in InFlight,
           NEW kind \in {"fetch", "put", "remove"}, NEW value \in MaybeValue,
           Launch(k, st, kind, value)
    PROVE  /\ state' \in [Keys -> {"absent", "fetching", "resident", "writing",
                                   "evicting", "failed"}]
           /\ generation' \in [Keys -> Nat]
           /\ payload' \in [Keys -> MaybeValue]
           /\ task' \in [Keys -> Nat]
           /\ tasks' \in [Keys -> Seq(TaskSet)]
<1> DEFINE new == [kind |-> kind, value |-> value, stage |-> "queued", ok |-> FALSE,
                   result |-> None]
<1>1. new \in TaskSet
  BY DEF TaskSet, MaybeValue
<1>2. Append(tasks[k], new) \in Seq(TaskSet)
  BY <1>1 DEF TypeOK
<1>3. tasks' \in [Keys -> Seq(TaskSet)]
  BY <1>2 DEF TypeOK, Launch
<1> QED
  BY <1>3 DEF TypeOK, Launch, InFlight, MaybeValue

\* A call that begins to wait is a well-typed call record.
LEMMA AwaitsType ==
    ASSUME TypeOK, NEW c \in Callers, NEW op \in {"get", "put", "evict"},
           NEW k \in Keys, NEW g \in Nat, NEW joined \in BOOLEAN,
           NEW retry \in BOOLEAN, NEW seen \in SUBSET MaybeValue,
           Awaits(c, op, k, g, joined, retry, seen)
    PROVE  call' \in [Callers -> CallSet]
<1> DEFINE new == [pc |-> "awaiting", op |-> op, key |-> k, gen |-> g,
                   joined |-> joined, retry |-> retry, seen |-> seen]
<1>1. new \in CallSet
  BY DEF CallSet
<1> QED
  BY <1>1 DEF Awaits, TypeOK

\* A call that returns, with an answer or an exception, is a well-typed record.
LEMMA ReturnsType ==
    ASSUME TypeOK, NEW c \in Callers, NEW claim, NEW seen,
           Raises(c) \/ Returns(c, claim, seen) \/ Answers(c, claim, seen)
    PROVE  call' \in [Callers -> CallSet]
<1> DEFINE ret(o, h) == [pc |-> "returned", outcome |-> o, held |-> h]
<1>1. \A o \in {"ok", "raised"}, h \in BOOLEAN : ret(o, h) \in CallSet
  BY DEF CallSet
<1>2. CASE Raises(c)
  BY <1>1, <1>2 DEF Raises, TypeOK
<1>3. ASSUME NEW S, Returns(c, claim, S) PROVE call' \in [Callers -> CallSet]
  <2>1. (claim \in S) \in BOOLEAN
    OBVIOUS
  <2>2. ret("ok", claim \in S) \in CallSet
    BY <1>1, <2>1
  <2> QED
    BY <1>3, <2>2 DEF Returns, TypeOK
<1> QED
  BY <1>2, <1>3 DEF Answers

\* One turn of get's loop keeps every type.
LEMMA GetLockedType ==
    ASSUME TypeOK, NEW c \in Callers, NEW k \in Keys, NEW w \in Nat,
           NEW seen \in SUBSET MaybeValue, GetLocked(c, k, w, seen),
           UNCHANGED <<backend, closed, closing>>
    PROVE  TypeOK'
<1>1. waiters' \in [Keys -> Nat]
  <2>1. \E x \in Nat : waiters' = [waiters EXCEPT ![k] = x]
    <3>1. w + 1 \in Nat
      OBVIOUS
    <3> QED
      BY <3>1, Zenon DEF GetLocked
  <2> QED
    BY <2>1 DEF TypeOK
<1>2. CASE state[k] = "resident"
  BY <1>1, <1>2, ReturnsType DEF GetLocked, TypeOK, InFlight
<1>3. CASE state[k] \in InFlight
  <2>1. (state[k] = "evicting") \in BOOLEAN /\ task[k] \in Nat
    BY DEF TypeOK
  <2>2. call' \in [Callers -> CallSet]
    BY <1>3, <2>1, ReturnsType, AwaitsType DEF GetLocked, InFlight
  <2> QED
    BY <1>1, <1>3, <2>2 DEF GetLocked, TypeOK, InFlight
<1>4. CASE state[k] \in {"absent", "failed"}
  <2>1. /\ Launch(k, "fetching", "fetch", None)
        /\ Awaits(c, "get", k, generation[k] + 1, FALSE, FALSE, seen)
    BY <1>4 DEF GetLocked, InFlight
  <2>2. generation[k] + 1 \in Nat
    BY DEF TypeOK
  <2>3. call' \in [Callers -> CallSet]
    BY <2>1, <2>2, AwaitsType
  <2>4. "fetching" \in InFlight /\ None \in MaybeValue
    BY DEF InFlight, MaybeValue
  <2> QED
    BY <1>1, <2>1, <2>3, <2>4, LaunchType DEF TypeOK
<1> QED
  BY <1>2, <1>3, <1>4 DEF TypeOK, InFlight

\* The waiter count stays a natural number when a caller leaves.
LEMMA LeftType ==
    ASSUME TypeOK, NEW c \in Callers, call[c].pc = "awaiting"
    PROVE  call[c].key \in Keys /\ Left(c) \in Nat
           /\ call[c].seen \in SUBSET MaybeValue
<1>1. call[c] \in CallSet
  BY DEF TypeOK
<1>2. call[c].key \in Keys /\ call[c].seen \in SUBSET MaybeValue
  BY <1>1 DEF CallSet
<1>3. waiters[call[c].key] \in Nat
  BY <1>2 DEF TypeOK
<1> QED
  BY <1>2, <1>3 DEF Left

\* The initial state is well typed.
LEMMA TypeInit == Init => TypeOK
<1> SUFFICES ASSUME Init PROVE TypeOK
  OBVIOUS
<1>1. [pc |-> "ready"] \in CallSet
  BY DEF CallSet
<1>2. <<>> \in Seq(TaskSet)
  OBVIOUS
<1> QED
  BY <1>1, <1>2 DEF Init, TypeOK, MaybeValue

\* Starting get, put or evict keeps every type.
LEMMA TypeCall ==
    ASSUME TypeOK, NEW c \in Callers, NEW k \in Keys, NEW v \in MaybeValue,
           Get(c, k) \/ Evict(c, k) \/ Put(c, k, v)
    PROVE  TypeOK'
<1>1. backend[k] \in MaybeValue /\ waiters[k] \in Nat /\ generation[k] + 1 \in Nat
  BY DEF TypeOK
<1>2. {backend[k]} \in SUBSET MaybeValue
  BY <1>1
<1>3. CASE Rejected(c) /\ Begin(c)
  BY <1>3, ReturnsType DEF Rejected, Begin, TypeOK, entryVars
<1>4. CASE Get(c, k) /\ ~Rejected(c)
  BY <1>1, <1>2, <1>4, GetLockedType DEF Get, Begin
<1>5. CASE Put(c, k, v) /\ ~Rejected(c)
  <2>1. /\ Launch(k, "writing", "put", v)
        /\ Awaits(c, "put", k, generation[k] + 1, FALSE, FALSE, {backend[k]})
        /\ UNCHANGED <<waiters, backend, closed, closing>>
    BY <1>5 DEF Put, Begin
  <2>2. call' \in [Callers -> CallSet]
    BY <1>1, <1>2, <2>1, AwaitsType
  <2>3. "writing" \in InFlight
    BY DEF InFlight
  <2> QED
    BY <2>1, <2>2, <2>3, LaunchType DEF TypeOK
<1>6. CASE Evict(c, k) /\ ~Rejected(c)
  <2>1. /\ Launch(k, "evicting", "remove", None)
        /\ Awaits(c, "evict", k, generation[k] + 1, FALSE, FALSE, {backend[k]})
        /\ UNCHANGED <<waiters, backend, closed, closing>>
    BY <1>6 DEF Evict, Begin
  <2>2. call' \in [Callers -> CallSet]
    BY <1>1, <1>2, <2>1, AwaitsType
  <2>3. "evicting" \in InFlight /\ None \in MaybeValue
    BY DEF InFlight, MaybeValue
  <2> QED
    BY <2>1, <2>2, <2>3, LaunchType DEF TypeOK
<1> QED
  BY <1>3, <1>4, <1>5, <1>6 DEF Get, Put, Evict

\* Waking a caller keeps every type.
LEMMA TypeWake ==
    ASSUME TypeOK, NEW c \in Callers, Wake(c) \/ CancelWaiter(c)
    PROVE  TypeOK'
<1>1. call[c].pc = "awaiting"
  BY DEF Wake, CancelWaiter
<1>2. /\ call[c].key \in Keys /\ Left(c) \in Nat
      /\ call[c].seen \in SUBSET MaybeValue
  BY <1>1, LeftType
<1>3. CASE CancelWaiter(c)
  BY <1>2, <1>3, ReturnsType DEF CancelWaiter, Leave, TypeOK
<1>4. CASE Wake(c) /\ GetLocked(c, call[c].key, Left(c), call[c].seen)
  BY <1>2, <1>4, GetLockedType DEF Wake
<1>5. CASE Wake(c) /\ ~GetLocked(c, call[c].key, Left(c), call[c].seen)
  <2>1. /\ Leave(c)
        /\ UNCHANGED <<state, generation, payload, task, tasks>>
        /\ UNCHANGED <<backend, closed, closing>>
    BY <1>5, Zenon DEF Wake
  <2>2. \E claim, seen : Raises(c) \/ Returns(c, claim, seen) \/ Answers(c, claim, seen)
    <3> DEFINE t == tasks[call[c].key][call[c].gen]
    <3>1. Deliver(c, t)
      BY <1>5, Zenon DEF Wake
    <3> QED
      BY <3>1, Zenon DEF Deliver
  <2>3. call' \in [Callers -> CallSet]
    BY <2>2, ReturnsType
  <2> QED
    BY <1>2, <2>1, <2>3 DEF Leave, TypeOK
<1> QED
  BY <1>3, <1>4, <1>5

\* The backend call and the end of a task keep every type.
LEMMA TypeTask ==
    ASSUME TypeOK, NEW k \in Keys, NEW g \in 1..Len(tasks[k]),
           TaskFinish(k, g) \/ \E ok, effect \in BOOLEAN : BackendIO(k, g, ok, effect)
    PROVE  TypeOK'
<1> DEFINE t == tasks[k][g]
<1>1. t \in TaskSet /\ tasks[k] \in Seq(TaskSet)
  BY DEF TypeOK
<1>2. ASSUME NEW u \in TaskSet, tasks' = [tasks EXCEPT ![k][g] = u]
      PROVE  tasks' \in [Keys -> Seq(TaskSet)]
  <2>1. [tasks[k] EXCEPT ![g] = u] \in Seq(TaskSet)
    BY <1>1
  <2>2. tasks' = [tasks EXCEPT ![k] = [tasks[k] EXCEPT ![g] = u]]
    BY <1>2
  <2> QED
    BY <2>1, <2>2 DEF TypeOK
<1>3. CASE TaskFinish(k, g)
  <2> DEFINE u == [t EXCEPT !.stage = "done",
                            !.result = IF generation[k] = g /\ t.ok
                                       THEN t.value ELSE None]
  <2>1. u \in TaskSet
    BY <1>1 DEF TaskSet, MaybeValue
  <2>2. tasks' \in [Keys -> Seq(TaskSet)]
    BY <1>2, <1>3, <2>1 DEF TaskFinish
  <2>3. DoneState(t) \in {"absent", "resident", "failed"}
    BY DEF DoneState
  <2>4. (IF t.ok THEN t.value ELSE None) \in MaybeValue
    BY <1>1 DEF TaskSet, MaybeValue
  <2>5. /\ state' \in [Keys -> {"absent", "fetching", "resident", "writing",
                                "evicting", "failed"}]
        /\ payload' \in [Keys -> MaybeValue]
        /\ task' \in [Keys -> Nat]
    <3>1. CASE generation[k] = g
      <4>1. /\ state' = [state EXCEPT ![k] = DoneState(t)]
            /\ payload' = [payload EXCEPT ![k] = IF t.ok THEN t.value ELSE None]
            /\ task' = [task EXCEPT ![k] = 0]
        BY <1>3, <3>1, Zenon DEF TaskFinish
      <4>2. /\ state' \in [Keys -> {"absent", "fetching", "resident", "writing",
                                "evicting", "failed"}]
            /\ task' \in [Keys -> Nat]
        BY <2>3, <4>1 DEF TypeOK
      <4>3. payload' \in [Keys -> MaybeValue]
        BY <2>4, <4>1 DEF TypeOK
      <4> QED
        BY <4>2, <4>3
    <3>2. CASE generation[k] # g
      BY <1>3, <3>2 DEF TaskFinish, TypeOK
    <3> QED
      BY <3>1, <3>2
  <2> QED
    BY <1>3, <2>2, <2>5 DEF TaskFinish, TypeOK
<1>4. ASSUME NEW ok \in BOOLEAN, NEW effect \in BOOLEAN, BackendIO(k, g, ok, effect)
      PROVE  TypeOK'
  <2> DEFINE u == [t EXCEPT !.stage = "io", !.ok = ok,
                            !.value = IF t.kind = "fetch" THEN backend[k] ELSE @]
  <2>1. backend[k] \in MaybeValue /\ t.value \in MaybeValue
    BY <1>1 DEF TypeOK, TaskSet
  <2>2. u \in TaskSet
    BY <1>1, <2>1 DEF TaskSet
  <2>3. tasks' \in [Keys -> Seq(TaskSet)]
    BY <1>2, <1>4, <2>2 DEF BackendIO
  <2>4. (IF effect THEN Stored(t, backend[k]) ELSE backend[k]) \in MaybeValue
    BY <2>1 DEF Stored, MaybeValue
  <2>5. backend' \in [Keys -> MaybeValue]
    BY <1>4, <2>4 DEF BackendIO, TypeOK
  <2>6. ASSUME NEW c \in Callers, call[c].pc = "awaiting"
        PROVE  [call[c] EXCEPT !.seen = @ \cup {backend'[k]}] \in CallSet
    <3>1. /\ call[c] \in [pc : {"awaiting"}, op : {"get", "put", "evict"}, key : Keys,
                         gen : Nat, joined : BOOLEAN, retry : BOOLEAN,
                         seen : SUBSET MaybeValue]
          /\ backend'[k] \in MaybeValue
      BY <2>5, <2>6 DEF TypeOK, CallSet
    <3> QED
      BY <3>1 DEF CallSet
  <2>7. call' \in [Callers -> CallSet]
    BY <1>4, <2>6 DEF BackendIO, TypeOK
  <2> QED
    BY <1>4, <2>3, <2>5, <2>7 DEF BackendIO, TypeOK, entryVars
<1> QED
  BY <1>3, <1>4

\* Every step keeps every type.
LEMMA TypeNext == TypeOK /\ [Next]_vars => TypeOK'
<1> SUFFICES ASSUME TypeOK, [Next]_vars PROVE TypeOK'
  OBVIOUS
<1>1. CASE Call
  BY <1>1, TypeCall DEF Call, MaybeValue
<1>2. CASE Resume \/ Cancelled
  BY <1>2, TypeWake DEF Resume, Cancelled
<1>3. CASE Task
  BY <1>3, TypeTask DEF Task
<1>4. CASE Close
  BY <1>4 DEF Close, CloseBegin, CloseIdle, CloseBackend, TypeOK, entryVars
<1>5. CASE UNCHANGED vars
  BY <1>5 DEF TypeOK, vars, entryVars
<1> QED
  BY <1>1, <1>2, <1>3, <1>4, <1>5 DEF Next, Quiet

\* Every state the coordinator can reach is well typed.
THEOREM TypeCorrect == Spec => []TypeOK
BY TypeInit, TypeNext, PTL DEF Spec

---------------------------------------------------------------------------
(* Entries *)

\* Launch appends one queued task and leaves the other keys alone.
LEMMA LaunchTasks ==
    ASSUME TypeOK, NEW k \in Keys, NEW st, NEW kind, NEW value,
           Launch(k, st, kind, value)
    PROVE  /\ Len(tasks[k]) \in Nat
           /\ Len(tasks'[k]) = Len(tasks[k]) + 1
           /\ \A i \in 1..Len(tasks[k]) : tasks'[k][i] = tasks[k][i]
           /\ tasks'[k][Len(tasks[k]) + 1] =
                 [kind |-> kind, value |-> value, stage |-> "queued", ok |-> FALSE,
                  result |-> None]
           /\ state'[k] = st /\ payload'[k] = None
           /\ generation'[k] = generation[k] + 1 /\ task'[k] = generation[k] + 1
           /\ \A j \in Keys \ {k} :
                 /\ state'[j] = state[j] /\ payload'[j] = payload[j]
                 /\ generation'[j] = generation[j] /\ task'[j] = task[j]
                 /\ tasks'[j] = tasks[j]
<1> DEFINE new == [kind |-> kind, value |-> value, stage |-> "queued", ok |-> FALSE,
                   result |-> None]
<1>1. tasks[k] \in Seq(TaskSet)
  BY DEF TypeOK
<1>2. tasks'[k] = Append(tasks[k], new)
  BY DEF Launch, TypeOK
<1>3. /\ Len(tasks[k]) \in Nat
      /\ Len(tasks'[k]) = Len(tasks[k]) + 1
      /\ \A i \in 1..Len(tasks[k]) : tasks'[k][i] = tasks[k][i]
      /\ tasks'[k][Len(tasks[k]) + 1] = new
  <2> HIDE DEF new
  <2> QED
    BY <1>1, <1>2
<1> QED
  BY <1>3 DEF Launch, TypeOK

\* Starting an operation keeps the invariant of the entries: the new task is the
\* last of its key, queued, and the key is in flight.
LEMMA EntryLaunch ==
    ASSUME TypeOK, EntryInv, NEW k \in Keys, NEW st \in InFlight, NEW kind, NEW value,
           kind = "put" => value # None, kind = "remove" => value = None,
           Launch(k, st, kind, value), UNCHANGED backend
    PROVE  EntryInv'
<1> DEFINE n == Len(tasks[k])
<1>1. /\ n \in Nat
      /\ Len(tasks'[k]) = n + 1
      /\ \A i \in 1..n : tasks'[k][i] = tasks[k][i]
      /\ tasks'[k][n + 1].kind = kind /\ tasks'[k][n + 1].value = value
      /\ tasks'[k][n + 1].stage = "queued" /\ tasks'[k][n + 1].ok = FALSE
      /\ tasks'[k][n + 1].result = None
  <2>1. tasks'[k][n + 1] = [kind |-> kind, value |-> value, stage |-> "queued",
                            ok |-> FALSE, result |-> None]
    BY LaunchTasks
  <2>2. /\ n \in Nat
        /\ Len(tasks'[k]) = n + 1
        /\ \A i \in 1..n : tasks'[k][i] = tasks[k][i]
    BY LaunchTasks
  <2> QED
    BY <2>1, <2>2
<1>2. /\ state'[k] = st
      /\ generation'[k] = generation[k] + 1 /\ task'[k] = generation[k] + 1
  BY LaunchTasks
<1>3. \A j \in Keys \ {k} :
         /\ state'[j] = state[j] /\ payload'[j] = payload[j]
         /\ generation'[j] = generation[j] /\ task'[j] = task[j]
         /\ tasks'[j] = tasks[j]
  BY LaunchTasks
<1>4. generation[k] = n /\ generation \in [Keys -> Nat]
  BY DEF EntryInv, GenerationCounts, TypeOK
<1> HIDE DEF n
<1>5. GenerationCounts'
  BY <1>1, <1>2, <1>3, <1>4 DEF EntryInv, GenerationCounts
<1>6. InFlightHasTask'
  BY <1>1, <1>2, <1>3, <1>4 DEF EntryInv, InFlightHasTask, InFlight
<1>7. ValueFitsKind'
  <2> SUFFICES ASSUME NEW j \in Keys, NEW g \in 1..Len(tasks'[j])
               PROVE  /\ tasks'[j][g].kind = "put" => tasks'[j][g].value # None
                      /\ tasks'[j][g].kind = "remove" => tasks'[j][g].value = None
                      /\ tasks'[j][g].result \in {None, tasks'[j][g].value}
                      /\ tasks'[j][g].stage # "done" => tasks'[j][g].result = None
    BY DEF ValueFitsKind
  <2>1. CASE j # k
    BY <1>3, <2>1 DEF EntryInv, ValueFitsKind
  <2>2. CASE j = k /\ g \in 1..n
    BY <1>1, <2>2 DEF EntryInv, ValueFitsKind, n
  <2>3. CASE j = k /\ g = n + 1
    BY <1>1, <2>3
  <2> QED
    BY <1>1, <2>1, <2>2, <2>3
<1>8. Chained'
  <2> SUFFICES ASSUME NEW j \in Keys, NEW g \in 1..Len(tasks'[j]),
                      tasks'[j][g].stage # "queued", NEW h \in 1..(g - 1)
               PROVE  tasks'[j][h].stage = "done"
    BY DEF Chained
  <2>1. CASE j # k
    BY <1>3, <2>1 DEF EntryInv, Chained
  <2>2. CASE j = k
    <3>1. g \in 1..n /\ h \in 1..n
      BY <1>1, <2>2
    <3> QED
      BY <1>1, <2>2, <3>1 DEF EntryInv, Chained, n
  <2> QED
    BY <2>1, <2>2
<1>9. SettledIsDone'
  BY <1>2, <1>3 DEF EntryInv, SettledIsDone
<1>10. LastIOAgrees'
  <2> SUFFICES ASSUME NEW j \in Keys, Len(tasks'[j]) > 0,
                      tasks'[j][Len(tasks'[j])].stage = "io",
                      tasks'[j][Len(tasks'[j])].ok
               PROVE  tasks'[j][Len(tasks'[j])].value = backend'[j]
    BY DEF LastIOAgrees
  <2>1. j # k
    BY <1>1
  <2> QED
    BY <1>3, <2>1 DEF EntryInv, LastIOAgrees
<1>11. SettledAgreesWithBackend'
  BY <1>2, <1>3 DEF EntryInv, SettledAgreesWithBackend, InFlight
<1> QED
  BY <1>5, <1>6, <1>7, <1>8, <1>9, <1>10, <1>11 DEF EntryInv

\* Steps that touch no entry, task or stored value keep the entries' invariant.
LEMMA EntryUnchanged ==
    ASSUME EntryInv, UNCHANGED <<state, generation, payload, task, tasks, backend>>
    PROVE  EntryInv'
BY DEF EntryInv, GenerationCounts, InFlightHasTask, ValueFitsKind, Chained,
       SettledIsDone, LastIOAgrees, SettledAgreesWithBackend

\* A step of task g replaces that task and no other.
LEMMA UpdateTasks ==
    ASSUME TypeOK, NEW k \in Keys, NEW g \in 1..Len(tasks[k]), NEW u,
           tasks' = [tasks EXCEPT ![k][g] = u]
    PROVE  /\ Len(tasks[k]) \in Nat
           /\ Len(tasks'[k]) = Len(tasks[k]) /\ DOMAIN tasks'[k] = DOMAIN tasks[k]
           /\ tasks'[k][g] = u
           /\ \A i \in 1..Len(tasks[k]) : i # g => tasks'[k][i] = tasks[k][i]
           /\ \A j \in Keys \ {k} : tasks'[j] = tasks[j]
<1>1. tasks[k] \in Seq(TaskSet)
  BY DEF TypeOK
<1>2. tasks'[k] = [tasks[k] EXCEPT ![g] = u]
  BY DEF TypeOK
<1> QED
  BY <1>1, <1>2 DEF TypeOK

\* A backend call keeps the entries' invariant: it is the last of its key, or the
\* key is in flight and promises nothing.
LEMMA EntryIO ==
    ASSUME TypeOK, EntryInv, NEW k \in Keys, NEW g \in 1..Len(tasks[k]),
           NEW ok \in BOOLEAN, NEW effect \in BOOLEAN, BackendIO(k, g, ok, effect)
    PROVE  EntryInv'
<1> DEFINE t == tasks[k][g]
           n == Len(tasks[k])
           u == [t EXCEPT !.stage = "io", !.ok = ok,
                          !.value = IF t.kind = "fetch" THEN backend[k] ELSE @]
<1>1. /\ t.stage = "queued" /\ Turn(k, g) /\ (ok => effect)
      /\ tasks' = [tasks EXCEPT ![k][g] = u]
      /\ backend' = [backend EXCEPT ![k] = IF effect THEN Stored(t, @) ELSE @]
      /\ UNCHANGED entryVars
  BY DEF BackendIO
<1>2. /\ n \in Nat
      /\ Len(tasks'[k]) = n /\ DOMAIN tasks'[k] = DOMAIN tasks[k]
      /\ \A i \in 1..n : i # g => tasks'[k][i] = tasks[k][i]
      /\ \A j \in Keys \ {k} : tasks'[j] = tasks[j]
  BY <1>1, UpdateTasks
<1>3. t \in TaskSet
  BY DEF TypeOK
<1>4. tasks'[k][g] = u
  <2>1. tasks'[k] = [tasks[k] EXCEPT ![g] = u] /\ g \in DOMAIN tasks[k]
    BY <1>1 DEF TypeOK
  <2> HIDE DEF u
  <2> QED
    BY <2>1
<1>5. /\ tasks'[k][g].stage = "io" /\ tasks'[k][g].ok = ok
      /\ tasks'[k][g].kind = t.kind /\ tasks'[k][g].result = t.result
      /\ tasks'[k][g].value = IF t.kind = "fetch" THEN backend[k] ELSE t.value
  BY <1>3, <1>4 DEF TaskSet
<1>6. \A j \in Keys \ {k} : backend'[j] = backend[j]
  BY <1>1 DEF TypeOK
<1>7. backend'[k] = IF effect THEN Stored(t, backend[k]) ELSE backend[k]
  BY <1>1 DEF TypeOK
<1>8. /\ t.kind = "put" => t.value # None
      /\ t.kind = "remove" => t.value = None
      /\ t.result = None
  BY <1>1 DEF EntryInv, ValueFitsKind
<1>9. \A i \in 1..n : i > g => tasks[k][i].stage = "queued"
  BY <1>1 DEF EntryInv, Chained
<1>10. \A h \in 1..(g - 1) : tasks[k][h].stage = "done"
  <2>1. CASE g = 1
    BY <2>1
  <2>2. CASE g > 1
    <3>1. g - 1 \in 1..n /\ tasks[k][g - 1].stage = "done"
      BY <1>1, <1>2, <2>2 DEF Turn
    <3>2. \A h \in 1..((g - 1) - 1) : tasks[k][h].stage = "done"
      BY <3>1 DEF EntryInv, Chained
    <3> QED
      BY <3>1, <3>2
  <2> QED
    BY <2>1, <2>2
<1>11. state[k] \in InFlight
  <2>1. ASSUME tasks[k][n].stage = "done", n > 0 PROVE FALSE
    BY <1>1, <1>2, <1>9, <2>1
  <2> QED
    BY <1>2, <2>1 DEF EntryInv, SettledIsDone
<1> HIDE DEF n, t, u
<1>13. GenerationCounts'
  BY <1>1, <1>2 DEF EntryInv, GenerationCounts, entryVars, n
<1>14. InFlightHasTask'
  <2> SUFFICES ASSUME NEW j \in Keys
               PROVE  IF state'[j] \in InFlight
                      THEN /\ task'[j] = generation'[j]
                           /\ task'[j] \in DOMAIN tasks'[j]
                           /\ tasks'[j][task'[j]].stage # "done"
                      ELSE task'[j] = 0
    BY DEF InFlightHasTask
  <2>1. CASE j # k
    BY <1>1, <1>2, <2>1 DEF EntryInv, InFlightHasTask, entryVars
  <2>2. CASE j = k
    <3>1. /\ task[k] = generation[k] /\ task[k] \in 1..n
          /\ tasks[k][task[k]].stage # "done"
      <4>1. DOMAIN tasks[k] = 1..n
        BY DEF TypeOK, n
      <4> QED
        BY <1>11, <4>1 DEF EntryInv, InFlightHasTask
    <3>2. tasks'[k][task[k]].stage # "done"
      BY <1>2, <1>5, <3>1
    <3> QED
      BY <1>1, <1>2, <1>11, <2>2, <3>1, <3>2 DEF EntryInv, InFlightHasTask, entryVars
  <2> QED
    BY <2>1, <2>2
<1>15. ValueFitsKind'
  <2> SUFFICES ASSUME NEW j \in Keys, NEW i \in 1..Len(tasks'[j])
               PROVE  /\ tasks'[j][i].kind = "put" => tasks'[j][i].value # None
                      /\ tasks'[j][i].kind = "remove" => tasks'[j][i].value = None
                      /\ tasks'[j][i].result \in {None, tasks'[j][i].value}
                      /\ tasks'[j][i].stage # "done" => tasks'[j][i].result = None
    BY DEF ValueFitsKind
  <2>1. CASE j = k /\ i = g
    BY <1>5, <1>8, <2>1
  <2>2. CASE ~(j = k /\ i = g)
    BY <1>2, <2>2 DEF EntryInv, ValueFitsKind, n
  <2> QED
    BY <2>1, <2>2
<1>16. Chained'
  <2> SUFFICES ASSUME NEW j \in Keys, NEW i \in 1..Len(tasks'[j]),
                      tasks'[j][i].stage # "queued", NEW h \in 1..(i - 1)
               PROVE  tasks'[j][h].stage = "done"
    BY DEF Chained
  <2>1. CASE j # k
    BY <1>2, <2>1 DEF EntryInv, Chained
  <2>2. CASE j = k
    <3>1. i \in 1..n /\ h \in 1..n /\ g \in 1..n /\ n \in Nat
      BY <1>2, <2>2 DEF n
    <3>2. ~(i > g)
      BY <1>2, <1>9, <2>2, <3>1
    <3>3. CASE i = g
      BY <1>2, <1>10, <2>2, <3>1, <3>3
    <3>4. CASE i < g
      <4>1. tasks'[k][i] = tasks[k][i] /\ tasks'[k][h] = tasks[k][h]
        BY <1>2, <3>1, <3>4
      <4> QED
        BY <2>2, <3>1, <4>1 DEF EntryInv, Chained, n
    <3> QED
      BY <3>1, <3>2, <3>3, <3>4
  <2> QED
    BY <2>1, <2>2
<1>17. SettledIsDone'
  BY <1>1, <1>2, <1>11 DEF EntryInv, SettledIsDone, entryVars
<1>18. LastIOAgrees'
  <2> SUFFICES ASSUME NEW j \in Keys, Len(tasks'[j]) > 0,
                      tasks'[j][Len(tasks'[j])].stage = "io",
                      tasks'[j][Len(tasks'[j])].ok
               PROVE  tasks'[j][Len(tasks'[j])].value = backend'[j]
    BY DEF LastIOAgrees
  <2>1. CASE j # k
    BY <1>2, <1>6, <2>1 DEF EntryInv, LastIOAgrees
  <2>2. CASE j = k
    <3>1. n = g
      <4>1. n \in 1..n /\ g \in 1..n
        BY <1>2, <2>2 DEF n
      <4> QED
        BY <1>2, <1>9, <2>2, <4>1
    <3>2. ok /\ effect
      BY <1>1, <1>2, <1>5, <2>2, <3>1
    <3>3. backend'[k] = Stored(t, backend[k])
      BY <1>7, <3>2
    <3>4. t.kind \in {"fetch", "put", "remove"}
      BY <1>3 DEF TaskSet
    <3>5. tasks'[k][g].value = Stored(t, backend[k])
      BY <1>5, <1>8, <3>4 DEF Stored
    <3> QED
      BY <1>2, <2>2, <3>1, <3>3, <3>5
  <2> QED
    BY <2>1, <2>2
<1>19. SettledAgreesWithBackend'
  BY <1>1, <1>6, <1>11 DEF EntryInv, SettledAgreesWithBackend, entryVars, InFlight
<1> QED
  BY <1>13, <1>14, <1>15, <1>16, <1>17, <1>18, <1>19 DEF EntryInv

\* The end of a task keeps the entries' invariant: only the last operation of a
\* key settles it, with what the backend holds.
LEMMA EntryFinish ==
    ASSUME TypeOK, EntryInv, NEW k \in Keys, NEW g \in 1..Len(tasks[k]),
           TaskFinish(k, g)
    PROVE  EntryInv'
<1> DEFINE t == tasks[k][g]
           n == Len(tasks[k])
           u == [t EXCEPT !.stage = "done",
                          !.result = IF generation[k] = g /\ t.ok THEN t.value
                                                                  ELSE None]
<1>1. /\ t.stage = "io"
      /\ tasks' = [tasks EXCEPT ![k][g] = u]
      /\ UNCHANGED <<generation, backend>>
  BY DEF TaskFinish
<1>2. /\ n \in Nat
      /\ Len(tasks'[k]) = n /\ DOMAIN tasks'[k] = DOMAIN tasks[k]
      /\ \A i \in 1..n : i # g => tasks'[k][i] = tasks[k][i]
      /\ \A j \in Keys \ {k} : tasks'[j] = tasks[j]
  BY <1>1, UpdateTasks
<1>3. t \in TaskSet
  BY DEF TypeOK
<1>4. tasks'[k][g] = u
  <2>1. tasks'[k] = [tasks[k] EXCEPT ![g] = u] /\ g \in DOMAIN tasks[k]
    BY <1>1 DEF TypeOK
  <2> HIDE DEF u
  <2> QED
    BY <2>1
<1>5. /\ tasks'[k][g].stage = "done" /\ tasks'[k][g].ok = t.ok
      /\ tasks'[k][g].kind = t.kind /\ tasks'[k][g].value = t.value
      /\ tasks'[k][g].result \in {None, t.value}
  BY <1>3, <1>4 DEF TaskSet
<1>6. /\ t.kind = "put" => t.value # None
      /\ t.kind = "remove" => t.value = None
  BY DEF EntryInv, ValueFitsKind
<1>7. generation[k] = n
  BY DEF EntryInv, GenerationCounts
<1>8. ASSUME g = n
      PROVE  InFlightHasTask' /\ SettledIsDone' /\ SettledAgreesWithBackend'
  <2>1. /\ state' = [state EXCEPT ![k] = DoneState(t)]
        /\ payload' = [payload EXCEPT ![k] = IF t.ok THEN t.value ELSE None]
        /\ task' = [task EXCEPT ![k] = 0]
    BY <1>7, <1>8, Zenon DEF TaskFinish
  <2>2. /\ state'[k] = DoneState(t) /\ payload'[k] = (IF t.ok THEN t.value ELSE None)
        /\ task'[k] = 0
        /\ \A j \in Keys \ {k} : state'[j] = state[j] /\ payload'[j] = payload[j]
                                /\ task'[j] = task[j]
    BY <2>1 DEF TypeOK
  <2>3. state'[k] \notin InFlight
    BY <2>2 DEF DoneState, InFlight
  <2>4. t.ok => t.value = backend[k]
    BY <1>1, <1>8 DEF EntryInv, LastIOAgrees
  <2>5. t.kind \in {"fetch", "put", "remove"}
    BY <1>3 DEF TaskSet
  <2> HIDE DEF t, u, n
  <2>6. InFlightHasTask'
    BY <1>1, <1>2, <2>2, <2>3 DEF EntryInv, InFlightHasTask
  <2>7. SettledIsDone'
    BY <1>2, <1>5, <1>8, <2>2 DEF EntryInv, SettledIsDone, n
  <2>8. state'[k] = "resident" => payload'[k] # None /\ backend'[k] = payload'[k]
    BY <1>1, <1>6, <2>2, <2>4, <2>5 DEF DoneState
  <2>9. state'[k] = "absent" => backend'[k] = None
    BY <1>1, <1>6, <2>2, <2>4, <2>5 DEF DoneState
  <2>10. SettledAgreesWithBackend'
    BY <1>1, <2>2, <2>8, <2>9 DEF EntryInv, SettledAgreesWithBackend
  <2> QED
    BY <2>6, <2>7, <2>10
<1>9. ASSUME g # n
      PROVE  InFlightHasTask' /\ SettledIsDone' /\ SettledAgreesWithBackend'
  <2>1. UNCHANGED <<state, payload, task>>
    BY <1>7, <1>9, Zenon DEF TaskFinish
  <2> HIDE DEF t, u
  <2>2. \A j \in Keys : Len(tasks[j]) = Len(tasks'[j])
                       /\ (Len(tasks[j]) > 0 =>
                             tasks'[j][Len(tasks[j])] = tasks[j][Len(tasks[j])])
    BY <1>2, <1>9
  <2>3. InFlightHasTask'
    <3>1. task[k] # g
      BY <1>7, <1>9 DEF EntryInv, InFlightHasTask
    <3> SUFFICES ASSUME NEW j \in Keys
                 PROVE  IF state[j] \in InFlight
                        THEN /\ task[j] = generation[j]
                             /\ task[j] \in DOMAIN tasks'[j]
                             /\ tasks'[j][task[j]].stage # "done"
                        ELSE task[j] = 0
      BY <1>1, <2>1 DEF InFlightHasTask
    <3>2. CASE j # k
      BY <1>2, <3>2 DEF EntryInv, InFlightHasTask
    <3>3. CASE j = k
      <4>1. DOMAIN tasks[k] = 1..n
        BY DEF TypeOK
      <4> QED
        BY <1>2, <3>1, <3>3, <4>1 DEF EntryInv, InFlightHasTask
    <3> QED
      BY <3>2, <3>3
  <2>4. SettledIsDone'
    <3> SUFFICES ASSUME NEW j \in Keys, state[j] \notin InFlight
                 PROVE  IF Len(tasks'[j]) = 0 THEN state[j] = "absent"
                        ELSE tasks'[j][Len(tasks'[j])].stage = "done"
      BY <2>1 DEF SettledIsDone
    <3>1. Len(tasks[j]) \in Nat
      BY DEF TypeOK
    <3> QED
      BY <2>2, <3>1 DEF EntryInv, SettledIsDone
  <2>5. SettledAgreesWithBackend'
    BY <1>1, <2>1 DEF EntryInv, SettledAgreesWithBackend
  <2> QED
    BY <2>3, <2>4, <2>5
<1> HIDE DEF n, t, u
<1>10. GenerationCounts'
  BY <1>1, <1>2 DEF EntryInv, GenerationCounts, n
<1>11. ValueFitsKind'
  <2> SUFFICES ASSUME NEW j \in Keys, NEW i \in 1..Len(tasks'[j])
               PROVE  /\ tasks'[j][i].kind = "put" => tasks'[j][i].value # None
                      /\ tasks'[j][i].kind = "remove" => tasks'[j][i].value = None
                      /\ tasks'[j][i].result \in {None, tasks'[j][i].value}
                      /\ tasks'[j][i].stage # "done" => tasks'[j][i].result = None
    BY DEF ValueFitsKind
  <2>1. CASE j = k /\ i = g
    BY <1>5, <1>6, <2>1
  <2>2. CASE ~(j = k /\ i = g)
    BY <1>2, <2>2 DEF EntryInv, ValueFitsKind, n
  <2> QED
    BY <2>1, <2>2
<1>12. Chained'
  <2> SUFFICES ASSUME NEW j \in Keys, NEW i \in 1..Len(tasks'[j]),
                      tasks'[j][i].stage # "queued", NEW h \in 1..(i - 1)
               PROVE  tasks'[j][h].stage = "done"
    BY DEF Chained
  <2>1. CASE j # k
    BY <1>2, <2>1 DEF EntryInv, Chained
  <2>2. CASE j = k
    <3>1. i \in 1..n /\ h \in 1..n
      BY <1>2, <2>2
    <3>2. tasks[k][i].stage # "queued"
      BY <1>1, <1>2, <2>2, <3>1 DEF t
    <3>3. tasks[k][h].stage = "done"
      BY <2>2, <3>1, <3>2 DEF EntryInv, Chained, n
    <3> QED
      BY <1>2, <1>5, <2>2, <3>1, <3>3
  <2> QED
    BY <2>1, <2>2
<1>13. LastIOAgrees'
  <2> SUFFICES ASSUME NEW j \in Keys, Len(tasks'[j]) > 0,
                      tasks'[j][Len(tasks'[j])].stage = "io",
                      tasks'[j][Len(tasks'[j])].ok
               PROVE  tasks'[j][Len(tasks'[j])].value = backend'[j]
    BY DEF LastIOAgrees
  <2>1. CASE j # k
    BY <1>1, <1>2, <2>1 DEF EntryInv, LastIOAgrees
  <2>2. CASE j = k
    <3>1. n # g /\ n \in 1..n
      BY <1>2, <1>5, <2>2
    <3> QED
      BY <1>1, <1>2, <2>2, <3>1 DEF EntryInv, LastIOAgrees, n
  <2> QED
    BY <2>1, <2>2
<1> QED
  BY <1>8, <1>9, <1>10, <1>11, <1>12, <1>13 DEF EntryInv

---------------------------------------------------------------------------
(* Calls *)

\* A step that changes one call, and the tasks at most by adding one.
LEMMA CallStep ==
    ASSUME TypeOK, CallInv, NEW c \in Callers, NEW r, UNCHANGED backend,
           call' = [call EXCEPT ![c] = r],
           \A k \in Keys : \A i \in 1..Len(tasks[k]) :
               i \in 1..Len(tasks'[k]) /\ tasks'[k][i] = tasks[k][i],
           r.pc = "awaiting" => WaiterSees(c)',
           r.pc = "returned" => r.held
    PROVE  CallInv'
<1>1. call'[c] = r /\ \A d \in Callers \ {c} : call'[d] = call[d]
  BY DEF TypeOK
<1>2. WaitersSee'
  <2> SUFFICES ASSUME NEW d \in Callers, call'[d].pc = "awaiting"
               PROVE  WaiterSees(d)'
    BY DEF WaitersSee
  <2>1. CASE d = c
    BY <1>1, <2>1
  <2>2. CASE d # c
    <3>1. call'[d] = call[d] /\ WaiterSees(d)
      BY <1>1, <2>2 DEF CallInv, WaitersSee
    <3>2. call[d].key \in Keys
      BY <1>1, <2>2, LeftType
    <3> QED
      BY <3>1, <3>2 DEF WaiterSees
  <2> QED
    BY <2>1, <2>2
<1>3. AnswersWereHeld'
  BY <1>1 DEF CallInv, AnswersWereHeld
<1> QED
  BY <1>2, <1>3 DEF CallInv

\* A call that returns with an honest answer keeps the invariant of the calls.
LEMMA CallReturns ==
    ASSUME TypeOK, CallInv, NEW c \in Callers, NEW claim, NEW seen,
           UNCHANGED <<backend, tasks>>,
           \/ Raises(c)
           \/ Returns(c, claim, seen) /\ claim \in seen
           \/ Answers(c, claim, seen) /\ (claim # None => claim \in seen)
    PROVE  CallInv'
<1>1. \E o : call' = [call EXCEPT ![c] = [pc |-> "returned", outcome |-> o,
                                          held |-> TRUE]]
  <2>1. CASE Raises(c)
    BY <2>1 DEF Raises
  <2>2. CASE Returns(c, claim, seen) /\ claim \in seen
    <3>1. (claim \in seen) = TRUE
      BY <2>2
    <3> QED
      BY <2>2, <3>1 DEF Returns
  <2>3. CASE Answers(c, claim, seen) /\ (claim # None => claim \in seen)
    <3>1. (claim \in IF claim = None THEN {None} ELSE seen) = TRUE
      BY <2>3
    <3> QED
      BY <2>3, <3>1 DEF Answers, Returns
  <2> QED
    BY <2>1, <2>2, <2>3
<1>2. PICK o : call' = [call EXCEPT ![c] = [pc |-> "returned", outcome |-> o,
                                          held |-> TRUE]]
  BY <1>1
<1> DEFINE r == [pc |-> "returned", outcome |-> o, held |-> TRUE]
<1>3. r.pc = "returned" /\ r.held
  OBVIOUS
<1>4. call' = [call EXCEPT ![c] = r]
  BY <1>2
<1> HIDE DEF r
<1> QED
  BY <1>3, <1>4, CallStep

\* A call that joins a running operation keeps the invariant of the calls.
LEMMA CallAwaits ==
    ASSUME TypeOK, CallInv, NEW c \in Callers, NEW op \in {"get", "put", "evict"},
           NEW k \in Keys, NEW g, NEW joined, NEW retry, NEW seen,
           Awaits(c, op, k, g, joined, retry, seen),
           UNCHANGED backend, backend[k] \in seen,
           \A j \in Keys : \A i \in 1..Len(tasks[j]) :
               i \in 1..Len(tasks'[j]) /\ tasks'[j][i] = tasks[j][i],
           g \in 1..Len(tasks'[k]),
           op = "evict" => tasks'[k][g].kind = "remove",
           retry => op = "get",
           tasks'[k][g].stage # "queued" /\ tasks'[k][g].ok =>
               tasks'[k][g].value \in seen
    PROVE  CallInv'
<1> DEFINE r == [pc |-> "awaiting", op |-> op, key |-> k, gen |-> g,
                 joined |-> joined, retry |-> retry, seen |-> seen]
<1>1. call' = [call EXCEPT ![c] = r] /\ call'[c] = r
  BY DEF Awaits, TypeOK
<1>2. WaiterSees(c)'
  BY <1>1 DEF WaiterSees
<1>3. r.pc = "awaiting"
  OBVIOUS
<1>4. call' = [call EXCEPT ![c] = r]
  BY <1>1
<1> HIDE DEF r
<1> QED
  BY <1>2, <1>3, <1>4, CallStep

\* A call that launches an operation waits for it.
LEMMA CallLaunches ==
    ASSUME TypeOK, EntryInv, CallInv, NEW c \in Callers, NEW k \in Keys,
           NEW op \in {"get", "put", "evict"}, NEW st, NEW kind, NEW value, NEW seen,
           op = "evict" => kind = "remove", backend[k] \in seen, UNCHANGED backend,
           Launch(k, st, kind, value),
           Awaits(c, op, k, generation[k] + 1, FALSE, FALSE, seen)
    PROVE  CallInv'
<1> DEFINE n == Len(tasks[k])
<1>1. n \in Nat /\ Len(tasks'[k]) = n + 1 /\ generation[k] = n
  BY LaunchTasks DEF EntryInv, GenerationCounts
<1>2. \A j \in Keys : \A i \in 1..Len(tasks[j]) :
         i \in 1..Len(tasks'[j]) /\ tasks'[j][i] = tasks[j][i]
  <2>1. \A i \in 1..n : tasks'[k][i] = tasks[k][i]
    BY LaunchTasks
  <2>2. \A j \in Keys \ {k} : tasks'[j] = tasks[j]
    BY LaunchTasks
  <2> QED
    BY <1>1, <2>1, <2>2
<1>3. tasks'[k][n + 1] = [kind |-> kind, value |-> value, stage |-> "queued",
                          ok |-> FALSE, result |-> None]
  BY LaunchTasks
<1>4. tasks'[k][n + 1].kind = kind /\ tasks'[k][n + 1].stage = "queued"
  BY <1>3
<1> DEFINE g == generation[k] + 1
<1>5. /\ g \in 1..Len(tasks'[k]) /\ tasks'[k][g].kind = kind
      /\ tasks'[k][g].stage = "queued"
      /\ Awaits(c, op, k, g, FALSE, FALSE, seen)
  <2>1. g = n + 1 /\ n + 1 \in 1..(n + 1)
    BY <1>1
  <2>2. Awaits(c, op, k, g, FALSE, FALSE, seen)
    OBVIOUS
  <2> HIDE DEF g, n
  <2> QED
    BY <1>1, <1>4, <2>1, <2>2
<1> HIDE DEF g, n
<1> QED
  BY <1>2, <1>5, CallAwaits

\* One turn of get's loop keeps the invariant of the calls.
LEMMA CallGetLocked ==
    ASSUME TypeOK, EntryInv, CallInv, NEW c \in Callers, NEW k \in Keys, NEW w,
           NEW seen, backend[k] \in seen, UNCHANGED backend, GetLocked(c, k, w, seen)
    PROVE  CallInv'
<1>1. CASE state[k] = "resident"
  <2>1. Answers(c, payload[k], seen) /\ UNCHANGED tasks
    BY <1>1 DEF GetLocked, InFlight
  <2>2. payload[k] \in seen
    BY <1>1 DEF EntryInv, SettledAgreesWithBackend
  <2> QED
    BY <2>1, <2>2, CallReturns
<1>2. CASE state[k] \in InFlight
  <2>1. /\ task[k] = generation[k] /\ task[k] = Len(tasks[k])
        /\ task[k] \in 1..Len(tasks[k])
        /\ tasks[k][task[k]].stage # "done"
    <3>1. DOMAIN tasks[k] = 1..Len(tasks[k])
      BY DEF TypeOK
    <3> QED
      BY <1>2, <3>1 DEF EntryInv, InFlightHasTask, GenerationCounts
  <2>2. /\ Awaits(c, "get", k, task[k], TRUE, state[k] = "evicting", seen)
        /\ UNCHANGED tasks
    <3>1. /\ task[k] # 0 /\ state[k] # "resident"
          /\ state[k] \notin {"absent", "failed"}
      BY <1>2, <2>1 DEF InFlight
    <3> QED
      BY <3>1, Zenon DEF GetLocked
  <2>3. tasks[k][task[k]].stage # "queued" /\ tasks[k][task[k]].ok =>
            tasks[k][task[k]].value \in seen
    <3>1. tasks[k][task[k]] \in TaskSet
      BY <2>1 DEF TypeOK
    <3>2. tasks[k][task[k]].stage \in {"queued", "io", "done"}
      BY <3>1 DEF TaskSet
    <3> QED
      BY <2>1, <3>2 DEF EntryInv, LastIOAgrees
  <2> QED
    BY <2>1, <2>2, <2>3, CallAwaits
<1>3. CASE state[k] \in {"absent", "failed"}
  <2>1. /\ Launch(k, "fetching", "fetch", None)
        /\ Awaits(c, "get", k, generation[k] + 1, FALSE, FALSE, seen)
    BY <1>3 DEF GetLocked, InFlight
  <2> QED
    BY <2>1, CallLaunches
<1> QED
  BY <1>1, <1>2, <1>3 DEF TypeOK, InFlight

\* Waking a caller keeps the invariant of the calls.
LEMMA CallWake ==
    ASSUME TypeOK, EntryInv, CallInv, NEW c \in Callers, Wake(c) \/ CancelWaiter(c)
    PROVE  CallInv'
<1> DEFINE k == call[c].key
           t == tasks[k][call[c].gen]
<1>1. /\ call[c].pc = "awaiting" /\ UNCHANGED backend
  BY DEF Wake, CancelWaiter
<1>2. k \in Keys
  BY <1>1, LeftType
<1>3. WaiterSees(c)
  BY <1>1 DEF CallInv, WaitersSee
<1>4. CASE CancelWaiter(c)
  BY <1>4, CallReturns DEF CancelWaiter
<1>5. CASE Wake(c) /\ GetLocked(c, k, Left(c), call[c].seen)
  BY <1>1, <1>2, <1>3, <1>5, CallGetLocked DEF WaiterSees
<1>6. CASE Wake(c) /\ ~GetLocked(c, k, Left(c), call[c].seen)
  <2>1. t.stage = "done" /\ Deliver(c, t) /\ UNCHANGED <<backend, tasks>>
    BY <1>6, Zenon DEF Wake
  <2>2. /\ t.result \in {None, t.value}
        /\ t.kind = "remove" => t.value = None
    BY <1>2, <1>3 DEF WaiterSees, EntryInv, ValueFitsKind
  <2>3. /\ t.ok => t.value \in call[c].seen
        /\ call[c].op = "evict" => t.kind = "remove"
    BY <1>3, <2>1 DEF WaiterSees
  <2> HIDE DEF t, k
  <2>4. \E claim, seen :
           \/ Raises(c)
           \/ Returns(c, claim, seen) /\ claim \in seen
           \/ Answers(c, claim, seen) /\ (claim # None => claim \in seen)
    BY <2>1, <2>2, <2>3, Zenon DEF Deliver
  <2> QED
    BY <2>1, <2>4, CallReturns
<1> QED
  BY <1>4, <1>5, <1>6

\* Starting get, put or evict keeps the invariant of the calls.
LEMMA CallBegins ==
    ASSUME TypeOK, EntryInv, CallInv, NEW c \in Callers, NEW k \in Keys, NEW v,
           Get(c, k) \/ Evict(c, k) \/ Put(c, k, v)
    PROVE  CallInv'
<1>1. UNCHANGED backend /\ backend[k] \in {backend[k]}
  BY DEF Get, Evict, Put, Begin
<1>2. CASE Rejected(c)
  BY <1>1, <1>2, CallReturns DEF Rejected
<1>3. CASE Get(c, k) /\ ~Rejected(c)
  <2>1. GetLocked(c, k, waiters[k], {backend[k]})
    BY <1>3 DEF Get
  <2> QED
    BY <1>1, <2>1, CallGetLocked
<1>4. CASE Put(c, k, v) /\ ~Rejected(c)
  <2>1. /\ Launch(k, "writing", "put", v)
        /\ Awaits(c, "put", k, generation[k] + 1, FALSE, FALSE, {backend[k]})
    BY <1>4 DEF Put
  <2> QED
    BY <1>1, <2>1, CallLaunches
<1>5. CASE Evict(c, k) /\ ~Rejected(c)
  <2>1. /\ Launch(k, "evicting", "remove", None)
        /\ Awaits(c, "evict", k, generation[k] + 1, FALSE, FALSE, {backend[k]})
    BY <1>5 DEF Evict
  <2> QED
    BY <1>1, <2>1, CallLaunches
<1> QED
  BY <1>2, <1>3, <1>4, <1>5

\* What a successful backend call stored or fetched is what the backend holds.
LEMMA IOValue ==
    ASSUME TypeOK, EntryInv, NEW k \in Keys, NEW g \in 1..Len(tasks[k]),
           NEW ok \in BOOLEAN, NEW effect \in BOOLEAN, BackendIO(k, g, ok, effect)
    PROVE  /\ tasks'[k][g].kind = tasks[k][g].kind
           /\ tasks'[k][g].ok => tasks'[k][g].value = backend'[k]
<1> DEFINE t == tasks[k][g]
           u == [t EXCEPT !.stage = "io", !.ok = ok,
                          !.value = IF t.kind = "fetch" THEN backend[k] ELSE @]
<1>1. t \in TaskSet /\ tasks[k] \in Seq(TaskSet)
  BY DEF TypeOK
<1>2. tasks'[k] = [tasks[k] EXCEPT ![g] = u] /\ g \in DOMAIN tasks[k]
  BY DEF TypeOK, BackendIO
<1>3. tasks'[k][g] = u
  <2> HIDE DEF u
  <2> QED
    BY <1>2
<1>4. /\ tasks'[k][g].kind = t.kind /\ tasks'[k][g].ok = ok
      /\ tasks'[k][g].value = IF t.kind = "fetch" THEN backend[k] ELSE t.value
  BY <1>1, <1>3 DEF TaskSet
<1>5. ok => backend'[k] = Stored(t, backend[k])
  BY DEF BackendIO, TypeOK
<1>6. t.kind = "remove" => t.value = None
  BY DEF EntryInv, ValueFitsKind
<1>7. t.kind \in {"fetch", "put", "remove"}
  BY <1>1 DEF TaskSet
<1> HIDE DEF t, u
<1> QED
  BY <1>4, <1>5, <1>6, <1>7 DEF Stored, t

\* A backend call keeps the invariant of the calls: who waits sees what it stored.
LEMMA CallIO ==
    ASSUME TypeOK, EntryInv, CallInv, NEW k \in Keys, NEW g \in 1..Len(tasks[k]),
           NEW ok \in BOOLEAN, NEW effect \in BOOLEAN, BackendIO(k, g, ok, effect)
    PROVE  CallInv'
<1>1. /\ \A j \in Keys : Len(tasks'[j]) = Len(tasks[j])
      /\ \A i \in 1..Len(tasks[k]) : i # g => tasks'[k][i] = tasks[k][i]
      /\ \A j \in Keys \ {k} : tasks'[j] = tasks[j] /\ backend'[j] = backend[j]
  <2>1. \E u : tasks' = [tasks EXCEPT ![k][g] = u]
    BY DEF BackendIO
  <2>2. \A j \in Keys \ {k} : backend'[j] = backend[j]
    BY DEF BackendIO, TypeOK
  <2> QED
    BY <2>1, <2>2, UpdateTasks
<1>2. \A c \in Callers : call'[c] =
         IF call[c].pc = "awaiting" /\ call[c].key = k
         THEN [call[c] EXCEPT !.seen = @ \cup {backend'[k]}] ELSE call[c]
  BY DEF BackendIO
<1>3. AnswersWereHeld'
  <2> SUFFICES ASSUME NEW c \in Callers, call'[c].pc = "returned" PROVE call'[c].held
    BY DEF AnswersWereHeld
  <2>1. CASE call[c].pc = "awaiting"
    <3>1. call[c] \in CallSet
      BY DEF TypeOK
    <3>2. [call[c] EXCEPT !.seen = @ \cup {backend'[k]}].pc = call[c].pc
      BY <2>1, <3>1 DEF CallSet
    <3> QED
      BY <1>2, <2>1, <3>2
  <2>2. CASE call[c].pc # "awaiting"
    BY <1>2, <2>2 DEF CallInv, AnswersWereHeld
  <2> QED
    BY <2>1, <2>2
<1>4. WaitersSee'
  <2> SUFFICES ASSUME NEW c \in Callers, call'[c].pc = "awaiting" PROVE WaiterSees(c)'
    BY DEF WaitersSee
  <2>1. CASE call[c].pc # "awaiting"
    BY <1>2, <2>1
  <2>2. CASE call[c].pc = "awaiting" /\ call[c].key # k
    <3>1. call'[c] = call[c] /\ call[c].key \in Keys \ {k} /\ WaiterSees(c)
      BY <1>2, <2>2, LeftType DEF CallInv, WaitersSee
    <3> QED
      BY <1>1, <3>1 DEF WaiterSees
  <2>3. CASE call[c].pc = "awaiting" /\ call[c].key = k
    <3>1. WaiterSees(c)
      BY <2>3 DEF CallInv, WaitersSee
    <3>2. call[c] \in [pc : {"awaiting"}, op : {"get", "put", "evict"}, key : Keys,
                       gen : Nat, joined : BOOLEAN, retry : BOOLEAN,
                       seen : SUBSET MaybeValue]
      BY <2>3 DEF TypeOK, CallSet
    <3>3. call'[c] = [call[c] EXCEPT !.seen = @ \cup {backend'[k]}]
      BY <1>2, <2>3
    <3>4. /\ call'[c].key = k /\ call'[c].gen = call[c].gen /\ call'[c].op = call[c].op
          /\ call'[c].retry = call[c].retry
          /\ call'[c].seen = call[c].seen \cup {backend'[k]}
      BY <2>3, <3>2, <3>3
    <3>5. call[c].gen \in 1..Len(tasks'[k])
      BY <1>1, <2>3, <3>1 DEF WaiterSees
    <3>6. /\ tasks'[k][call[c].gen].kind = tasks[k][call[c].gen].kind
          /\ tasks'[k][call[c].gen].stage # "queued" /\ tasks'[k][call[c].gen].ok =>
                tasks'[k][call[c].gen].value \in call'[c].seen
      <4>1. CASE call[c].gen = g
        BY <3>4, <4>1, IOValue
      <4>2. CASE call[c].gen # g
        BY <1>1, <2>3, <3>1, <3>4, <4>2 DEF WaiterSees
      <4> QED
        BY <4>1, <4>2
    <3> QED
      BY <2>3, <3>1, <3>4, <3>5, <3>6 DEF WaiterSees
  <2> QED
    BY <2>1, <2>2, <2>3
<1> QED
  BY <1>3, <1>4 DEF CallInv

\* The end of a task keeps the invariant of the calls.
LEMMA CallFinish ==
    ASSUME TypeOK, EntryInv, CallInv, NEW k \in Keys, NEW g \in 1..Len(tasks[k]),
           TaskFinish(k, g)
    PROVE  CallInv'
<1> DEFINE t == tasks[k][g]
           u == [t EXCEPT !.stage = "done",
                          !.result = IF generation[k] = g /\ t.ok THEN t.value
                                                                  ELSE None]
<1>1. /\ t.stage = "io" /\ UNCHANGED <<backend, call>>
      /\ tasks' = [tasks EXCEPT ![k][g] = u]
  BY DEF TaskFinish
<1>2. /\ \A j \in Keys : Len(tasks'[j]) = Len(tasks[j])
      /\ \A i \in 1..Len(tasks[k]) : i # g => tasks'[k][i] = tasks[k][i]
      /\ \A j \in Keys \ {k} : tasks'[j] = tasks[j]
  BY <1>1, UpdateTasks
<1>3. t \in TaskSet
  BY DEF TypeOK
<1>4. tasks'[k][g] = u
  <2>1. tasks'[k] = [tasks[k] EXCEPT ![g] = u] /\ g \in DOMAIN tasks[k]
    BY <1>1 DEF TypeOK
  <2> HIDE DEF u
  <2> QED
    BY <2>1
<1>5. /\ tasks'[k][g].ok = t.ok /\ tasks'[k][g].kind = t.kind
      /\ tasks'[k][g].value = t.value
  BY <1>3, <1>4 DEF TaskSet
<1> HIDE DEF u
<1>6. WaitersSee'
  <2> SUFFICES ASSUME NEW c \in Callers, call[c].pc = "awaiting" PROVE WaiterSees(c)'
    BY <1>1 DEF WaitersSee
  <2>1. WaiterSees(c) /\ call[c].key \in Keys
    BY LeftType DEF CallInv, WaitersSee
  <2>2. CASE call[c].key = k /\ call[c].gen = g
    BY <1>1, <1>2, <1>5, <2>1, <2>2 DEF WaiterSees
  <2>3. CASE ~(call[c].key = k /\ call[c].gen = g)
    <3>1. /\ tasks'[call[c].key][call[c].gen] = tasks[call[c].key][call[c].gen]
          /\ Len(tasks'[call[c].key]) = Len(tasks[call[c].key])
      BY <1>2, <2>1, <2>3 DEF WaiterSees
    <3> QED
      BY <1>1, <2>1, <3>1 DEF WaiterSees
  <2> QED
    BY <2>2, <2>3
<1> QED
  BY <1>1, <1>6 DEF CallInv, AnswersWereHeld

---------------------------------------------------------------------------
(* The invariant *)

\* The inductive invariant holds initially.
LEMMA IndInvInit == Init => IndInv
<1> SUFFICES ASSUME Init PROVE IndInv
  OBVIOUS
<1>1. \A k \in Keys : /\ Len(tasks[k]) = 0 /\ state[k] = "absent"
                      /\ generation[k] = 0 /\ task[k] = 0
  BY DEF Init
<1>2. EntryInv
  BY <1>1 DEF EntryInv, GenerationCounts, InFlightHasTask, ValueFitsKind, Chained,
              SettledIsDone, LastIOAgrees, SettledAgreesWithBackend, InFlight
<1>3. CallInv
  BY DEF Init, CallInv, WaitersSee, AnswersWereHeld
<1> QED
  BY <1>2, <1>3, TypeInit DEF IndInv

\* Every step preserves the inductive invariant.
LEMMA IndInvNext == IndInv /\ [Next]_vars => IndInv'
<1> SUFFICES ASSUME IndInv, [Next]_vars PROVE EntryInv' /\ CallInv'
  BY TypeNext DEF IndInv
<1>0. TypeOK /\ EntryInv /\ CallInv
  BY DEF IndInv
<1>1. ASSUME NEW c \in Callers, NEW k \in Keys, Get(c, k) \/ Evict(c, k)
      PROVE  EntryInv' /\ CallInv'
  <2>1. CallInv'
    BY <1>0, <1>1, CallBegins
  <2>2. UNCHANGED backend
    BY <1>1 DEF Get, Evict, Begin
  <2>3. \/ UNCHANGED <<state, generation, payload, task, tasks>>
        \/ Launch(k, "fetching", "fetch", None)
        \/ Launch(k, "evicting", "remove", None)
    BY <1>1, Zenon DEF Get, Evict, Rejected, GetLocked, entryVars
  <2>4. "fetching" \in InFlight /\ "evicting" \in InFlight
    BY DEF InFlight
  <2> QED
    BY <1>0, <2>1, <2>2, <2>3, <2>4, EntryLaunch, EntryUnchanged
<1>2. ASSUME NEW c \in Callers, NEW k \in Keys, NEW v \in Values, Put(c, k, v)
      PROVE  EntryInv' /\ CallInv'
  <2>1. CallInv'
    BY <1>0, <1>2, CallBegins
  <2>2. UNCHANGED backend
    BY <1>2 DEF Put, Begin
  <2>3. \/ UNCHANGED <<state, generation, payload, task, tasks>>
        \/ Launch(k, "writing", "put", v)
    BY <1>2, Zenon DEF Put, Rejected, entryVars
  <2>4. "writing" \in InFlight /\ v # None
    BY NoneAssumption DEF InFlight
  <2> QED
    BY <1>0, <2>1, <2>2, <2>3, <2>4, EntryLaunch, EntryUnchanged
<1>3. ASSUME NEW c \in Callers, Wake(c) \/ CancelWaiter(c)
      PROVE  EntryInv' /\ CallInv'
  <2>1. CallInv'
    BY <1>0, <1>3, CallWake
  <2>2. UNCHANGED backend /\ call[c].key \in Keys
    BY <1>0, <1>3, LeftType DEF Wake, CancelWaiter
  <2>3. \/ UNCHANGED <<state, generation, payload, task, tasks>>
        \/ Launch(call[c].key, "fetching", "fetch", None)
    BY <1>3, Zenon DEF Wake, CancelWaiter, GetLocked
  <2>4. "fetching" \in InFlight
    BY DEF InFlight
  <2> QED
    BY <1>0, <2>1, <2>2, <2>3, <2>4, EntryLaunch, EntryUnchanged
<1>4. CASE Task
  BY <1>0, <1>4, EntryIO, EntryFinish, CallIO, CallFinish DEF Task
<1>5. CASE Close \/ UNCHANGED vars
  <2>1. UNCHANGED <<state, generation, payload, task, tasks, backend, call>>
    BY <1>5 DEF Close, CloseBegin, CloseIdle, CloseBackend, vars, entryVars
  <2>2. CallInv'
    BY <1>0, <2>1 DEF CallInv, WaitersSee, WaiterSees, AnswersWereHeld
  <2> QED
    BY <1>0, <2>1, <2>2, EntryUnchanged
<1> QED
  BY <1>1, <1>2, <1>3, <1>4, <1>5
     DEF Next, Call, Resume, Cancelled, Quiet

\* The invariant holds in every reachable state.
THEOREM Invariance == Spec => []IndInv
BY IndInvInit, IndInvNext, PTL DEF Spec

\* get never meets an in-flight entry without its task, and never joins one
\* whose task is over.
THEOREM InFlightTask == Spec => []InFlightHasTask
<1>1. IndInv => InFlightHasTask
  BY DEF IndInv, EntryInv
<1> QED
  BY <1>1, Invariance, PTL

\* Whatever was superseded, cancelled or failed, an entry that says resident or
\* absent says what the backend holds.
THEOREM Agreement == Spec => []SettledAgreesWithBackend
<1>1. IndInv => SettledAgreesWithBackend
  BY DEF IndInv, EntryInv
<1> QED
  BY <1>1, Invariance, PTL

\* A call never answers with a value its key did not hold while it ran.
THEOREM HonestAnswers == Spec => []AnswersWereHeld
<1>1. IndInv => AnswersWereHeld
  BY DEF IndInv, CallInv
<1> QED
  BY <1>1, Invariance, PTL

---------------------------------------------------------------------------
(* Waiters *)

\* The callers that share another call's task on k.
Joined(k) == {c \in Callers : /\ call[c].pc = "awaiting"
                              /\ call[c].key = k /\ call[c].joined}

\* A call record that waits on k for another call's task.
Joins(r, k) == r.pc = "awaiting" /\ r.key = k /\ r.joined

\* The sharing callers are finitely many.
LEMMA JoinedFinite ==
    ASSUME NEW k
    PROVE  /\ IsFiniteSet(Joined(k)) /\ Cardinality(Joined(k)) \in Nat
           /\ \A c : IsFiniteSet(Joined(k) \ {c}) /\ Cardinality(Joined(k) \ {c}) \in Nat
<1>1. IsFiniteSet(Joined(k))
  <2>1. Joined(k) \in SUBSET Callers
    BY DEF Joined
  <2> QED
    BY <2>1, CallersAssumption, FS_Subset
<1> QED
  BY <1>1, FS_CardinalityType, FS_RemoveElement

\* When one call changes, it alone leaves or joins.
LEMMA JoinedUpdate ==
    ASSUME TypeOK, NEW c \in Callers, NEW r, call' = [call EXCEPT ![c] = r], NEW k
    PROVE  Joined(k)' = IF Joins(r, k) THEN (Joined(k) \ {c}) \cup {c}
                                       ELSE Joined(k) \ {c}
<1>1. call'[c] = r /\ \A d \in Callers : d # c => call'[d] = call[d]
  BY DEF TypeOK
<1> QED
  BY <1>1 DEF Joined, Joins

\* The count on k is right when it is that of the others, and one more if the
\* call that changed now shares a task on k.
LEMMA CountedUpdate ==
    ASSUME TypeOK, WaitersCounted, NEW c \in Callers, NEW r,
           call' = [call EXCEPT ![c] = r], NEW k \in Keys, NEW w,
           w = Cardinality(Joined(k) \ {c}),
           \A j \in Keys : j # k => c \notin Joined(j) /\ ~Joins(r, j),
           waiters' = [waiters EXCEPT ![k] = IF Joins(r, k) THEN w + 1 ELSE w]
    PROVE  WaitersCounted'
<1> SUFFICES ASSUME NEW j \in Keys PROVE waiters'[j] = Cardinality(Joined(j)')
  BY DEF WaitersCounted, Joined
<1>1. waiters[j] = Cardinality(Joined(j))
  BY DEF WaitersCounted, Joined
<1>2. CASE j = k
  <2>1. waiters'[j] = IF Joins(r, k) THEN w + 1 ELSE w
    BY <1>2 DEF TypeOK
  <2>2. CASE Joins(r, k)
    <3>1. Joined(k)' = (Joined(k) \ {c}) \cup {c}
      BY <2>2, JoinedUpdate
    <3>2. Cardinality((Joined(k) \ {c}) \cup {c}) = Cardinality(Joined(k) \ {c}) + 1
      BY JoinedFinite, FS_AddElement
    <3> QED
      BY <1>2, <2>1, <2>2, <3>1, <3>2
  <2>3. CASE ~Joins(r, k)
    BY <1>2, <2>1, <2>3, JoinedUpdate
  <2> QED
    BY <2>2, <2>3
<1>3. CASE j # k
  <2>1. waiters'[j] = waiters[j]
    BY <1>3 DEF TypeOK
  <2>2. Joined(j)' = Joined(j) \ {c} /\ c \notin Joined(j)
    BY <1>3, JoinedUpdate
  <2>3. Joined(j) \ {c} = Joined(j)
    BY <2>2
  <2> QED
    BY <1>1, <2>1, <2>2, <2>3
<1> QED
  BY <1>2, <1>3

\* A call that ends, or that waits for a task of its own, shares none.
LEMMA EndsShareless ==
    ASSUME NEW c, NEW claim, NEW seen,
           Raises(c) \/ Returns(c, claim, seen) \/ Answers(c, claim, seen)
    PROVE  \E r : call' = [call EXCEPT ![c] = r] /\ r.pc = "returned"
<1>1. CASE Raises(c)
  <2> WITNESS [pc |-> "returned", outcome |-> "raised", held |-> TRUE]
  <2> QED
    BY <1>1 DEF Raises
<1>2. ASSUME NEW S, Returns(c, claim, S)
      PROVE  \E r : call' = [call EXCEPT ![c] = r] /\ r.pc = "returned"
  <2> WITNESS [pc |-> "returned", outcome |-> "ok", held |-> claim \in S]
  <2> QED
    BY <1>2 DEF Returns
<1> QED
  BY <1>1, <1>2 DEF Answers

\* One turn of get's loop, with w the number of the others sharing.
LEMMA CountedGetLocked ==
    ASSUME TypeOK, WaitersCounted, NEW c \in Callers, NEW k \in Keys, NEW w,
           w = Cardinality(Joined(k) \ {c}), NEW seen,
           \A j \in Keys : j # k => c \notin Joined(j),
           GetLocked(c, k, w, seen)
    PROVE  WaitersCounted'
<1>1. \E r : /\ call' = [call EXCEPT ![c] = r]
             /\ waiters' = [waiters EXCEPT ![k] = IF Joins(r, k) THEN w + 1 ELSE w]
             /\ \A j \in Keys : j # k => ~Joins(r, j)
  <2>1. ASSUME waiters' = [waiters EXCEPT ![k] = w],
               \E claim, S : Raises(c) \/ Answers(c, claim, S)
        PROVE  \E r : /\ call' = [call EXCEPT ![c] = r]
                      /\ waiters' = [waiters EXCEPT ![k] =
                                        IF Joins(r, k) THEN w + 1 ELSE w]
                      /\ \A j \in Keys : j # k => ~Joins(r, j)
    <3>1. PICK r : call' = [call EXCEPT ![c] = r] /\ r.pc = "returned"
      BY <2>1, EndsShareless
    <3> WITNESS r
    <3> QED
      BY <2>1, <3>1 DEF Joins
  <2>2. ASSUME NEW g, NEW joined \in BOOLEAN, NEW retry,
               Awaits(c, "get", k, g, joined, retry, seen),
               waiters' = [waiters EXCEPT ![k] = IF joined THEN w + 1 ELSE w]
        PROVE  \E r : /\ call' = [call EXCEPT ![c] = r]
                      /\ waiters' = [waiters EXCEPT ![k] =
                                        IF Joins(r, k) THEN w + 1 ELSE w]
                      /\ \A j \in Keys : j # k => ~Joins(r, j)
    <3> WITNESS [pc |-> "awaiting", op |-> "get", key |-> k, gen |-> g,
                 joined |-> joined, retry |-> retry, seen |-> seen]
    <3> QED
      BY <2>2 DEF Awaits, Joins
  <2>3. CASE waiters' = [waiters EXCEPT ![k] = w] /\ \E claim, S : Raises(c) \/ Answers(c, claim, S)
    BY <2>1, <2>3
  <2>4. CASE /\ Awaits(c, "get", k, task[k], TRUE, state[k] = "evicting", seen)
             /\ waiters' = [waiters EXCEPT ![k] = w + 1]
    BY <2>2, <2>4
  <2>5. CASE /\ Awaits(c, "get", k, generation[k] + 1, FALSE, FALSE, seen)
             /\ waiters' = [waiters EXCEPT ![k] = w]
    BY <2>2, <2>5
  <2> QED
    BY <2>3, <2>4, <2>5, Zenon DEF GetLocked
<1> QED
  BY <1>1, CountedUpdate

\* The count without c is what the finally clause leaves.
LEMMA LeftCounts ==
    ASSUME TypeOK, WaitersCounted, NEW c \in Callers, call[c].pc = "awaiting"
    PROVE  /\ call[c].key \in Keys
           /\ Left(c) = Cardinality(Joined(call[c].key) \ {c})
           /\ \A j \in Keys : j # call[c].key => c \notin Joined(j)
<1> DEFINE k == call[c].key
<1>1. k \in Keys
  BY LeftType
<1>2. waiters[k] = Cardinality(Joined(k))
  BY <1>1 DEF WaitersCounted, Joined
<1>3. c \in Joined(k) <=> call[c].joined
  BY DEF Joined
<1>4. /\ IsFiniteSet(Joined(k)) /\ Cardinality(Joined(k)) \in Nat
      /\ Cardinality(Joined(k) \ {c}) \in Nat
  BY JoinedFinite
<1>5. Cardinality(Joined(k) \ {c}) =
         IF c \in Joined(k) THEN Cardinality(Joined(k)) - 1 ELSE Cardinality(Joined(k))
  BY <1>4, FS_RemoveElement
<1>6. Left(c) = Cardinality(Joined(k) \ {c})
  BY <1>2, <1>3, <1>4, <1>5 DEF Left
<1> QED
  BY <1>1, <1>6 DEF Joined

\* A call that has not begun shares nothing.
LEMMA ReadyCounts ==
    ASSUME WaitersCounted, NEW c \in Callers, call[c].pc = "ready", NEW k \in Keys
    PROVE  /\ waiters[k] = Cardinality(Joined(k) \ {c})
           /\ \A j \in Keys : c \notin Joined(j)
<1>1. \A j \in Keys : c \notin Joined(j)
  BY DEF Joined
<1>2. Joined(k) \ {c} = Joined(k)
  BY <1>1
<1> QED
  BY <1>1, <1>2 DEF WaitersCounted, Joined

\* Every step keeps the count.
LEMMA CountedNext == TypeOK /\ WaitersCounted /\ [Next]_vars => WaitersCounted'
<1> SUFFICES ASSUME TypeOK, WaitersCounted, [Next]_vars PROVE WaitersCounted'
  OBVIOUS
<1>1. ASSUME NEW c \in Callers, NEW k \in Keys, Begin(c), Rejected(c)
      PROVE  WaitersCounted'
  <2>1. PICK r : call' = [call EXCEPT ![c] = r] /\ r.pc = "returned"
    BY <1>1, EndsShareless DEF Rejected
  <2>2. waiters' = [waiters EXCEPT ![k] = waiters[k]]
    BY <1>1 DEF Rejected, entryVars, TypeOK
  <2>3. \A j : ~Joins(r, j)
    BY <2>1 DEF Joins
  <2> QED
    BY <1>1, <2>1, <2>2, <2>3, ReadyCounts, CountedUpdate DEF Begin
<1>2. ASSUME NEW c \in Callers, NEW k \in Keys, Begin(c),
             GetLocked(c, k, waiters[k], {backend[k]})
      PROVE  WaitersCounted'
  BY <1>2, ReadyCounts, CountedGetLocked DEF Begin
<1>3. ASSUME NEW c \in Callers, NEW k \in Keys, Begin(c), NEW op, NEW seen,
             Awaits(c, op, k, generation[k] + 1, FALSE, FALSE, seen),
             UNCHANGED waiters
      PROVE  WaitersCounted'
  <2> DEFINE r == [pc |-> "awaiting", op |-> op, key |-> k, gen |-> generation[k] + 1,
                   joined |-> FALSE, retry |-> FALSE, seen |-> seen]
  <2>1. call' = [call EXCEPT ![c] = r] /\ \A j : ~Joins(r, j)
    BY <1>3 DEF Awaits, Joins
  <2>2. waiters' = [waiters EXCEPT ![k] =
                       IF Joins(r, k) THEN waiters[k] + 1 ELSE waiters[k]]
    BY <1>3, <2>1 DEF TypeOK
  <2>3. /\ waiters[k] = Cardinality(Joined(k) \ {c})
        /\ \A j \in Keys : c \notin Joined(j)
    BY <1>3, ReadyCounts DEF Begin
  <2> HIDE DEF r
  <2> QED
    BY <2>1, <2>2, <2>3, CountedUpdate
<1>4. CASE Call
  BY <1>1, <1>2, <1>3, <1>4, Zenon DEF Call, Get, Put, Evict
<1>5. ASSUME NEW c \in Callers, call[c].pc = "awaiting", Leave(c),
             \E claim, S : Raises(c) \/ Returns(c, claim, S) \/ Answers(c, claim, S)
      PROVE  WaitersCounted'
  <2>1. PICK r : call' = [call EXCEPT ![c] = r] /\ r.pc = "returned"
    BY <1>5, EndsShareless
  <2>2. \A j : ~Joins(r, j)
    BY <2>1 DEF Joins
  <2> QED
    BY <1>5, <2>1, <2>2, LeftCounts, CountedUpdate DEF Leave
<1>6. CASE Resume \/ Cancelled
  <2>1. ASSUME NEW c \in Callers, Wake(c),
               GetLocked(c, call[c].key, Left(c), call[c].seen)
        PROVE  WaitersCounted'
    BY <2>1, LeftCounts, CountedGetLocked DEF Wake
  <2>2. ASSUME NEW c \in Callers, Wake(c),
               Leave(c), Deliver(c, tasks[call[c].key][call[c].gen])
        PROVE  WaitersCounted'
    <3>1. \E claim, S : Raises(c) \/ Returns(c, claim, S) \/ Answers(c, claim, S)
      BY <2>2, Zenon DEF Deliver
    <3> QED
      BY <1>5, <2>2, <3>1 DEF Wake
  <2>3. ASSUME NEW c \in Callers, CancelWaiter(c) PROVE WaitersCounted'
    BY <1>5, <2>3 DEF CancelWaiter
  <2>4. ASSUME NEW c \in Callers, Wake(c)
        PROVE  \/ GetLocked(c, call[c].key, Left(c), call[c].seen)
               \/ Leave(c) /\ Deliver(c, tasks[call[c].key][call[c].gen])
    BY <2>4, Zenon DEF Wake
  <2>5. ASSUME NEW c \in Callers, Wake(c) PROVE WaitersCounted'
    BY <2>1, <2>2, <2>4, <2>5, Zenon
  <2>6. CASE Resume
    <3>1. PICK c \in Callers : Wake(c)
      BY <2>6 DEF Resume
    <3> QED
      BY <2>5, <3>1
  <2>7. CASE Cancelled
    <3>1. PICK c \in Callers : CancelWaiter(c)
      BY <2>7 DEF Cancelled
    <3> QED
      BY <2>3, <3>1
  <2> QED
    BY <1>6, <2>6, <2>7
<1>7. CASE Task
  <2>1. UNCHANGED waiters
    <3>1. ASSUME NEW k, NEW g, TaskFinish(k, g) PROVE UNCHANGED waiters
      BY <3>1 DEF TaskFinish
    <3>2. ASSUME NEW k, NEW g, NEW ok, NEW effect, BackendIO(k, g, ok, effect)
          PROVE  UNCHANGED waiters
      BY <3>2 DEF BackendIO, entryVars
    <3> QED
      BY <1>7, <3>1, <3>2, Zenon DEF Task
  <2>2. \A k : Joined(k)' = Joined(k)
    <3>1. CASE UNCHANGED call
      BY <3>1 DEF Joined
    <3>2. ASSUME NEW k \in Keys, NEW g, NEW ok, NEW effect, BackendIO(k, g, ok, effect)
          PROVE  \A j : Joined(j)' = Joined(j)
      <4>1. \A c \in Callers : /\ call'[c].pc = call[c].pc
                               /\ call[c].pc = "awaiting" =>
                                     /\ call'[c].key = call[c].key
                                     /\ call'[c].joined = call[c].joined
        <5> TAKE c \in Callers
        <5>1. CASE ~(call[c].pc = "awaiting" /\ call[c].key = k)
          BY <3>2, <5>1 DEF BackendIO
        <5>2. CASE call[c].pc = "awaiting" /\ call[c].key = k
          <6>1. call[c] \in [pc : {"awaiting"}, op : {"get", "put", "evict"}, key : Keys,
                             gen : Nat, joined : BOOLEAN, retry : BOOLEAN,
                             seen : SUBSET MaybeValue]
            BY <5>2 DEF TypeOK, CallSet
          <6>2. call'[c] = [call[c] EXCEPT !.seen = @ \cup {backend'[k]}]
            BY <3>2, <5>2 DEF BackendIO
          <6> QED
            BY <6>1, <6>2
        <5> QED
          BY <5>1, <5>2
      <4> QED
        BY <4>1 DEF Joined
    <3> QED
      BY <1>7, <3>1, <3>2 DEF Task, TaskFinish
  <2> QED
    BY <2>1, <2>2 DEF WaitersCounted, Joined
<1>8. CASE Close \/ Quiet \/ UNCHANGED vars
  <2>1. UNCHANGED <<call, waiters>>
    BY <1>8 DEF Close, CloseBegin, CloseIdle, CloseBackend, Quiet, vars, entryVars
  <2> QED
    BY <2>1 DEF WaitersCounted
<1> QED
  BY <1>4, <1>6, <1>7, <1>8 DEF Next

\* waiters is exact for any number of callers, whichever of them are cancelled:
\* the clamp at zero in the finally clause never hides a lost count.
THEOREM ExactWaiters == Spec => []WaitersCounted
<1>1. Init => WaitersCounted
  <2> SUFFICES ASSUME Init, NEW k \in Keys PROVE waiters[k] = Cardinality(Joined(k))
    BY DEF WaitersCounted, Joined
  <2>1. Joined(k) = {}
    BY DEF Init, Joined
  <2> QED
    BY <2>1, FS_EmptySet DEF Init
<1> QED
  BY <1>1, CountedNext, TypeCorrect, PTL DEF Spec
=============================================================================
