-------------------------- MODULE InferenceWorker --------------------------
(***************************************************************************)
(* InferenceWorker, GenerationHandle and GenerationEventQueue              *)
(* (nanovllm/serve/engine_worker.py) with the handlers that use them       *)
(* (nanovllm/serve/app.py): HTTP handlers on an event loop, one engine     *)
(* thread, and whoever starts and stops it.                                *)
(*                                                                         *)
(* The engine is what the worker sees of it: a set of requests it holds,   *)
(* steps that give some of them a token and finish some, and calls that    *)
(* may raise.  Requests of one batch are visited in any order.  Text is    *)
(* counted in tokens: after n tokens, some prefix of at most n is stable.  *)
(***************************************************************************)
EXTENDS Integers, Sequences, FiniteSets, Functions

CONSTANTS
    Requests,         \* HTTP requests
    Streaming,        \* those with stream=True
    NoRequest,        \* none of them
    Stop,             \* _STOP
    MaxTokens,        \* sampling_params.max_tokens of each request
    MaxControlCalls,  \* bound on calls of start and stop
    MaxStranded       \* bound on requests whose cancel_request raises and is logged

ASSUME RequestsAssumption ==
    /\ Streaming \subseteq Requests
    /\ NoRequest \notin Requests /\ Stop \notin Requests
ASSUME WorkerBoundsAssumption ==
    MaxTokens \in [Requests -> Nat \ {0}] /\ MaxControlCalls \in Nat /\ MaxStranded \in Nat

VARIABLES
    incoming,    \* _incoming
    pc,          \* where _run is; "none" when the thread is not alive
    stopping,    \* _run's local
    active,      \* _run's active: request -> its tokens, and how many are emitted
    todo,        \* what the loop at hand has still to visit
    outputs,     \* finished requests of the step still to be popped
    popped,      \* the active entry that _finish works on
    unwoken,     \* request whose waiters the last put has not woken yet
    engine,      \* requests the engine holds
    cancelled,   \* handles whose cancelled event is set
    sent,        \* events put on each handle's queue
    taken,       \* how many of them the handler has taken
    http,        \* where each handler is
    woken,       \* handlers whose waiter future is done
    control,     \* _thread is None ("idle"), set ("up"), stop() joining
    controlCalls,
    \* ghosts: requests whose _finish raised, requests the engine kept because
    \* cancel_request raised, requests kept by the last step although cancelled
    dropped, stranded, late

handleVars == <<cancelled, sent, taken, http, woken, unwoken>>
threadVars == <<pc, stopping, active, todo, outputs, popped>>
controlVars == <<control, controlCalls>>
ghostVars  == <<dropped, stranded, late>>
vars == <<incoming, threadVars, engine, handleVars, controlVars, ghostVars>>

Handle == INSTANCE EventStream WITH Lengths <- UNION {0..MaxTokens[r] : r \in Requests}

IsAlive == pc # "none"

Init ==
    /\ incoming = <<>>
    /\ pc = "none" /\ stopping = FALSE
    /\ active = <<>> /\ todo = {} /\ outputs = {} /\ popped = <<>>
    /\ unwoken = NoRequest
    /\ engine = {}
    /\ cancelled = {} /\ Handle!Init
    /\ taken = [r \in Requests |-> 0]
    /\ http = [r \in Requests |-> "new"]
    /\ woken = {}
    /\ control = "idle" /\ controlCalls = 0
    /\ dropped = {} /\ stranded = {} /\ late = {}

---------------------------------------------------------------------------
(* start and stop *)

\* start() of a worker whose thread is not alive.
Start ==
    /\ ~IsAlive /\ control # "joining" /\ controlCalls < MaxControlCalls
    /\ pc' = "boot" /\ control' = "up" /\ controlCalls' = controlCalls + 1
    /\ UNCHANGED <<incoming, stopping, active, todo, outputs, popped, engine,
                   handleVars, ghostVars>>

\* A thread that is already dead leaves the marker in the queue.  Whoever calls
\* while an earlier stop() is joining a live thread saw that one time out.
StopCalled ==
    /\ control # "idle"
    /\ control = "joining" => IsAlive
    /\ controlCalls < MaxControlCalls
    /\ incoming' = Append(incoming, Stop)
    /\ control' = "joining" /\ controlCalls' = controlCalls + 1
    /\ UNCHANGED <<threadVars, engine, handleVars, ghostVars>>

\* The thread has ended: _thread = None, unless join had timed out before.
StopReturns ==
    /\ control = "joining" /\ ~IsAlive
    /\ control' \in {"idle", "up"}
    /\ UNCHANGED <<incoming, threadVars, engine, handleVars, controlCalls,
                   ghostVars>>

---------------------------------------------------------------------------
(* HTTP handlers: chat_completions, submit and get_async *)

At(r, from, to) == http[r] = from /\ http' = [http EXCEPT ![r] = to]

\* The checks of submit: the request itself, then that the worker is alive.
CheckRequest(r) ==
    /\ \/ At(r, "new", "refused")
       \/ IsAlive /\ At(r, "new", "checked")
    /\ UNCHANGED <<incoming, cancelled, sent, taken, woken>>

\* _incoming.put, which ends submit; the body of a streaming response has not been started.
Enqueue(r) ==
    /\ At(r, "checked", IF r \in Streaming THEN "response" ELSE "read")
    /\ incoming' = Append(incoming, r)
    /\ UNCHANGED <<cancelled, sent, taken, woken>>

StartBody(r) ==
    /\ At(r, "response", "read")
    /\ UNCHANGED <<incoming, cancelled, sent, taken, woken>>

\* The future of this wait is discarded.
Unregister(r) == woken' = woken \ {r}

\* get_async: registers a new future, then looks at the queue.  What the
\* engine thread does between the two could as well come before both.
Look(r) ==
    /\ \/ /\ taken[r] = Len(sent[r])
          /\ At(r, "read", "empty")
          /\ UNCHANGED <<cancelled, taken>>
       \/ /\ taken[r] < Len(sent[r])
          /\ taken' = [taken EXCEPT ![r] = @ + 1]
          /\ LET kind == sent[r][taken[r] + 1].kind
             IN  /\ At(r, "read", IF kind = "delta" THEN "read" ELSE "done")
                 /\ cancelled' = IF kind \in {"failed", "cancelled"}
                                 THEN cancelled \cup {r} ELSE cancelled
    /\ UNCHANGED <<incoming, sent, woken>>

Await(r) ==
    /\ At(r, "empty", "await")
    /\ UNCHANGED <<incoming, cancelled, sent, taken, woken>>

Wakes(r) ==
    /\ r \in woken
    /\ At(r, "await", "read") /\ Unregister(r)
    /\ UNCHANGED <<incoming, cancelled, sent, taken>>

\* wait_for gives up; only the non-streaming handler uses it.
WaitTimesOut(r) ==
    /\ r \notin Streaming
    /\ At(r, "await", "read") /\ Unregister(r)
    /\ UNCHANGED <<incoming, cancelled, sent, taken>>

\* The finally of a handler that did not complete; it does not run when the
\* body was never started.
Disconnect(r) ==
    /\ \/ At(r, "read", "gone") /\ cancelled' = cancelled \cup {r}
       \/ r \in Streaming /\ At(r, "await", "gone") /\ cancelled' = cancelled \cup {r}
       \/ At(r, "response", "gone") /\ UNCHANGED cancelled
    /\ Unregister(r)
    /\ UNCHANGED <<incoming, sent, taken>>

\* What a handler does of its own accord.
Proceeds(r) ==
    /\ \/ Enqueue(r) \/ StartBody(r) \/ Look(r) \/ Await(r) \/ Wakes(r)
    /\ UNCHANGED <<threadVars, engine, controlVars, ghostVars, unwoken>>

Handler(r) ==
    \/ Proceeds(r)
    \/ /\ CheckRequest(r) \/ WaitTimesOut(r) \/ Disconnect(r)
       /\ UNCHANGED <<threadVars, engine, controlVars, ghostVars, unwoken>>

---------------------------------------------------------------------------
(* put: the item is queued, then the registered waiters are woken *)

\* Slip: the queue is checked before the waiter is registered.
RegisteredAfterLook(r) == http[r] = "await"

Registered(r) == http[r] \in {"empty", "await"}

Put(r, event) ==
    /\ Handle!Put(r, event)
    /\ unwoken' = r

PutFinal(r, kind) == Put(r, [kind |-> kind, from |-> 0, to |-> 0])

Notify ==
    /\ unwoken # NoRequest
    /\ woken' = IF Registered(unwoken) THEN woken \cup {unwoken} ELSE woken
    /\ unwoken' = NoRequest
    /\ UNCHANGED <<incoming, threadVars, engine, controlVars, ghostVars,
                   cancelled, sent, taken, http>>

NoPut == UNCHANGED <<sent, unwoken>>

---------------------------------------------------------------------------
(* The engine thread: _run *)

\* engine_factory returns or raises.
Boot ==
    /\ pc = "boot"
    /\ pc' \in {"drain", "none"}
    /\ NoPut
    /\ UNCHANGED <<incoming, stopping, active, todo, outputs, popped,
                   engine, ghostVars>>

Admit(r) ==
    \/ /\ r \in cancelled
       /\ PutFinal(r, "cancelled")
       /\ UNCHANGED <<active, engine>>
    \/ /\ r \notin cancelled
       /\ PutFinal(r, "failed")
       /\ UNCHANGED <<active, engine>>
    \/ /\ r \notin cancelled
       /\ active' = [q \in DOMAIN active \cup {r} |->
                        IF q = r THEN [tokens |-> 0, emitted |-> 0] ELSE active[q]]
       /\ engine' = engine \cup {r}
       /\ NoPut

\* Blocks for the first item when nothing is active; an empty poll of the
\* idle thread changes nothing.
DrainIncoming ==
    /\ pc \in {"drain", "more"}
    /\ \/ /\ incoming # <<>> /\ Head(incoming) = Stop
          /\ incoming' = Tail(incoming)
          /\ stopping' = TRUE /\ pc' = "cancel"
          /\ NoPut /\ UNCHANGED <<active, engine>>
       \/ /\ incoming # <<>> /\ Head(incoming) # Stop
          /\ incoming' = Tail(incoming)
          /\ Admit(Head(incoming))
          /\ pc' = "more" /\ UNCHANGED stopping
       \/ /\ incoming = <<>>
          /\ pc = "more" \/ DOMAIN active # {}
          /\ pc' = "cancel"
          /\ NoPut /\ UNCHANGED <<incoming, stopping, active, engine>>
    /\ UNCHANGED <<todo, outputs, popped, ghostVars>>

Drop(r) == active' = Restrict(active, DOMAIN active \ {r})

\* Leaves the loop for the finally clause.
BeginClosing == pc' = "closing" /\ todo' = DOMAIN active

BeginFailing == pc' = "failing" /\ todo' = DOMAIN active

CancelOne ==
    /\ pc = "cancel"
    /\ \E r \in DOMAIN active \cap cancelled :
          \/ /\ engine' = engine \ {r} /\ Drop(r)
             /\ PutFinal(r, "cancelled")
             /\ UNCHANGED <<pc, todo>>
          \/ /\ BeginClosing                       \* cancel_request raises
             /\ NoPut /\ UNCHANGED <<engine, active>>
    /\ UNCHANGED <<incoming, stopping, outputs, popped, ghostVars>>

\* Slip: the loop may end before it has cancelled every request it should.
CancelEndEarly ==
    /\ pc = "cancel"
    /\ \/ stopping /\ BeginClosing
       \/ /\ ~stopping
          /\ pc' = IF DOMAIN active = {} THEN "drain" ELSE "step"
          /\ UNCHANGED todo
    /\ NoPut
    /\ UNCHANGED <<incoming, stopping, active, outputs, popped, engine, ghostVars>>

\* A handle cancelled after the loop has passed it is as good as cancelled after
\* the loop.
CancelEnd ==
    /\ pc = "cancel" /\ DOMAIN active \cap cancelled = {}
    /\ \/ stopping /\ BeginClosing
       \/ /\ ~stopping
          /\ pc' = IF DOMAIN active = {} THEN "drain" ELSE "step"
          /\ UNCHANGED todo
    /\ NoPut
    /\ UNCHANGED <<incoming, stopping, active, outputs, popped, engine, ghostVars>>

\* engine.step: T get a token, F of them finish.
Step(T, F) ==
    /\ pc = "step"
    /\ F \subseteq T
    /\ \A r \in T \cap DOMAIN active : active[r].tokens + 1 = MaxTokens[r] => r \in F
    /\ engine' = engine \ F
    /\ late' = engine' \cap cancelled
    /\ pc' = "events" /\ todo' = T /\ outputs' = F
    /\ NoPut
    /\ UNCHANGED <<incoming, stopping, active, popped, dropped, stranded>>

\* step raises, before the batch ran or after postprocess finished F.
StepRaises(F) ==
    /\ pc = "step"
    /\ engine' = engine \ F
    /\ late' = engine' \cap cancelled
    /\ BeginFailing
    /\ NoPut
    /\ UNCHANGED <<incoming, stopping, active, outputs, popped, dropped, stranded>>

\* Slip: emitted_text is not advanced.
TokenEventRepeats(r) ==
    LET tokens == active[r].tokens + 1
    IN  /\ active' = [active EXCEPT ![r].tokens = tokens]
        /\ IF r \in Streaming
           THEN Put(r, [kind |-> "delta", from |-> active[r].emitted, to |-> tokens])
           ELSE NoPut

\* The text is stable up to some of the tokens; no further than it was emitted
\* when it does not begin with what was emitted.
TokenEvent(r) ==
    LET tokens == active[r].tokens + 1
    IN  \/ /\ r \notin Streaming
           /\ active' = [active EXCEPT ![r].tokens = tokens]
           /\ NoPut
        \/ /\ r \in Streaming
           /\ \E stable \in active[r].emitted..tokens :
                 /\ active' = [active EXCEPT ![r] = [tokens |-> tokens, emitted |-> stable]]
                 /\ IF stable > active[r].emitted
                    THEN Put(r, [kind |-> "delta", from |-> active[r].emitted, to |-> stable])
                    ELSE NoPut

TakeStepTokenEvents ==
    /\ pc = "events"
    /\ \E r \in todo :
          /\ todo' = todo \ {r}
          /\ \/ r \in DOMAIN active /\ TokenEvent(r)
             \/ r \notin DOMAIN active /\ NoPut /\ UNCHANGED active
    /\ UNCHANGED <<incoming, pc, stopping, outputs, popped, engine, ghostVars>>

\* tokenizer.decode raises.
DecodeRaises ==
    /\ pc = "events" /\ todo \cap DOMAIN active \cap Streaming # {}
    /\ BeginFailing
    /\ NoPut
    /\ UNCHANGED <<incoming, stopping, active, outputs, popped, engine, ghostVars>>

PopOutput ==
    /\ pc = "events" /\ todo = {} /\ DOMAIN popped = {}
    /\ \E r \in outputs :
          /\ outputs' = outputs \ {r}
          /\ popped' = Restrict(active, DOMAIN active \cap {r})
          /\ Drop(r)
    /\ NoPut
    /\ UNCHANGED <<incoming, pc, stopping, todo, engine, ghostVars>>

\* _finish: the rest of the text, then the final event.  A text that does not
\* begin with what was emitted has no tail.
FinishTail ==
    \E r \in DOMAIN popped \cap Streaming :
        /\ popped[r].emitted < popped[r].tokens
        /\ Put(r, [kind |-> "delta", from |-> popped[r].emitted, to |-> popped[r].tokens])
        /\ popped' = [popped EXCEPT ![r].emitted = popped[r].tokens]
        /\ UNCHANGED <<incoming, pc, stopping, active, todo, outputs, engine, ghostVars>>

FinishEnd ==
    \E r \in DOMAIN popped :
        /\ \/ /\ r \in Streaming => popped[r].emitted = popped[r].tokens
              /\ Put(r, [kind |-> "finished", from |-> 0, to |-> popped[r].tokens])
           \/ /\ r \in Streaming /\ popped[r].emitted \in 1..(popped[r].tokens - 1)
              /\ Put(r, [kind |-> "diverged", from |-> 0, to |-> popped[r].tokens])
        /\ popped' = <<>>
        /\ UNCHANGED <<incoming, pc, stopping, active, todo, outputs, engine, ghostVars>>

\* The request is no longer in active: _fail_active does not report it.
FinishRaises ==
    /\ DOMAIN popped # {}
    /\ dropped' = dropped \cup DOMAIN popped
    /\ popped' = <<>>
    /\ BeginFailing
    /\ NoPut
    /\ UNCHANGED <<incoming, stopping, active, outputs, engine, stranded, late>>

OutputsEnd ==
    /\ pc = "events" /\ todo = {} /\ outputs = {} /\ DOMAIN popped = {}
    /\ pc' = "drain"
    /\ NoPut
    /\ UNCHANGED <<incoming, stopping, active, todo, outputs, popped, engine,
                   ghostVars>>

\* Slip: the engine is not told.
CancelNothing(r) == UNCHANGED <<engine, stranded>>

CancelOrLog(r) ==
    \/ engine' = engine \ {r} /\ UNCHANGED stranded
    \/ /\ r \in engine /\ Cardinality(stranded) < MaxStranded
       /\ stranded' = stranded \cup {r} /\ UNCHANGED engine

\* _fail_active and the finally clause: one active request at a time.
Abandon(r, kind) ==
    /\ r \in todo /\ todo' = todo \ {r}
    /\ CancelOrLog(r)
    /\ PutFinal(r, kind)
    /\ UNCHANGED <<incoming, pc, stopping, active, outputs, popped,
                   dropped, late>>

FailOne == pc = "failing" /\ \E r \in todo : Abandon(r, "failed")

FailEnd ==
    /\ pc = "failing" /\ todo = {}
    /\ active' = <<>> /\ outputs' = {} /\ pc' = "drain"
    /\ NoPut
    /\ UNCHANGED <<incoming, stopping, todo, popped, engine, ghostVars>>

CloseOne == pc = "closing" /\ \E r \in todo : Abandon(r, "cancelled")

\* engine.exit; the thread ends.
CloseEnd ==
    /\ pc = "closing" /\ todo = {}
    /\ engine' = {} /\ active' = <<>> /\ stopping' = FALSE /\ pc' = "none"
    /\ NoPut
    /\ UNCHANGED <<incoming, todo, outputs, popped, ghostVars>>

EngineThread ==
    \/ Notify
    \/ /\ unwoken = NoRequest
       /\ \/ Boot \/ DrainIncoming \/ CancelOne \/ CancelEnd
          \/ \E T, F \in SUBSET engine : Step(T, F)
          \/ \E F \in SUBSET engine : StepRaises(F)
          \/ TakeStepTokenEvents \/ DecodeRaises
          \/ PopOutput \/ FinishTail \/ FinishEnd \/ FinishRaises \/ OutputsEnd
          \/ FailOne \/ FailEnd \/ CloseOne \/ CloseEnd
       /\ UNCHANGED <<cancelled, taken, http, woken, controlVars>>

Next ==
    \/ Start \/ StopCalled \/ StopReturns
    \/ \E r \in Requests : Handler(r)
    \/ EngineThread

Spec == Init /\ [][Next]_vars

\* Assumed of the engine: a request that stays in it gets its next token, as
\* strong fairness of the steps that run it.  The scheduler's liveness run shows
\* it for FCFS.
Runs(r) == pc = "step" /\ pc' = "events" /\ r \in todo'
TokensArrive(r) == []<>(pc = "step" /\ r \in engine) => []<><<Runs(r)>>_vars

\* The engine thread and the event loop keep running.
FairSpec ==
    /\ Spec
    /\ WF_vars(EngineThread)
    /\ \A r \in Requests :
          /\ WF_vars(Proceeds(r))
          /\ TokensArrive(r)

---------------------------------------------------------------------------
(* Properties *)

\* The events put on a handle's queue, whatever is cancelled, raises or stops
\* in between, are text without gap or repeat and at most one final event; one that
\* finishes has sent all of its text, or decoding has changed what was sent.
ImplementsEventStream == Handle!Spec

\* Between two rounds the engine holds exactly the requests that active holds:
\* no request keeps its KV pages after its final event (except when
\* cancel_request itself raised), and none waits for a sequence that is gone.
EngineHoldsActive ==
    /\ pc \in {"drain", "step"} => engine \ stranded = DOMAIN active
    /\ pc = "none" => engine = {} /\ DOMAIN active = {}

\* A cancel is noticed before the step after next: the engine computes at most
\* one step for a request whose client has left.
CancelledRunsOneMoreStep ==
    pc = "step" => late \cap engine \subseteq stranded

\* The handler of a queued request ends, unless _finish raised for it or the
\* thread ended with the request still in the queue: no wake-up is lost
\* between a put and a handler about to wait.
EveryRequestEnds ==
    \A r \in Requests :
        http[r] \in {"response", "read"}
          ~> \/ http[r] \in {"done", "gone"}
             \/ r \in dropped
             \/ pc = "none" /\ \E i \in DOMAIN incoming : incoming[i] = r
=============================================================================
