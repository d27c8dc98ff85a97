----------------------- MODULE InferenceWorkerProofs -----------------------
(***************************************************************************)
(* Proofs about InferenceWorker, for any set of requests, any token limits *)
(* and any number of starts and stops: between two rounds the engine holds *)
(* what active holds, a cancelled request gets at most one more step, the  *)
(* queue of every handle is a well-formed event stream, and no wake-up is  *)
(* lost.                                                                   *)
(***************************************************************************)
EXTENDS InferenceWorker, SequenceTheorems, TLAPS

Entry == [tokens : Nat, emitted : Nat]

Event == [kind : {"delta"} \cup Handle!Final, from : Nat, to : Nat]

Item == Requests \cup {Stop}

\* Before the put that ends submit.
Early == {"new", "refused", "checked"}

\* Where _run may have left the loop with some active requests given up already.
GivingUp == {"failing", "closing"}

\* Between two iterations of the loop's three phases.
Rounds == {"drain", "more", "cancel", "step"}

TypeOK ==
    /\ incoming \in Seq(Item)
    /\ pc \in {"none", "boot", "events"} \cup Rounds \cup GivingUp
    /\ active \in [DOMAIN active -> Entry] /\ DOMAIN active \subseteq Requests
    /\ popped \in [DOMAIN popped -> Entry] /\ DOMAIN popped \subseteq Requests
    /\ todo \subseteq Requests /\ outputs \subseteq Requests
    /\ engine \subseteq Requests /\ stranded \subseteq Requests
    /\ cancelled \subseteq Requests /\ late \subseteq cancelled
    /\ sent \in [Requests -> Seq(Event)]
    /\ taken \in [Requests -> Nat]
    /\ http \in [Requests -> Early \cup {"response", "read", "empty", "await",
                                         "done", "gone"}]
    /\ unwoken \in Requests \cup {NoRequest}

\* Requests the thread has taken from the queue and still has, or left behind.
Held == DOMAIN active \cup DOMAIN popped \cup stranded

\* Nothing was done for this request yet.
Fresh(r) == r \notin Held /\ sent[r] = <<>>

\* A request passes through the queue once: it is enqueued by its handler,
\* and the thread has not seen it before it takes it from there.
Once ==
    /\ \A r \in Requests : http[r] \in Early => Fresh(r)
    /\ \A i \in DOMAIN incoming : incoming[i] \in Requests =>
          /\ http[incoming[i]] \notin Early /\ Fresh(incoming[i])
          /\ \A j \in DOMAIN incoming : incoming[j] = incoming[i] => j = i
    /\ DOMAIN active \cap DOMAIN popped = {}
    /\ DOMAIN popped # {} => pc = "events" /\ todo = {}

\* What the engine holds in each phase of _run.
EngineInv ==
    /\ pc \in {"none", "boot"} => engine = {} /\ DOMAIN active = {}
    /\ pc \in Rounds => engine \ stranded = DOMAIN active
    /\ pc = "events" => engine \ stranded = DOMAIN active \ outputs
    /\ pc \in GivingUp => engine \ stranded \subseteq todo /\ todo \subseteq DOMAIN active
    /\ pc \notin GivingUp => DOMAIN active \cap stranded = {}
    /\ pc \in GivingUp => todo \cap stranded = {}

\* Requests that the thread still owes their final event.
Owed == DOMAIN popped \cup (IF pc \in GivingUp THEN todo ELSE DOMAIN active)

entryOf(r) == IF r \in DOMAIN popped THEN popped[r] ELSE active[r]

\* What was put for them so far is the text up to emitted.
TextInv ==
    \A r \in Owed :
        /\ ~Handle!Ended(r)
        /\ r \in Streaming => Handle!TextEnd(r) = entryOf(r).emitted

\* No request outgrows max_tokens: one that reaches it is in the outputs.
LimitInv ==
    /\ \A r \in DOMAIN popped : popped[r].tokens <= MaxTokens[r]
    /\ \A r \in DOMAIN active :
          /\ active[r].tokens <= MaxTokens[r]
          /\ pc \notin GivingUp =>
                \/ active[r].tokens < MaxTokens[r]
                \/ pc = "events" /\ r \in outputs /\ r \notin todo
          /\ pc = "events" /\ r \in todo /\ active[r].tokens + 1 = MaxTokens[r]
                => r \in outputs

\* A registered waiter that has something to take is woken or about to be.
NoLostWakeup ==
    \A r \in Requests :
        Registered(r) /\ taken[r] < Len(sent[r]) => r \in woken \/ unwoken = r

IndInv ==
    /\ TypeOK
    /\ Once
    /\ EngineInv
    /\ CancelledRunsOneMoreStep
    /\ TextInv
    /\ LimitInv
    /\ NoLostWakeup

---------------------------------------------------------------------------
(* The operations on active and on the queues *)

LEMMA DropEntry ==
    ASSUME NEW r, active \in [DOMAIN active -> Entry], Drop(r)
    PROVE  /\ DOMAIN active' = DOMAIN active \ {r}
           /\ \A q \in DOMAIN active' : active'[q] = active[q]
           /\ active' \in [DOMAIN active' -> Entry]
  BY DEF Drop, Restrict

LEMMA EmptyMap == DOMAIN <<>> = {} /\ <<>> \in [DOMAIN <<>> -> Entry]
  OBVIOUS

LEMMA PutEvent ==
    ASSUME TypeOK, NEW r \in Requests, NEW e \in Event, Put(r, e)
    PROVE  /\ sent' \in [Requests -> Seq(Event)]
           /\ sent'[r] # <<>> /\ Len(sent'[r]) = Len(sent[r]) + 1
           /\ sent'[r][Len(sent'[r])] = e
           /\ \A q \in Requests \ {r} : sent'[q] = sent[q]
           /\ unwoken' = r
<1>1. sent \in [Requests -> Seq(Event)] /\ sent' = [sent EXCEPT ![r] = Append(@, e)]
  BY DEF TypeOK, Put, Handle!Put
<1>2. sent[r] \in Seq(Event)
  BY <1>1
<1>3. /\ Append(sent[r], e) \in Seq(Event)
      /\ Len(Append(sent[r], e)) = Len(sent[r]) + 1
      /\ Append(sent[r], e)[Len(sent[r]) + 1] = e
      /\ Append(sent[r], e) # <<>>
  BY <1>2, AppendProperties
<1> QED
  BY <1>1, <1>3 DEF Put

\* Where a handler may be.
Places == Early \cup {"response", "read", "empty", "await", "done", "gone"}

\* What every step of a handler leaves alone, and how it moves.
LEMMA HandlerFrame ==
    ASSUME TypeOK, NEW r \in Requests, Handler(r)
    PROVE  /\ UNCHANGED <<threadVars, engine, controlVars, ghostVars, unwoken, sent>>
           /\ \/ /\ incoming' = incoming
                 /\ http[r] \notin Early => http'[r] \notin Early
              \/ /\ incoming' = Append(incoming, r)
                 /\ http[r] \in Early /\ http'[r] \notin Early
           /\ http' \in [Requests -> Places]
           /\ \A q \in Requests \ {r} : http'[q] = http[q]
           /\ cancelled \subseteq cancelled' /\ cancelled' \subseteq Requests
           /\ taken' \in [Requests -> Nat]
           /\ http'[r] \in Early => http[r] \in Early
<1>1. http \in [Requests -> Places] /\ cancelled \subseteq Requests
      /\ taken \in [Requests -> Nat]
  BY DEF TypeOK, Places
<1>2. /\ UNCHANGED <<threadVars, engine, controlVars, ghostVars, unwoken>>
      /\ \/ CheckRequest(r) \/ Enqueue(r) \/ StartBody(r) \/ Look(r)
         \/ Await(r) \/ Wakes(r) \/ WaitTimesOut(r) \/ Disconnect(r)
  BY DEF Handler, Proceeds
<1>3. CASE CheckRequest(r)
  BY <1>1, <1>2, <1>3 DEF CheckRequest, At, Early, Places
<1>4. CASE Enqueue(r)
  BY <1>1, <1>2, <1>4 DEF Enqueue, At, Early, Places
<1>5. CASE StartBody(r) \/ Await(r) \/ Wakes(r) \/ WaitTimesOut(r) \/ Disconnect(r)
  BY <1>1, <1>2, <1>5
     DEF StartBody, Await, Wakes, WaitTimesOut, Disconnect, At, Early, Places
<1>6. CASE Look(r)
  BY <1>1, <1>2, <1>6 DEF Look, At, Early, Places
<1> QED
  BY <1>2, <1>3, <1>4, <1>5, <1>6

\* What every step of the engine thread leaves alone.
ThreadFrame == UNCHANGED <<cancelled, taken, http, woken, controlVars>>

\* The steps of _run and what may be put by them.
LEMMA ThreadSteps ==
    ASSUME EngineThread, ~Notify
    PROVE  /\ unwoken = NoRequest /\ ThreadFrame
           /\ \/ Boot \/ DrainIncoming \/ CancelOne \/ CancelEnd
              \/ \E T, F \in SUBSET engine : Step(T, F)
              \/ \E F \in SUBSET engine : StepRaises(F)
              \/ TakeStepTokenEvents \/ DecodeRaises
              \/ PopOutput \/ FinishTail \/ FinishEnd \/ FinishRaises \/ OutputsEnd
              \/ FailOne \/ FailEnd \/ CloseOne \/ CloseEnd
  BY DEF EngineThread, ThreadFrame

LEMMA FinalEvent ==
    ASSUME NEW kind \in Handle!Final, NEW n \in Nat
    PROVE  [kind |-> kind, from |-> 0, to |-> n] \in Event
  BY DEF Event

\* Admit either answers at once or adds an entry.
LEMMA AdmitCases ==
    ASSUME TypeOK, NEW r \in Requests, Admit(r)
    PROVE  \/ /\ UNCHANGED <<active, engine>>
              /\ \E kind \in {"failed", "cancelled"} : PutFinal(r, kind)
           \/ /\ NoPut /\ engine' = engine \cup {r} /\ r \notin cancelled
              /\ DOMAIN active' = DOMAIN active \cup {r}
              /\ active' \in [DOMAIN active' -> Entry]
              /\ active'[r] = [tokens |-> 0, emitted |-> 0]
              /\ \A q \in DOMAIN active \ {r} : active'[q] = active[q]
<1>1. active \in [DOMAIN active -> Entry]
  BY DEF TypeOK
<1> QED
  BY <1>1 DEF Admit, Entry

LEMMA PutFinalEvent ==
    ASSUME TypeOK, NEW r \in Requests, NEW kind \in {"failed", "cancelled"},
           PutFinal(r, kind)
    PROVE  /\ sent' \in [Requests -> Seq(Event)]
           /\ sent'[r] # <<>> /\ Len(sent'[r]) = Len(sent[r]) + 1
           /\ sent'[r][Len(sent'[r])].kind = kind
           /\ \A q \in Requests \ {r} : sent'[q] = sent[q]
           /\ unwoken' = r
<1>1. [kind |-> kind, from |-> 0, to |-> 0] \in Event
  BY FinalEvent DEF Handle!Final
<1> QED
  BY <1>1, PutEvent DEF PutFinal

\* TokenEvent counts the token and, for a stream, moves emitted to what it put.
LEMMA TokenEventCases ==
    ASSUME TypeOK, NEW r \in DOMAIN active, TokenEvent(r)
    PROVE  \E stable \in Nat :
              /\ active' = [active EXCEPT ![r] =
                               [tokens |-> active[r].tokens + 1, emitted |-> stable]]
              /\ active' \in [DOMAIN active -> Entry] /\ DOMAIN active' = DOMAIN active
              /\ stable = active[r].emitted \/ stable <= active[r].tokens + 1
              /\ \/ stable = active[r].emitted /\ NoPut
                 \/ /\ r \in Streaming /\ stable > active[r].emitted
                    /\ [kind |-> "delta", from |-> active[r].emitted, to |-> stable]
                          \in Event
                    /\ Put(r, [kind |-> "delta", from |-> active[r].emitted,
                               to |-> stable])
<1>1. /\ active \in [DOMAIN active -> Entry] /\ active[r] \in Entry
      /\ active[r].tokens \in Nat /\ active[r].emitted \in Nat
  BY DEF TypeOK, Entry
<1>2. CASE /\ r \notin Streaming
           /\ active' = [active EXCEPT ![r].tokens = active[r].tokens + 1]
           /\ NoPut
  <2>1. [active[r] EXCEPT !.tokens = active[r].tokens + 1]
           = [tokens |-> active[r].tokens + 1, emitted |-> active[r].emitted]
    BY <1>1 DEF Entry
  <2>2. active' = [active EXCEPT ![r] = [tokens |-> active[r].tokens + 1,
                                         emitted |-> active[r].emitted]]
    BY <1>1, <1>2, <2>1
  <2>3. [tokens |-> active[r].tokens + 1, emitted |-> active[r].emitted] \in Entry
    BY <1>1 DEF Entry
  <2> QED
    BY <1>1, <1>2, <2>2, <2>3
<1>3. ASSUME r \in Streaming,
             NEW stable \in active[r].emitted..(active[r].tokens + 1),
             active' = [active EXCEPT ![r] = [tokens |-> active[r].tokens + 1,
                                              emitted |-> stable]],
             IF stable > active[r].emitted
               THEN Put(r, [kind |-> "delta", from |-> active[r].emitted, to |-> stable])
               ELSE NoPut
      PROVE  \E st \in Nat :
              /\ active' = [active EXCEPT ![r] =
                               [tokens |-> active[r].tokens + 1, emitted |-> st]]
              /\ active' \in [DOMAIN active -> Entry] /\ DOMAIN active' = DOMAIN active
              /\ st = active[r].emitted \/ st <= active[r].tokens + 1
              /\ \/ st = active[r].emitted /\ NoPut
                 \/ /\ r \in Streaming /\ st > active[r].emitted
                    /\ [kind |-> "delta", from |-> active[r].emitted, to |-> st]
                          \in Event
                    /\ Put(r, [kind |-> "delta", from |-> active[r].emitted,
                               to |-> st])
  <2>1. stable \in Nat /\ stable >= active[r].emitted /\ stable <= active[r].tokens + 1
    BY <1>1
  <2>2. [tokens |-> active[r].tokens + 1, emitted |-> stable] \in Entry
    BY <1>1, <2>1 DEF Entry
  <2>3. [kind |-> "delta", from |-> active[r].emitted, to |-> stable] \in Event
    BY <1>1, <2>1 DEF Event
  <2>4. active' \in [DOMAIN active -> Entry] /\ DOMAIN active' = DOMAIN active
    BY <1>1, <1>3, <2>2
  <2>5. \/ stable = active[r].emitted /\ NoPut
        \/ /\ stable > active[r].emitted
           /\ Put(r, [kind |-> "delta", from |-> active[r].emitted, to |-> stable])
    <3>1. stable > active[r].emitted \/ (~(stable > active[r].emitted)
                                         /\ stable = active[r].emitted)
      BY <1>1, <2>1
    <3> QED
      BY <1>3, <3>1, Zenon
  <2> QED
    BY <1>3, <2>1, <2>3, <2>4, <2>5, Zenon
<1> QED
  BY <1>2, <1>3 DEF TokenEvent

---------------------------------------------------------------------------
(* Types *)

LEMMA TypeStep ==
    ASSUME IndInv, [Next]_vars
    PROVE  TypeOK'
<1> USE RequestsAssumption, WorkerBoundsAssumption
<1>0. TypeOK /\ Once /\ EngineInv
  BY DEF IndInv
<1>1. CASE UNCHANGED vars
  BY <1>0, <1>1 DEF TypeOK, vars, threadVars, handleVars, ghostVars
<1>2. CASE Start \/ StopCalled \/ StopReturns
  <2>1. incoming' = incoming \/ incoming' = Append(incoming, Stop)
    BY <1>2 DEF Start, StopCalled, StopReturns
  <2>2. incoming \in Seq(Item) /\ Stop \in Item
    BY <1>0 DEF TypeOK, Item
  <2>3. incoming' \in Seq(Item)
    BY <2>1, <2>2, AppendProperties
  <2>4. pc' \in {pc, "boot"} /\ UNCHANGED <<active, todo, outputs, popped, engine,
                                            handleVars, ghostVars>>
    BY <1>2 DEF Start, StopCalled, StopReturns, threadVars
  <2> QED
    BY <1>0, <2>3, <2>4 DEF TypeOK, handleVars, ghostVars
<1>3. ASSUME NEW r \in Requests, Handler(r) PROVE TypeOK'
  <2>1. incoming \in Seq(Item) /\ r \in Item
    BY <1>0 DEF TypeOK, Item
  <2>2. incoming' = incoming \/ incoming' = Append(incoming, r)
    BY <1>0, <1>3, HandlerFrame
  <2>3. incoming' \in Seq(Item)
    BY <2>1, <2>2, AppendProperties
  <2> QED
    BY <1>0, <1>3, <2>3, HandlerFrame DEF TypeOK, Places, threadVars, ghostVars
<1>4. CASE Notify
  BY <1>0, <1>4 DEF Notify, TypeOK, threadVars, ghostVars
<1>5. CASE EngineThread /\ ~Notify
  <2>0. /\ unwoken = NoRequest /\ ThreadFrame
        /\ cancelled' = cancelled /\ taken' = taken /\ http' = http
    BY <1>5, ThreadSteps DEF ThreadFrame
  <2>1. CASE Boot \/ CancelEnd \/ DecodeRaises \/ OutputsEnd \/ FailEnd \/ CloseEnd
    BY <1>0, <2>0, <2>1, EmptyMap
       DEF Boot, CancelEnd, DecodeRaises, OutputsEnd, FailEnd, CloseEnd, TypeOK, NoPut,
           BeginClosing, BeginFailing, ghostVars, Rounds, GivingUp
  <2>2. CASE DrainIncoming
    <3>1. CASE incoming' = incoming /\ active' = active /\ engine' = engine
      BY <1>0, <2>0, <2>2, <3>1
         DEF DrainIncoming, Admit, TypeOK, NoPut, ghostVars, Rounds, GivingUp
    <3>2. CASE incoming # <<>>
      <4>1. incoming \in Seq(Item) /\ incoming \in Seq(Item) \ {<<>>}
        BY <1>0, <3>2 DEF TypeOK
      <4>2. Head(incoming) \in Item /\ Tail(incoming) \in Seq(Item)
        BY <4>1, HeadTailProperties
      <4>3. /\ UNCHANGED <<todo, outputs, popped, ghostVars>>
            /\ pc' \in {"cancel", "more"} /\ incoming' = Tail(incoming)
        BY <2>2, <3>2 DEF DrainIncoming
      <4>4. CASE Head(incoming) # Stop /\ Admit(Head(incoming))
        <5>1. Head(incoming) \in Requests
          BY <4>2, <4>4 DEF Item
        <5>2. CASE NoPut /\ engine' = engine \cup {Head(incoming)}
                   /\ DOMAIN active' = DOMAIN active \cup {Head(incoming)}
                   /\ active' \in [DOMAIN active' -> Entry]
          BY <1>0, <2>0, <4>2, <4>3, <5>1, <5>2 DEF TypeOK, NoPut, ghostVars, Rounds
        <5>3. CASE UNCHANGED <<active, engine>>
                   /\ \E kind \in {"failed", "cancelled"} : PutFinal(Head(incoming), kind)
          <6>1. /\ sent' \in [Requests -> Seq(Event)] /\ unwoken' = Head(incoming)
            BY <1>0, <5>1, <5>3, PutFinalEvent
          <6> QED
            BY <1>0, <2>0, <4>2, <4>3, <5>1, <5>3, <6>1 DEF TypeOK, ghostVars, Rounds
        <5> QED
          BY <1>0, <4>4, <5>1, <5>2, <5>3, AdmitCases
      <4>5. CASE NoPut /\ UNCHANGED <<active, engine>>
        BY <1>0, <2>0, <4>2, <4>3, <4>5 DEF TypeOK, NoPut, ghostVars, Rounds
      <4> QED
        BY <2>2, <3>2, <4>4, <4>5 DEF DrainIncoming
    <3> QED
      BY <2>2, <3>1, <3>2 DEF DrainIncoming
  <2>3. CASE CancelOne
    <3>1. PICK r \in DOMAIN active \cap cancelled :
             \/ /\ engine' = engine \ {r} /\ Drop(r)
                /\ PutFinal(r, "cancelled")
                /\ UNCHANGED <<pc, todo>>
             \/ BeginClosing /\ NoPut /\ UNCHANGED <<engine, active>>
      BY <2>3 DEF CancelOne
    <3>2. UNCHANGED <<incoming, stopping, outputs, popped, ghostVars>> /\ r \in Requests
      BY <1>0, <2>3 DEF CancelOne, TypeOK
    <3>3. CASE BeginClosing /\ NoPut /\ UNCHANGED <<engine, active>>
      BY <1>0, <2>0, <3>2, <3>3 DEF BeginClosing, TypeOK, NoPut, ghostVars, GivingUp
    <3>4. CASE engine' = engine \ {r} /\ Drop(r) /\ PutFinal(r, "cancelled")
               /\ UNCHANGED <<pc, todo>>
      <4>1. active \in [DOMAIN active -> Entry]
        BY <1>0 DEF TypeOK
      <4> QED
        BY <1>0, <2>0, <3>2, <3>4, <4>1, DropEntry, PutFinalEvent DEF TypeOK, ghostVars
    <3> QED
      BY <3>1, <3>3, <3>4
  <2>4. ASSUME NEW T \in SUBSET engine, NEW F \in SUBSET engine, Step(T, F)
        PROVE  TypeOK'
    BY <1>0, <2>0, <2>4 DEF Step, TypeOK, NoPut
  <2>5. ASSUME NEW F \in SUBSET engine, StepRaises(F)
        PROVE  TypeOK'
    BY <1>0, <2>0, <2>5 DEF StepRaises, TypeOK, NoPut, BeginFailing, GivingUp
  <2>6. CASE TakeStepTokenEvents
    <3>1. PICK r \in todo : /\ todo' = todo \ {r}
                            /\ \/ r \in DOMAIN active /\ TokenEvent(r)
                               \/ r \notin DOMAIN active /\ NoPut /\ UNCHANGED active
      BY <2>6 DEF TakeStepTokenEvents
    <3>2. UNCHANGED <<incoming, pc, stopping, outputs, popped, engine, ghostVars>>
      BY <2>6 DEF TakeStepTokenEvents
    <3>3. /\ active' \in [DOMAIN active' -> Entry] /\ DOMAIN active' = DOMAIN active
          /\ sent' \in [Requests -> Seq(Event)] /\ unwoken' \in Requests \cup {NoRequest}
      <4>1. CASE NoPut
        BY <1>0, <3>1, <4>1, TokenEventCases DEF TypeOK, NoPut
      <4>2. CASE r \in DOMAIN active /\ TokenEvent(r) /\ ~NoPut
        BY <1>0, <4>2, TokenEventCases, PutEvent DEF TypeOK
      <4> QED
        BY <3>1, <4>1, <4>2
    <3> QED
      BY <1>0, <2>0, <3>1, <3>2, <3>3 DEF TypeOK, ghostVars
  <2>7. CASE PopOutput
    <3>1. PICK r \in outputs : /\ outputs' = outputs \ {r} /\ Drop(r)
                               /\ popped' = Restrict(active, DOMAIN active \cap {r})
      BY <2>7 DEF PopOutput
    <3>2. active \in [DOMAIN active -> Entry]
      BY <1>0 DEF TypeOK
    <3>3. DOMAIN popped' = DOMAIN active \cap {r} /\ popped' \in [DOMAIN popped' -> Entry]
      BY <3>1, <3>2 DEF Restrict
    <3> QED
      BY <1>0, <2>0, <2>7, <3>1, <3>2, <3>3, DropEntry DEF PopOutput, TypeOK, NoPut, ghostVars
  <2>8. CASE FinishTail
    <3>1. PICK r \in DOMAIN popped \cap Streaming :
             /\ popped[r].emitted < popped[r].tokens
             /\ Put(r, [kind |-> "delta", from |-> popped[r].emitted,
                        to |-> popped[r].tokens])
             /\ popped' = [popped EXCEPT ![r].emitted = popped[r].tokens]
             /\ UNCHANGED <<incoming, pc, stopping, active, todo, outputs, engine, ghostVars>>
      BY <2>8 DEF FinishTail
    <3>2. /\ popped \in [DOMAIN popped -> Entry] /\ popped[r] \in Entry
          /\ popped[r].emitted \in Nat /\ popped[r].tokens \in Nat /\ r \in Requests
      BY <1>0 DEF TypeOK, Entry
    <3>3. popped' \in [DOMAIN popped' -> Entry] /\ DOMAIN popped' = DOMAIN popped
      BY <3>1, <3>2 DEF Entry
    <3>4. [kind |-> "delta", from |-> popped[r].emitted, to |-> popped[r].tokens] \in Event
      BY <3>2 DEF Event
    <3> QED
      BY <1>0, <2>0, <3>1, <3>2, <3>3, <3>4, PutEvent DEF TypeOK, ghostVars
  <2>9. CASE FinishEnd
    <3>1. PICK r \in DOMAIN popped :
             /\ \E kind \in {"finished", "diverged"} :
                   Put(r, [kind |-> kind, from |-> 0, to |-> popped[r].tokens])
             /\ popped' = <<>>
             /\ UNCHANGED <<incoming, pc, stopping, active, todo, outputs, engine, ghostVars>>
      BY <2>9 DEF FinishEnd
    <3>2. popped[r].tokens \in Nat /\ r \in Requests
      BY <1>0 DEF TypeOK, Entry
    <3>3. PICK kind \in {"finished", "diverged"} :
             Put(r, [kind |-> kind, from |-> 0, to |-> popped[r].tokens])
      BY <3>1
    <3>4. [kind |-> kind, from |-> 0, to |-> popped[r].tokens] \in Event
      BY <3>2, FinalEvent DEF Handle!Final
    <3> QED
      BY <1>0, <2>0, <3>1, <3>2, <3>3, <3>4, PutEvent, EmptyMap DEF TypeOK, ghostVars
  <2>10. CASE FinishRaises
    BY <1>0, <2>0, <2>10, EmptyMap DEF FinishRaises, TypeOK, NoPut, BeginFailing, GivingUp
  <2>11. CASE FailOne \/ CloseOne
    <3>1. PICK r \in todo, kind \in {"failed", "cancelled"} : Abandon(r, kind)
      BY <2>11 DEF FailOne, CloseOne
    <3>2. r \in Requests /\ PutFinal(r, kind)
      BY <1>0, <3>1 DEF TypeOK, Abandon
    <3> QED
      BY <1>0, <2>0, <3>1, <3>2, PutFinalEvent DEF TypeOK, Abandon, CancelOrLog
  <2> QED
    BY <1>5, <2>1, <2>2, <2>3, <2>4, <2>5, <2>6, <2>7, <2>8, <2>9, <2>10, <2>11,
       ThreadSteps
<1> QED
  BY <1>1, <1>2, <1>3, <1>4, <1>5 DEF Next, EngineThread

---------------------------------------------------------------------------
(* What a step must do to keep each part of the invariant *)

\* The rest of the invariant holds after the step, and the step is one of the
\* abstract event stream.
Kept ==
    /\ Once' /\ EngineInv' /\ CancelledRunsOneMoreStep' /\ TextInv' /\ LimitInv'
    /\ NoLostWakeup'
    /\ UNCHANGED sent \/ Handle!Next

LEMMA TailIndex ==
    ASSUME NEW S, NEW q \in Seq(S), q # <<>>
    PROVE  /\ 1 \in DOMAIN q /\ Head(q) = q[1]
           /\ \A i \in DOMAIN Tail(q) : /\ i \in Nat /\ i + 1 \in DOMAIN q /\ i + 1 # 1
                                        /\ Tail(q)[i] = q[i + 1]
<1>1. /\ Len(q) \in Nat /\ DOMAIN q = 1..Len(q) /\ Len(q) # 0
      /\ Tail(q) \in Seq(S) /\ Len(Tail(q)) = Len(q) - 1 /\ Head(q) = q[1]
      /\ \A i \in 1..Len(Tail(q)) : Tail(q)[i] = q[i + 1]
  BY HeadTailProperties, LenProperties, EmptySeq
<1>2. DOMAIN Tail(q) = 1..(Len(q) - 1)
  BY <1>1, LenProperties
<1> QED
  BY <1>1, <1>2

\* A step of the thread that touches only what it has, or has just taken
\* from the queue.
LEMMA OnceKept ==
    ASSUME TypeOK, Once, http' = http,
           incoming' = incoming \/ (incoming # <<>> /\ incoming' = Tail(incoming)),
           \A r \in Requests : \/ r \in Held
                               \/ incoming' # incoming /\ r = Head(incoming)
                               \/ r \notin Held' /\ sent'[r] = sent[r],
           DOMAIN active' \cap DOMAIN popped' = {},
           DOMAIN popped' # {} => pc' = "events" /\ todo' = {}
    PROVE  Once'
<1>1. incoming \in Seq(Item)
  BY DEF TypeOK
<1>2. ASSUME NEW r \in Requests, Fresh(r), incoming' = incoming \/ r # Head(incoming)
      PROVE  Fresh(r)'
  BY <1>2 DEF Fresh
<1>3. CASE incoming' = incoming
  BY <1>2, <1>3 DEF Once
<1>4. CASE incoming # <<>> /\ incoming' = Tail(incoming)
  <2>1. /\ 1 \in DOMAIN incoming /\ Head(incoming) = incoming[1]
        /\ \A i \in DOMAIN incoming' :
              /\ i \in Nat /\ i + 1 \in DOMAIN incoming /\ i + 1 # 1
              /\ incoming'[i] = incoming[i + 1]
    BY <1>1, <1>4, TailIndex
  <2>2. /\ \A r \in Requests : http[r] \in Early => Fresh(r)
        /\ \A i \in DOMAIN incoming : incoming[i] \in Requests =>
              http[incoming[i]] \notin Early /\ Fresh(incoming[i])
        /\ \A i, j \in DOMAIN incoming :
              incoming[i] \in Requests /\ incoming[j] = incoming[i] => j = i
    BY DEF Once
  <2>3. ASSUME NEW i \in DOMAIN incoming', incoming'[i] \in Requests
        PROVE  /\ http'[incoming'[i]] \notin Early
               /\ incoming'[i] \notin Held' /\ sent'[incoming'[i]] = <<>>
               /\ \A j \in DOMAIN incoming' : incoming'[j] = incoming'[i] => j = i
    <3>1. /\ i + 1 \in DOMAIN incoming /\ incoming'[i] = incoming[i + 1] /\ i \in Nat
          /\ i + 1 # 1
      BY <2>1, <2>3
    <3>2. incoming[i + 1] # Head(incoming)
      BY <2>1, <2>2, <2>3, <3>1
    <3>3. Fresh(incoming[i + 1]) /\ http[incoming[i + 1]] \notin Early
      BY <2>2, <2>3, <3>1
    <3>4. incoming'[i] \notin Held' /\ sent'[incoming'[i]] = <<>>
      <4>1. PICK q \in Requests : q = incoming[i + 1]
        BY <2>3, <3>1
      <4>2. Fresh(q)'
        BY <1>2, <3>2, <3>3, <4>1
      <4> QED
        BY <3>1, <4>1, <4>2 DEF Fresh
    <3>5. ASSUME NEW j \in DOMAIN incoming', incoming'[j] = incoming'[i]
          PROVE  j = i
      <4>1. /\ j + 1 \in DOMAIN incoming /\ incoming'[j] = incoming[j + 1] /\ j \in Nat
        BY <2>1, <3>5
      <4>2. j + 1 = i + 1
        BY <2>2, <2>3, <3>1, <3>5, <4>1
      <4> QED
        BY <3>1, <4>1, <4>2
    <3> QED
      BY <3>1, <3>3, <3>4, <3>5
  <2>4. ASSUME NEW r \in Requests, http'[r] \in Early PROVE Fresh(r)'
    <3>1. Fresh(r) /\ http[r] \in Early
      BY <2>2, <2>4
    <3>2. r # Head(incoming)
      BY <2>1, <2>2, <2>4, <3>1
    <3> QED
      BY <1>2, <2>4, <3>1, <3>2
  <2> QED
    BY <2>3, <2>4 DEF Once, Fresh
<1> QED
  BY <1>3, <1>4

LEMMA SameText ==
    ASSUME NEW r, sent'[r] = sent[r]
    PROVE  Handle!Ended(r)' = Handle!Ended(r) /\ Handle!TextEnd(r)' = Handle!TextEnd(r)
  BY DEF Handle!Ended, Handle!TextEnd, Handle!Final

\* A request whose entry and queue the step leaves alone.
LEMMA TextKept ==
    ASSUME TextInv, NEW r \in Owed, sent'[r] = sent[r],
           entryOf(r)'.emitted = entryOf(r).emitted
    PROVE  /\ ~Handle!Ended(r)'
           /\ r \in Streaming => Handle!TextEnd(r)' = entryOf(r)'.emitted
  BY SameText DEF TextInv

\* Steps of the thread between which no other put is pending.
LEMMA WakeupKept ==
    ASSUME TypeOK, NoLostWakeup, ThreadFrame, unwoken = NoRequest,
           \/ UNCHANGED <<sent, unwoken>>
           \/ \E r \in Requests : /\ unwoken' = r
                                  /\ \A q \in Requests \ {r} : sent'[q] = sent[q]
    PROVE  NoLostWakeup'
  BY RequestsAssumption DEF NoLostWakeup, ThreadFrame, Registered

---------------------------------------------------------------------------
(* The steps of the thread *)

\* Steps that put nothing and move no request.
LEMMA SilentKept ==
    ASSUME IndInv, ThreadFrame, unwoken = NoRequest, NoPut,
           incoming' = incoming, stranded' = stranded,
           popped' = popped \/ popped' = <<>>,
           (active' = active /\ pc \notin GivingUp) \/ active' = <<>>,
           pc' \in GivingUp => todo' = DOMAIN active',
           DOMAIN popped' # {} => pc' = "events" /\ todo' = {}
    PROVE  Once' /\ TextInv' /\ NoLostWakeup' /\ UNCHANGED sent
<1>1. TypeOK /\ Once /\ TextInv /\ NoLostWakeup
  BY DEF IndInv
<1>2. NoLostWakeup'
  BY <1>1, WakeupKept DEF NoPut
<1>3. DOMAIN active' \subseteq DOMAIN active /\ DOMAIN popped' \subseteq DOMAIN popped
  BY EmptyMap
<1>4. Once'
  <2>1. http' = http /\ sent' = sent
    BY DEF ThreadFrame, NoPut
  <2>2. Held' \subseteq Held
    BY <1>3 DEF Held
  <2>3. DOMAIN active' \cap DOMAIN popped' = {}
    BY <1>1, <1>3 DEF Once
  <2> QED
    BY <1>1, <2>1, <2>2, <2>3, OnceKept
<1>5. TextInv'
  <2> SUFFICES ASSUME NEW r \in Owed'
               PROVE  ~Handle!Ended(r)'
                      /\ (r \in Streaming => Handle!TextEnd(r)' = entryOf(r)'.emitted)
    BY DEF TextInv
  <2>1. r \in DOMAIN popped' \/ r \in DOMAIN active'
    BY DEF Owed
  <2>2. r \in Owed
    BY <1>3, <2>1, EmptyMap DEF Owed
  <2>3. sent'[r] = sent[r]
    BY DEF NoPut
  <2>4. entryOf(r)' = entryOf(r)
    <3>1. CASE r \in DOMAIN popped'
      BY <3>1, EmptyMap DEF entryOf
    <3>2. CASE r \in DOMAIN active' /\ r \notin DOMAIN popped'
      <4>1. active' = active /\ r \in DOMAIN active /\ r \notin DOMAIN popped
        BY <1>1, <3>2, EmptyMap DEF Once
      <4> QED
        BY <3>2, <4>1 DEF entryOf
    <3> QED
      BY <2>1, <3>1, <3>2
  <2> QED
    BY <1>1, <2>2, <2>3, <2>4, TextKept
<1> QED
  BY <1>2, <1>4, <1>5 DEF NoPut

LEMMA BootKept ==
    ASSUME IndInv, ThreadFrame, unwoken = NoRequest, Boot
    PROVE  Kept
<1>1. Once' /\ TextInv' /\ NoLostWakeup' /\ UNCHANGED sent
  BY SilentKept DEF Boot, GivingUp, IndInv, Once, ghostVars
<1>2. EngineInv'
  BY DEF IndInv, EngineInv, Boot, Rounds, GivingUp, ghostVars
<1>3. CancelledRunsOneMoreStep' /\ LimitInv'
  BY EmptyMap DEF IndInv, EngineInv, Once, Boot, LimitInv, CancelledRunsOneMoreStep
<1> QED
  BY <1>1, <1>2, <1>3 DEF Kept

LEMMA CancelEndKept ==
    ASSUME IndInv, ThreadFrame, unwoken = NoRequest, CancelEnd
    PROVE  Kept
<1>1. Once' /\ TextInv' /\ NoLostWakeup' /\ UNCHANGED sent
  BY SilentKept DEF CancelEnd, GivingUp, IndInv, Once, ghostVars, BeginClosing
<1>2. EngineInv'
  BY DEF IndInv, EngineInv, CancelEnd, Rounds, GivingUp, ghostVars, BeginClosing
<1>3. CancelledRunsOneMoreStep'
  BY DEF IndInv, TypeOK, EngineInv, Rounds, CancelEnd, CancelledRunsOneMoreStep, ghostVars
<1>4. LimitInv'
  BY DEF IndInv, LimitInv, CancelEnd, BeginClosing, GivingUp
<1> QED
  BY <1>1, <1>2, <1>3, <1>4 DEF Kept

LEMMA StepKept ==
    ASSUME IndInv, ThreadFrame, unwoken = NoRequest,
           NEW T \in SUBSET engine, NEW F \in SUBSET engine, Step(T, F)
    PROVE  Kept
<1>1. Once' /\ TextInv' /\ NoLostWakeup' /\ UNCHANGED sent
  BY SilentKept DEF Step, GivingUp, IndInv, Once
<1>2. EngineInv'
  BY DEF IndInv, EngineInv, Step, Rounds, GivingUp
<1>3. CancelledRunsOneMoreStep'
  BY DEF Step, CancelledRunsOneMoreStep
<1>4. LimitInv'
  BY WorkerBoundsAssumption DEF IndInv, Once, LimitInv, Step, GivingUp
<1> QED
  BY <1>1, <1>2, <1>3, <1>4 DEF Kept

\* Every way into _fail_active.
LEMMA FailingKept ==
    ASSUME IndInv, ThreadFrame, unwoken = NoRequest,
           \/ \E F \in SUBSET engine : StepRaises(F)
           \/ DecodeRaises
           \/ FinishRaises
    PROVE  Kept
<1>1. /\ BeginFailing /\ NoPut /\ UNCHANGED <<incoming, active, stranded>>
      /\ engine' \subseteq engine /\ pc \in {"step", "events"}
      /\ DOMAIN popped' = {} /\ (popped' = popped \/ popped' = <<>>)
  BY EmptyMap DEF StepRaises, DecodeRaises, FinishRaises, IndInv, Once, ghostVars
<1>2. Once' /\ TextInv' /\ NoLostWakeup' /\ UNCHANGED sent
  BY <1>1, SilentKept DEF BeginFailing, GivingUp
<1>3. EngineInv'
  BY <1>1 DEF IndInv, EngineInv, Rounds, GivingUp, BeginFailing
<1>4. CancelledRunsOneMoreStep'
  BY <1>1 DEF BeginFailing, CancelledRunsOneMoreStep
<1>5. LimitInv'
  BY <1>1 DEF IndInv, LimitInv, BeginFailing, GivingUp
<1> QED
  BY <1>2, <1>3, <1>4, <1>5 DEF Kept

\* The ends of the three loops over requests.
LEMMA EndKept ==
    ASSUME IndInv, ThreadFrame, unwoken = NoRequest, OutputsEnd \/ FailEnd \/ CloseEnd
    PROVE  Kept
<1>1. Once' /\ TextInv' /\ NoLostWakeup' /\ UNCHANGED sent
  BY SilentKept, EmptyMap
     DEF OutputsEnd, FailEnd, CloseEnd, GivingUp, IndInv, Once, ghostVars
<1>2. EngineInv'
  BY EmptyMap DEF IndInv, EngineInv, OutputsEnd, FailEnd, CloseEnd, Rounds, GivingUp, ghostVars
<1>3. CancelledRunsOneMoreStep'
  BY DEF OutputsEnd, FailEnd, CloseEnd, CancelledRunsOneMoreStep
<1>4. LimitInv'
  BY EmptyMap DEF IndInv, Once, LimitInv, OutputsEnd, FailEnd, CloseEnd, GivingUp
<1> QED
  BY <1>1, <1>2, <1>3, <1>4 DEF Kept

\* A request is given its final event and is owed nothing any more.
LEMMA GivenUpKept ==
    ASSUME IndInv, ThreadFrame, unwoken = NoRequest,
           NEW r \in Requests, NEW kind \in {"failed", "cancelled"}, PutFinal(r, kind),
           ~Handle!Ended(r),
           \A q \in Owed' : q \in Requests /\ q # r /\ q \in Owed /\ entryOf(q)' = entryOf(q)
    PROVE  TextInv' /\ NoLostWakeup' /\ Handle!Next
<1>1. TypeOK /\ TextInv /\ NoLostWakeup
  BY DEF IndInv
<1>2. unwoken' = r /\ \A q \in Requests \ {r} : sent'[q] = sent[q]
  BY <1>1, PutFinalEvent
<1>3. NoLostWakeup'
  BY <1>1, <1>2, WakeupKept
<1>4. TextInv'
  <2> SUFFICES ASSUME NEW q \in Owed'
               PROVE  ~Handle!Ended(q)'
                      /\ (q \in Streaming => Handle!TextEnd(q)' = entryOf(q)'.emitted)
    BY DEF TextInv
  <2>1. q \in Owed /\ sent'[q] = sent[q] /\ entryOf(q)' = entryOf(q)
    BY <1>2
  <2> QED
    BY <1>1, <2>1, TextKept
<1>5. Handle!GivenUp(r, kind)
  BY DEF Handle!GivenUp, PutFinal, Put
<1> QED
  BY <1>3, <1>4, <1>5 DEF Handle!Next

LEMMA DrainKept ==
    ASSUME IndInv, TypeOK', ThreadFrame, unwoken = NoRequest, DrainIncoming
    PROVE  Kept
<1>0. TypeOK /\ Once /\ EngineInv /\ TextInv /\ LimitInv /\ NoLostWakeup
  BY DEF IndInv
<1>1. /\ pc \in {"drain", "more"} /\ pc' \in {"cancel", "more"}
      /\ UNCHANGED <<todo, outputs, popped, stranded>>
      /\ DOMAIN popped = {}
      /\ http' = http /\ cancelled' = cancelled
  BY <1>0 DEF DrainIncoming, ghostVars, Once, ThreadFrame
<1>2. CancelledRunsOneMoreStep'
  BY <1>1 DEF CancelledRunsOneMoreStep
<1>3. CASE incoming = <<>>
  <2>1. NoPut /\ UNCHANGED <<incoming, active, engine>>
    BY <1>3 DEF DrainIncoming
  <2>2. Once' /\ TextInv' /\ NoLostWakeup' /\ UNCHANGED sent
    BY <1>1, <2>1, SilentKept DEF GivingUp
  <2>3. EngineInv' /\ LimitInv'
    BY <1>0, <1>1, <2>1 DEF EngineInv, LimitInv, GivingUp, Rounds
  <2> QED
    BY <1>2, <2>2, <2>3 DEF Kept
<1>4. CASE incoming # <<>>
  <2>0. incoming' = Tail(incoming) /\ incoming \in Seq(Item)
    BY <1>0, <1>4 DEF DrainIncoming, TypeOK
  <2>1. 1 \in DOMAIN incoming /\ Head(incoming) = incoming[1] /\ Head(incoming) \in Item
    BY <1>4, <2>0, TailIndex, HeadTailProperties
  <2>2. incoming' # incoming
    BY <1>4, <2>0, HeadTailProperties, LenProperties
  <2>3. CASE Head(incoming) = Stop
    <3>1. NoPut /\ UNCHANGED <<active, engine>>
      BY <1>4, <2>3 DEF DrainIncoming
    <3>2. Once'
      BY <1>0, <1>1, <1>4, <2>0, <3>1, OnceKept DEF Held, NoPut
    <3>3. Owed' = Owed /\ \A r : entryOf(r)' = entryOf(r)
      BY <1>1, <3>1 DEF Owed, entryOf, GivingUp
    <3>4. TextInv'
      BY <1>0, <3>1, <3>3, TextKept DEF TextInv, NoPut
    <3>5. NoLostWakeup'
      BY <1>0, <3>1, WakeupKept DEF NoPut
    <3>6. EngineInv' /\ LimitInv'
      BY <1>0, <1>1, <3>1 DEF EngineInv, LimitInv, GivingUp, Rounds
    <3> QED
      BY <1>2, <3>1, <3>2, <3>4, <3>5, <3>6 DEF Kept, NoPut
  <2>4. CASE Head(incoming) # Stop
    <3>1. PICK r \in Requests : r = Head(incoming) /\ Admit(r)
      BY <1>4, <2>1, <2>4 DEF DrainIncoming, Item
    <3>2. Fresh(r) /\ r \notin DOMAIN active /\ r \notin stranded /\ sent[r] = <<>>
      BY <1>0, <2>1, <3>1 DEF Once, Fresh, Held
    <3>3. ~Handle!Ended(r) /\ Handle!TextEnd(r) = 0
      BY <3>2 DEF Handle!Ended, Handle!TextEnd
    <3>4. CASE UNCHANGED <<active, engine>>
               /\ \E kind \in {"failed", "cancelled"} : PutFinal(r, kind)
      <4>1. PICK kind \in {"failed", "cancelled"} : PutFinal(r, kind)
        BY <3>4
      <4>2. \A q \in Owed' : /\ q \in Requests /\ q # r /\ q \in Owed
                             /\ entryOf(q)' = entryOf(q)
        BY <1>0, <1>1, <3>2, <3>4 DEF Owed, entryOf, GivingUp, TypeOK
      <4>3. TextInv' /\ NoLostWakeup' /\ Handle!Next
        BY <3>3, <4>1, <4>2, GivenUpKept
      <4>4. \A q \in Requests \ {r} : sent'[q] = sent[q]
        BY <1>0, <4>1, PutFinalEvent
      <4>5. Once'
        BY <1>0, <1>1, <1>4, <2>0, <2>2, <3>1, <3>4, <4>4, OnceKept DEF Held
      <4>6. EngineInv' /\ LimitInv'
        BY <1>0, <1>1, <3>4 DEF EngineInv, LimitInv, GivingUp, Rounds
      <4> QED
        BY <1>2, <4>3, <4>5, <4>6 DEF Kept
    <3>5. CASE /\ NoPut /\ engine' = engine \cup {r}
               /\ DOMAIN active' = DOMAIN active \cup {r}
               /\ active'[r] = [tokens |-> 0, emitted |-> 0]
               /\ \A q \in DOMAIN active \ {r} : active'[q] = active[q]
      <4>1. NoLostWakeup'
        BY <1>0, <3>5, WakeupKept DEF NoPut
      <4>2. Once'
        BY <1>0, <1>1, <1>4, <2>0, <2>2, <3>1, <3>5, OnceKept DEF Held, NoPut
      <4>3. EngineInv'
        BY <1>0, <1>1, <3>2, <3>5 DEF EngineInv, GivingUp, Rounds
      <4>4. LimitInv'
        <5>1. MaxTokens[r] \in Nat /\ MaxTokens[r] > 0
          BY WorkerBoundsAssumption
        <5>2. ASSUME NEW q \in DOMAIN active'
              PROVE  active'[q].tokens < MaxTokens[q] /\ active'[q].tokens <= MaxTokens[q]
          <6>1. CASE q = r
            BY <3>5, <5>1, <6>1
          <6>2. CASE q # r
            BY <1>0, <1>1, <3>5, <5>2, <6>2 DEF LimitInv, GivingUp
          <6> QED
            BY <6>1, <6>2
        <5> QED
          BY <1>1, <5>2 DEF LimitInv
      <4>5. TextInv'
        <5> SUFFICES ASSUME NEW q \in Owed'
               PROVE  ~Handle!Ended(q)'
                      /\ (q \in Streaming => Handle!TextEnd(q)' = entryOf(q)'.emitted)
          BY DEF TextInv
        <5>1. sent'[q] = sent[q] /\ q \in DOMAIN active' /\ entryOf(q)' = active'[q]
          BY <1>1, <3>5 DEF Owed, entryOf, GivingUp, NoPut
        <5>2. CASE q = r
          <6>1. ~Handle!Ended(q)' /\ Handle!TextEnd(q)' = 0
            BY <3>3, <5>1, <5>2, SameText
          <6> QED
            BY <3>5, <5>1, <5>2, <6>1
        <5>3. CASE q # r
          <6>1. q \in Owed /\ entryOf(q) = active[q] /\ active'[q] = active[q]
            BY <1>1, <3>5, <5>1, <5>3 DEF Owed, entryOf, GivingUp
          <6> QED
            BY <1>0, <5>1, <6>1, TextKept
        <5> QED
          BY <5>2, <5>3
      <4> QED
        BY <1>2, <3>5, <4>1, <4>2, <4>3, <4>4, <4>5 DEF Kept, NoPut
    <3> QED
      BY <1>0, <3>1, <3>4, <3>5, AdmitCases
  <2> QED
    BY <2>3, <2>4
<1> QED
  BY <1>3, <1>4

LEMMA CancelOneKept ==
    ASSUME IndInv, TypeOK', ThreadFrame, unwoken = NoRequest, CancelOne
    PROVE  Kept
<1>0. TypeOK /\ Once /\ EngineInv /\ TextInv /\ LimitInv /\ NoLostWakeup
  BY DEF IndInv
<1>1. /\ pc = "cancel" /\ UNCHANGED <<incoming, outputs, popped, stranded>>
      /\ DOMAIN popped = {} /\ http' = http
  BY <1>0 DEF CancelOne, ghostVars, Once, ThreadFrame
<1>2. PICK r \in DOMAIN active \cap cancelled :
             \/ /\ engine' = engine \ {r} /\ Drop(r)
                /\ PutFinal(r, "cancelled")
                /\ UNCHANGED <<pc, todo>>
             \/ BeginClosing /\ NoPut /\ UNCHANGED <<engine, active>>
  BY DEF CancelOne
<1>3. r \in Requests /\ r \in Owed
  BY <1>0, <1>1 DEF TypeOK, Owed, GivingUp
<1>4. CASE BeginClosing /\ NoPut /\ UNCHANGED <<engine, active>>
  <2>1. Once' /\ TextInv' /\ NoLostWakeup' /\ UNCHANGED sent
    BY <1>1, <1>4, SilentKept DEF BeginClosing, GivingUp
  <2>2. EngineInv' /\ LimitInv' /\ CancelledRunsOneMoreStep'
    BY <1>0, <1>1, <1>4
       DEF EngineInv, LimitInv, GivingUp, Rounds, BeginClosing, CancelledRunsOneMoreStep
  <2> QED
    BY <2>1, <2>2 DEF Kept
<1>5. CASE engine' = engine \ {r} /\ Drop(r) /\ PutFinal(r, "cancelled")
           /\ UNCHANGED <<pc, todo>>
  <2>1. /\ DOMAIN active' = DOMAIN active \ {r}
        /\ \A q \in DOMAIN active' : active'[q] = active[q]
    BY <1>0, <1>5, DropEntry DEF TypeOK
  <2>2. \A q \in Owed' : /\ q \in Requests /\ q # r /\ q \in Owed
                         /\ entryOf(q)' = entryOf(q)
    BY <1>0, <1>1, <1>5, <2>1 DEF Owed, entryOf, GivingUp, TypeOK
  <2>3. ~Handle!Ended(r)
    BY <1>0, <1>3 DEF TextInv
  <2>4. TextInv' /\ NoLostWakeup' /\ Handle!Next
    BY <1>3, <1>5, <2>2, <2>3, GivenUpKept
  <2>5. \A q \in Requests \ {r} : sent'[q] = sent[q]
    BY <1>0, <1>3, <1>5, PutFinalEvent
  <2>6. Once'
    BY <1>0, <1>1, <1>2, <2>1, <2>5, OnceKept DEF Held
  <2>7. EngineInv'
    BY <1>0, <1>1, <1>5, <2>1 DEF EngineInv, GivingUp, Rounds
  <2>8. LimitInv'
    BY <1>0, <1>1, <1>5, <2>1 DEF LimitInv, GivingUp
  <2>9. CancelledRunsOneMoreStep'
    BY <1>1, <1>5 DEF CancelledRunsOneMoreStep
  <2> QED
    BY <2>4, <2>6, <2>7, <2>8, <2>9 DEF Kept
<1> QED
  BY <1>2, <1>4, <1>5

\* _fail_active and the finally clause give up one request.
LEMMA AbandonKept ==
    ASSUME IndInv, TypeOK', ThreadFrame, unwoken = NoRequest, FailOne \/ CloseOne
    PROVE  Kept
<1>0. TypeOK /\ Once /\ EngineInv /\ TextInv /\ LimitInv /\ NoLostWakeup
  BY DEF IndInv
<1>1. PICK r \in todo, kind \in {"failed", "cancelled"} : Abandon(r, kind)
  BY DEF FailOne, CloseOne
<1>2. /\ pc \in GivingUp /\ UNCHANGED <<incoming, pc, active, outputs, popped>>
      /\ DOMAIN popped = {} /\ http' = http /\ todo' = todo \ {r}
      /\ PutFinal(r, kind) /\ r \in Requests /\ r \in Owed /\ r \in DOMAIN active
  BY <1>0, <1>1
     DEF FailOne, CloseOne, Abandon, Once, ThreadFrame, TypeOK, Owed, GivingUp, EngineInv
<1>3. \/ engine' = engine \ {r} /\ stranded' = stranded
      \/ engine' = engine /\ stranded' = stranded \cup {r}
  BY <1>1 DEF Abandon, CancelOrLog
<1>4. \A q \in Owed' : /\ q \in Requests /\ q # r /\ q \in Owed
                       /\ entryOf(q)' = entryOf(q)
  BY <1>0, <1>2 DEF Owed, entryOf, TypeOK
<1>5. ~Handle!Ended(r)
  BY <1>0, <1>2 DEF TextInv
<1>6. TextInv' /\ NoLostWakeup' /\ Handle!Next
  BY <1>2, <1>4, <1>5, GivenUpKept
<1>7. \A q \in Requests \ {r} : sent'[q] = sent[q]
  BY <1>0, <1>2, PutFinalEvent
<1>8. Once'
  BY <1>0, <1>2, <1>3, <1>7, OnceKept DEF Held
<1>9. EngineInv' /\ CancelledRunsOneMoreStep'
  BY <1>0, <1>2, <1>3 DEF EngineInv, GivingUp, Rounds, CancelledRunsOneMoreStep
<1>10. LimitInv'
  BY <1>0, <1>2 DEF LimitInv, GivingUp
<1> QED
  BY <1>6, <1>8, <1>9, <1>10 DEF Kept

LEMMA PopOutputKept ==
    ASSUME IndInv, TypeOK', ThreadFrame, unwoken = NoRequest, PopOutput
    PROVE  Kept
<1>0. TypeOK /\ Once /\ EngineInv /\ TextInv /\ LimitInv /\ NoLostWakeup
  BY DEF IndInv
<1>1. /\ pc = "events" /\ todo = {} /\ UNCHANGED <<incoming, pc, todo, engine, stranded>>
      /\ DOMAIN popped = {} /\ http' = http /\ NoPut /\ sent' = sent
  BY DEF PopOutput, ThreadFrame, ghostVars, NoPut
<1>2. PICK r \in outputs : /\ outputs' = outputs \ {r} /\ Drop(r)
                           /\ popped' = Restrict(active, DOMAIN active \cap {r})
  BY DEF PopOutput
<1>3. /\ DOMAIN active' = DOMAIN active \ {r}
      /\ \A q \in DOMAIN active' : active'[q] = active[q]
      /\ DOMAIN popped' = DOMAIN active \cap {r}
      /\ \A q \in DOMAIN popped' : popped'[q] = active[q]
  BY <1>0, <1>2, DropEntry DEF TypeOK, Restrict
<1>4. Once'
  BY <1>0, <1>1, <1>3, OnceKept DEF Held
<1>5. EngineInv' /\ CancelledRunsOneMoreStep'
  BY <1>0, <1>1, <1>2, <1>3 DEF EngineInv, GivingUp, Rounds, CancelledRunsOneMoreStep
<1>6. LimitInv'
  <2>1. \A q \in DOMAIN popped' : popped'[q].tokens <= MaxTokens[q]
    BY <1>0, <1>3 DEF LimitInv
  <2>2. ASSUME NEW q \in DOMAIN active'
        PROVE  /\ active'[q].tokens <= MaxTokens[q]
               /\ active'[q].tokens < MaxTokens[q] \/ q \in outputs'
    BY <1>0, <1>1, <1>2, <1>3, <2>2 DEF LimitInv, GivingUp
  <2> QED
    BY <1>1, <2>1, <2>2 DEF LimitInv
<1>7. TextInv'
  <2> SUFFICES ASSUME NEW q \in Owed'
               PROVE  ~Handle!Ended(q)'
                      /\ (q \in Streaming => Handle!TextEnd(q)' = entryOf(q)'.emitted)
    BY DEF TextInv
  <2>1. q \in Owed /\ entryOf(q)' = entryOf(q)
    BY <1>1, <1>3 DEF Owed, entryOf, GivingUp
  <2> QED
    BY <1>0, <1>1, <2>1, TextKept
<1>8. NoLostWakeup'
  BY <1>0, <1>1, WakeupKept DEF NoPut
<1> QED
  BY <1>1, <1>4, <1>5, <1>6, <1>7, <1>8 DEF Kept

\* A delta that continues the text of a stream.
LEMMA DeltaPut ==
    ASSUME TypeOK, TextInv, NEW r \in Owed, r \in Requests, r \in Streaming,
           NEW n \in Nat, n > entryOf(r).emitted, n <= MaxTokens[r],
           [kind |-> "delta", from |-> entryOf(r).emitted, to |-> n] \in Event,
           Put(r, [kind |-> "delta", from |-> entryOf(r).emitted, to |-> n])
    PROVE  /\ Handle!Next
           /\ ~Handle!Ended(r)' /\ Handle!TextEnd(r)' = n
           /\ unwoken' = r /\ \A q \in Requests \ {r} : sent'[q] = sent[q]
<1> DEFINE e == [kind |-> "delta", from |-> entryOf(r).emitted, to |-> n]
<1>1. /\ sent'[r] # <<>> /\ sent'[r][Len(sent'[r])] = e
      /\ unwoken' = r /\ \A q \in Requests \ {r} : sent'[q] = sent[q]
  <2> HIDE DEF e
  <2>1. e \in Event /\ Put(r, e)
    BY DEF e
  <2> QED
    BY <2>1, PutEvent
<1>2. ~Handle!Ended(r)' /\ Handle!TextEnd(r)' = n
  BY <1>1 DEF Handle!Ended, Handle!TextEnd, Handle!Final
<1>3. ~Handle!Ended(r) /\ Handle!TextEnd(r) = entryOf(r).emitted
  BY DEF TextInv
<1>4. Handle!TextDelta(r, n)
  BY <1>3 DEF Handle!TextDelta, Put
<1>5. n \in UNION {0..MaxTokens[q] : q \in Requests}
  BY WorkerBoundsAssumption
<1> QED
  BY <1>1, <1>2, <1>4, <1>5 DEF Handle!Next

LEMMA TokenEventsKept ==
    ASSUME IndInv, TypeOK', ThreadFrame, unwoken = NoRequest, TakeStepTokenEvents
    PROVE  Kept
<1>0. TypeOK /\ Once /\ EngineInv /\ TextInv /\ LimitInv /\ NoLostWakeup
  BY DEF IndInv
<1>1. PICK r \in todo : /\ todo' = todo \ {r}
                        /\ \/ r \in DOMAIN active /\ TokenEvent(r)
                           \/ r \notin DOMAIN active /\ NoPut /\ UNCHANGED active
  BY DEF TakeStepTokenEvents
<1>2. /\ pc = "events" /\ UNCHANGED <<incoming, pc, outputs, popped, engine, stranded>>
      /\ http' = http /\ r \in Requests /\ DOMAIN popped = {}
  BY <1>0 DEF TakeStepTokenEvents, ghostVars, ThreadFrame, TypeOK, Once
<1>3. CASE r \notin DOMAIN active /\ NoPut /\ UNCHANGED active
  <2>1. Once' /\ TextInv' /\ NoLostWakeup' /\ UNCHANGED sent
    BY <1>2, <1>3, SilentKept DEF GivingUp
  <2>2. EngineInv' /\ CancelledRunsOneMoreStep'
    BY <1>0, <1>1, <1>2, <1>3 DEF EngineInv, GivingUp, Rounds, CancelledRunsOneMoreStep
  <2>3. LimitInv'
    BY <1>0, <1>1, <1>2, <1>3 DEF LimitInv, GivingUp
  <2> QED
    BY <2>1, <2>2, <2>3 DEF Kept
<1>4. CASE r \in DOMAIN active /\ TokenEvent(r)
  <2>1. PICK stable \in Nat :
              /\ active' = [active EXCEPT ![r] =
                               [tokens |-> active[r].tokens + 1, emitted |-> stable]]
              /\ DOMAIN active' = DOMAIN active
              /\ stable = active[r].emitted \/ stable <= active[r].tokens + 1
              /\ \/ stable = active[r].emitted /\ NoPut
                 \/ /\ r \in Streaming /\ stable > active[r].emitted
                    /\ [kind |-> "delta", from |-> active[r].emitted, to |-> stable]
                          \in Event
                    /\ Put(r, [kind |-> "delta", from |-> active[r].emitted,
                               to |-> stable])
    BY <1>0, <1>4, TokenEventCases
  <2>2. /\ active'[r] = [tokens |-> active[r].tokens + 1, emitted |-> stable]
        /\ \A q \in DOMAIN active \ {r} : active'[q] = active[q]
        /\ active[r].tokens \in Nat /\ active[r].emitted \in Nat /\ MaxTokens[r] \in Nat
    BY <1>0, <1>2, <1>4, <2>1, WorkerBoundsAssumption DEF TypeOK, Entry
  <2>3. active[r].tokens < MaxTokens[r]
    BY <1>0, <1>1, <1>2, <1>4 DEF LimitInv, GivingUp
  <2>4. /\ r \in Owed /\ entryOf(r) = active[r] /\ entryOf(r)' = active'[r]
        /\ Owed' = Owed /\ Owed = DOMAIN active
        /\ \A q \in Owed : q # r => entryOf(q)' = entryOf(q)
    BY <1>2, <1>4, <2>1, <2>2 DEF Owed, entryOf, GivingUp
  <2>5. /\ \A q \in Requests \ {r} : sent'[q] = sent[q]
        /\ UNCHANGED <<sent, unwoken>> \/ unwoken' = r
        /\ UNCHANGED sent \/ Handle!Next
        /\ ~Handle!Ended(r)'
        /\ r \in Streaming => Handle!TextEnd(r)' = stable
    <3>1. CASE stable = active[r].emitted /\ NoPut
      <4>1. UNCHANGED <<sent, unwoken>>
        BY <3>1 DEF NoPut
      <4>2. ~Handle!Ended(r) /\ (r \in Streaming => Handle!TextEnd(r) = stable)
        BY <1>0, <2>4, <3>1 DEF TextInv
      <4> QED
        BY <4>1, <4>2, SameText
    <3>2. CASE /\ r \in Streaming /\ stable > active[r].emitted
               /\ [kind |-> "delta", from |-> active[r].emitted, to |-> stable] \in Event
               /\ Put(r, [kind |-> "delta", from |-> active[r].emitted, to |-> stable])
      <4>1. stable <= MaxTokens[r]
        BY <2>1, <2>2, <2>3, <3>2
      <4> QED
        BY <1>0, <1>2, <2>4, <3>2, <4>1, DeltaPut
    <3> QED
      BY <2>1, <3>1, <3>2
  <2>6. Once'
    BY <1>0, <1>2, <1>4, <2>1, <2>5, OnceKept DEF Held
  <2>7. TextInv'
    <3> SUFFICES ASSUME NEW q \in Owed'
                 PROVE  ~Handle!Ended(q)'
                        /\ (q \in Streaming => Handle!TextEnd(q)' = entryOf(q)'.emitted)
      BY DEF TextInv
    <3>1. CASE q = r
      BY <2>2, <2>4, <2>5, <3>1
    <3>2. CASE q # r
      <4>1. q \in Owed /\ sent'[q] = sent[q] /\ entryOf(q)' = entryOf(q)
        BY <1>0, <2>4, <2>5, <3>2 DEF TypeOK
      <4> QED
        BY <1>0, <4>1, TextKept
    <3> QED
      BY <3>1, <3>2
  <2>8. NoLostWakeup'
    BY <1>0, <1>2, <2>5, WakeupKept
  <2>9. EngineInv' /\ CancelledRunsOneMoreStep'
    BY <1>0, <1>1, <1>2, <2>1 DEF EngineInv, GivingUp, Rounds, CancelledRunsOneMoreStep
  <2>10. LimitInv'
    <3>1. ASSUME NEW q \in DOMAIN active'
          PROVE  /\ active'[q].tokens <= MaxTokens[q]
                 /\ \/ active'[q].tokens < MaxTokens[q]
                    \/ q \in outputs /\ q \notin todo'
                 /\ q \in todo' /\ active'[q].tokens + 1 = MaxTokens[q] => q \in outputs
      <4>1. CASE q = r
        <5>1. active'[q].tokens = active[r].tokens + 1 /\ q \notin todo'
          BY <1>1, <2>2, <4>1
        <5>2. active[r].tokens + 1 = MaxTokens[r] => r \in outputs
          BY <1>0, <1>1, <1>2, <1>4 DEF LimitInv
        <5> QED
          BY <2>2, <2>3, <4>1, <5>1, <5>2
      <4>2. CASE q # r
        <5>1. active'[q] = active[q] /\ q \in DOMAIN active /\ (q \in todo' <=> q \in todo)
          BY <1>1, <2>1, <2>2, <3>1, <4>2
        <5> QED
          BY <1>0, <1>2, <5>1 DEF LimitInv, GivingUp
      <4> QED
        BY <4>1, <4>2
    <3> QED
      BY <1>0, <1>2, <3>1 DEF LimitInv
  <2> QED
    BY <2>5, <2>6, <2>7, <2>8, <2>9, <2>10 DEF Kept
<1> QED
  BY <1>1, <1>3, <1>4

LEMMA FinishTailKept ==
    ASSUME IndInv, TypeOK', ThreadFrame, unwoken = NoRequest, FinishTail
    PROVE  Kept
<1>0. TypeOK /\ Once /\ EngineInv /\ TextInv /\ LimitInv /\ NoLostWakeup
      /\ CancelledRunsOneMoreStep
  BY DEF IndInv
<1>1. PICK r \in DOMAIN popped \cap Streaming :
             /\ popped[r].emitted < popped[r].tokens
             /\ Put(r, [kind |-> "delta", from |-> popped[r].emitted,
                        to |-> popped[r].tokens])
             /\ popped' = [popped EXCEPT ![r].emitted = popped[r].tokens]
             /\ UNCHANGED <<incoming, pc, stopping, active, todo, outputs, engine, ghostVars>>
  BY DEF FinishTail
<1>2. /\ popped \in [DOMAIN popped -> Entry] /\ popped[r] \in Entry
      /\ popped[r].emitted \in Nat /\ popped[r].tokens \in Nat
      /\ r \in Requests /\ pc = "events" /\ todo = {} /\ http' = http
      /\ UNCHANGED <<stranded, late>>
  BY <1>0, <1>1 DEF TypeOK, Entry, Once, ThreadFrame, ghostVars
<1>3. /\ DOMAIN popped' = DOMAIN popped
      /\ \A q \in DOMAIN popped : popped'[q].tokens = popped[q].tokens
      /\ popped'[r].emitted = popped[r].tokens
      /\ \A q \in DOMAIN popped \ {r} : popped'[q] = popped[q]
  BY <1>1, <1>2 DEF Entry
<1>4. /\ r \in Owed /\ entryOf(r) = popped[r] /\ entryOf(r)' = popped'[r]
      /\ Owed' = Owed /\ \A q \in Owed : q # r => entryOf(q)' = entryOf(q)
  BY <1>1, <1>2, <1>3 DEF Owed, entryOf
<1>5. /\ Handle!Next
      /\ ~Handle!Ended(r)' /\ Handle!TextEnd(r)' = popped[r].tokens
      /\ unwoken' = r /\ \A q \in Requests \ {r} : sent'[q] = sent[q]
  <2>1. [kind |-> "delta", from |-> popped[r].emitted, to |-> popped[r].tokens] \in Event
    BY <1>2 DEF Event
  <2>2. popped[r].tokens <= MaxTokens[r] /\ popped[r].tokens > popped[r].emitted
    BY <1>0, <1>1, <1>2 DEF LimitInv
  <2> QED
    BY <1>0, <1>1, <1>2, <1>4, <2>1, <2>2, DeltaPut
<1>6. Once'
  <2>1. Held' = Held /\ r \in Held
    BY <1>1, <1>2, <1>3 DEF Held
  <2>2. /\ DOMAIN active' \cap DOMAIN popped' = {} /\ pc' = "events" /\ todo' = {}
        /\ incoming' = incoming
    BY <1>0, <1>1, <1>2, <1>3 DEF Once
  <2> QED
    BY <1>0, <1>2, <1>5, <2>1, <2>2, OnceKept
<1>7. TextInv'
  <2> SUFFICES ASSUME NEW q \in Owed'
               PROVE  ~Handle!Ended(q)'
                      /\ (q \in Streaming => Handle!TextEnd(q)' = entryOf(q)'.emitted)
    BY DEF TextInv
  <2>1. CASE q = r
    BY <1>3, <1>4, <1>5, <2>1
  <2>2. CASE q # r
    <3>1. q \in Owed /\ q \in Requests
      BY <1>0, <1>2, <1>4 DEF TypeOK, Owed
    <3>2. sent'[q] = sent[q] /\ entryOf(q)' = entryOf(q)
      BY <1>4, <1>5, <2>2, <3>1
    <3> QED
      BY <1>0, <3>1, <3>2, TextKept
  <2> QED
    BY <2>1, <2>2
<1>8. NoLostWakeup'
  BY <1>0, <1>2, <1>5, WakeupKept
<1>9. EngineInv' /\ CancelledRunsOneMoreStep' /\ LimitInv'
  BY <1>0, <1>1, <1>2, <1>3
     DEF EngineInv, GivingUp, Rounds, CancelledRunsOneMoreStep, LimitInv
<1> QED
  BY <1>5, <1>6, <1>7, <1>8, <1>9 DEF Kept

LEMMA FinishEndKept ==
    ASSUME IndInv, TypeOK', ThreadFrame, unwoken = NoRequest, FinishEnd
    PROVE  Kept
<1>0. TypeOK /\ Once /\ EngineInv /\ TextInv /\ LimitInv /\ NoLostWakeup
      /\ CancelledRunsOneMoreStep
  BY DEF IndInv
<1>1. PICK r \in DOMAIN popped :
             /\ \E kind \in {"finished", "diverged"} :
                   /\ Put(r, [kind |-> kind, from |-> 0, to |-> popped[r].tokens])
                   /\ kind = "finished" =>
                         (r \in Streaming => popped[r].emitted = popped[r].tokens)
                   /\ kind = "diverged" =>
                         r \in Streaming /\ popped[r].emitted \in 1..(popped[r].tokens - 1)
             /\ popped' = <<>>
             /\ UNCHANGED <<incoming, pc, stopping, active, todo, outputs, engine, ghostVars>>
  BY DEF FinishEnd
<1>2. /\ popped[r].tokens \in Nat /\ r \in Requests /\ pc = "events" /\ http' = http
      /\ UNCHANGED <<stranded, late>> /\ DOMAIN popped' = {} /\ r \notin DOMAIN active
  BY <1>0, <1>1, EmptyMap DEF TypeOK, Entry, Once, ThreadFrame, ghostVars
<1>3. unwoken' = r /\ \A q \in Requests \ {r} : sent'[q] = sent[q]
  <2>1. PICK kind \in {"finished", "diverged"} :
           Put(r, [kind |-> kind, from |-> 0, to |-> popped[r].tokens])
    BY <1>1
  <2>2. [kind |-> kind, from |-> 0, to |-> popped[r].tokens] \in Event
    BY <1>2, FinalEvent DEF Handle!Final
  <2> QED
    BY <1>0, <1>2, <2>1, <2>2, PutEvent
<1>4. Handle!Next
  <2>1. /\ r \in Owed /\ entryOf(r) = popped[r]
    BY DEF Owed, entryOf
  <2>2. Handle!Finished(r, popped[r].tokens) \/ Handle!Diverged(r, popped[r].tokens)
    BY <1>0, <1>1, <2>1 DEF TextInv, Handle!Finished, Handle!Diverged, Put
  <2>3. popped[r].tokens \in UNION {0..MaxTokens[q] : q \in Requests}
    BY <1>0, <1>2, WorkerBoundsAssumption DEF LimitInv
  <2> QED
    BY <1>2, <2>2, <2>3 DEF Handle!Next
<1>5. Once'
  BY <1>0, <1>1, <1>2, <1>3, OnceKept DEF Held
<1>6. TextInv'
  <2> SUFFICES ASSUME NEW q \in Owed'
               PROVE  ~Handle!Ended(q)'
                      /\ (q \in Streaming => Handle!TextEnd(q)' = entryOf(q)'.emitted)
    BY DEF TextInv
  <2>1. q \in DOMAIN active /\ q \in Owed /\ q \in Requests /\ q # r
    BY <1>0, <1>1, <1>2 DEF Owed, GivingUp, TypeOK
  <2>2. sent'[q] = sent[q] /\ entryOf(q)' = entryOf(q)
    BY <1>0, <1>1, <1>2, <1>3, <2>1 DEF entryOf, Once
  <2> QED
    BY <1>0, <2>1, <2>2, TextKept
<1>7. NoLostWakeup'
  BY <1>0, <1>2, <1>3, WakeupKept
<1>8. EngineInv' /\ CancelledRunsOneMoreStep' /\ LimitInv'
  BY <1>0, <1>1, <1>2
     DEF EngineInv, GivingUp, Rounds, CancelledRunsOneMoreStep, LimitInv
<1> QED
  BY <1>4, <1>5, <1>6, <1>7, <1>8 DEF Kept

LEMMA ThreadKept ==
    ASSUME IndInv, TypeOK', EngineThread, ~Notify
    PROVE  Kept
  BY ThreadSteps, BootKept, DrainKept, CancelOneKept, CancelEndKept, StepKept, FailingKept,
     TokenEventsKept, PopOutputKept, FinishTailKept, FinishEndKept, EndKept, AbandonKept,
     Zenon

---------------------------------------------------------------------------
(* The steps of the others *)

\* Nothing of what the thread and the engine hold changes.
Elsewhere == UNCHANGED <<active, todo, outputs, popped, engine, stranded, late, sent>>

LEMMA ElsewhereKept ==
    ASSUME IndInv, Elsewhere, pc' = pc \/ (pc = "none" /\ pc' = "boot")
    PROVE  /\ EngineInv' /\ CancelledRunsOneMoreStep' /\ TextInv' /\ LimitInv'
           /\ Held' = Held
           /\ \A r : Fresh(r) <=> Fresh(r)'
<1>1. Owed' = Owed /\ \A r : entryOf(r)' = entryOf(r)
  BY DEF Owed, entryOf, Elsewhere, GivingUp
<1>2. TextInv'
  BY <1>1, TextKept DEF IndInv, TextInv, Elsewhere
<1>3. Held' = Held
  BY DEF Held, Elsewhere
<1>4. EngineInv' /\ CancelledRunsOneMoreStep'
  BY DEF IndInv, EngineInv, CancelledRunsOneMoreStep, Elsewhere, GivingUp, Rounds
<1>5. LimitInv'
  BY DEF IndInv, LimitInv, Elsewhere, GivingUp
<1> QED
  BY <1>2, <1>3, <1>4, <1>5 DEF Fresh, Elsewhere

\* Something is put at the end of the queue.
LEMMA OnceEnqueued ==
    ASSUME IndInv, Elsewhere, NEW x \in Item, incoming' = Append(incoming, x), pc' = pc,
           \A r \in Requests : http'[r] \in Early => http[r] \in Early,
           \A r \in Requests : r # x => http'[r] = http[r],
           x \in Requests => http[x] \in Early /\ http'[x] \notin Early
    PROVE  Once'
<1>1. incoming \in Seq(Item) /\ Once
  BY DEF IndInv, TypeOK
<1>2. /\ Len(incoming) \in Nat /\ DOMAIN incoming = 1..Len(incoming)
      /\ DOMAIN incoming' = 1..(Len(incoming) + 1)
      /\ \A i \in 1..Len(incoming) : incoming'[i] = incoming[i]
      /\ incoming'[Len(incoming) + 1] = x
  BY <1>1, AppendProperties, LenProperties
<1>3. \A i \in DOMAIN incoming : x \in Requests => incoming[i] # x
  BY <1>1 DEF Once
<1>4. \A r \in Requests : Fresh(r) <=> r \notin Held' /\ sent'[r] = <<>>
  BY ElsewhereKept DEF Fresh, Elsewhere
<1>5. ASSUME NEW i \in DOMAIN incoming', incoming'[i] \in Requests
      PROVE  /\ http'[incoming'[i]] \notin Early
             /\ incoming'[i] \notin Held' /\ sent'[incoming'[i]] = <<>>
             /\ \A j \in DOMAIN incoming' : incoming'[j] = incoming'[i] => j = i
  <2>1. CASE i = Len(incoming) + 1
    <3>1. incoming'[i] = x /\ Fresh(x)
      BY <1>1, <1>2, <1>5, <2>1 DEF Once
    <3>2. \A j \in DOMAIN incoming' : incoming'[j] = x => j = i
      BY <1>2, <1>3, <1>5, <2>1, <3>1
    <3> QED
      BY <1>4, <1>5, <3>1, <3>2
  <2>2. CASE i \in DOMAIN incoming
    <3>1. /\ incoming'[i] = incoming[i] /\ incoming[i] # x
          /\ Fresh(incoming[i]) /\ http[incoming[i]] \notin Early
          /\ \A j \in DOMAIN incoming : incoming[j] = incoming[i] => j = i
      BY <1>1, <1>2, <1>3, <1>5, <2>2, RequestsAssumption DEF Once, Item
    <3>2. \A j \in DOMAIN incoming' : incoming'[j] = incoming'[i] => j = i
      BY <1>2, <3>1
    <3> QED
      BY <1>4, <1>5, <3>1, <3>2
  <2> QED
    BY <1>2, <1>5, <2>1, <2>2
<1>6. \A r \in Requests : http'[r] \in Early => r \notin Held' /\ sent'[r] = <<>>
  BY <1>1, <1>4 DEF Once
<1>7. /\ DOMAIN active' \cap DOMAIN popped' = {}
      /\ DOMAIN popped' # {} => pc' = "events" /\ todo' = {}
  BY <1>1 DEF Once, Elsewhere
<1> QED
  BY <1>5, <1>6, <1>7 DEF Once, Fresh

LEMMA OthersKept ==
    ASSUME IndInv, TypeOK',
           \/ Start \/ StopCalled \/ StopReturns
           \/ \E r \in Requests : Handler(r)
           \/ Notify
    PROVE  Kept
<1>0. TypeOK /\ Once /\ NoLostWakeup
  BY DEF IndInv
<1> USE RequestsAssumption
<1>1. CASE Start \/ StopReturns
  <2>1. /\ Elsewhere
        /\ pc' = pc \/ (pc = "none" /\ pc' = "boot")
        /\ UNCHANGED <<incoming, http, taken, woken, unwoken>>
    BY <1>1 DEF Start, StopReturns, Elsewhere, threadVars, handleVars, ghostVars, IsAlive
  <2>2. Once'
    BY <1>0, <2>1, ElsewhereKept DEF Once, Elsewhere
  <2>3. NoLostWakeup'
    BY <1>0, <2>1 DEF NoLostWakeup, Registered, Elsewhere
  <2> QED
    BY <2>1, <2>2, <2>3, ElsewhereKept DEF Kept, Elsewhere
<1>2. CASE StopCalled
  <2>1. /\ Elsewhere /\ pc' = pc /\ incoming' = Append(incoming, Stop)
        /\ UNCHANGED <<http, taken, woken, unwoken>>
    BY <1>2 DEF StopCalled, Elsewhere, threadVars, handleVars, ghostVars
  <2>2. Once'
    BY <2>1, OnceEnqueued DEF Item
  <2>3. NoLostWakeup'
    BY <1>0, <2>1 DEF NoLostWakeup, Registered, Elsewhere
  <2> QED
    BY <2>1, <2>2, <2>3, ElsewhereKept DEF Kept, Elsewhere
<1>3. CASE Notify
  <2>1. /\ Elsewhere /\ pc' = pc /\ UNCHANGED <<incoming, http, taken>>
        /\ woken' = IF Registered(unwoken) THEN woken \cup {unwoken} ELSE woken
    BY <1>3 DEF Notify, Elsewhere, threadVars, ghostVars
  <2>2. Once'
    BY <1>0, <2>1, ElsewhereKept DEF Once, Elsewhere
  <2>3. NoLostWakeup'
    BY <1>0, <2>1 DEF NoLostWakeup, Registered, Elsewhere
  <2> QED
    BY <2>1, <2>2, <2>3, ElsewhereKept DEF Kept, Elsewhere
<1>4. ASSUME NEW r \in Requests, Handler(r) PROVE Kept
  <2>1. /\ Elsewhere /\ pc' = pc /\ UNCHANGED unwoken
        /\ \/ /\ incoming' = incoming
              /\ http[r] \notin Early => http'[r] \notin Early
           \/ /\ incoming' = Append(incoming, r)
              /\ http[r] \in Early /\ http'[r] \notin Early
        /\ \A q \in Requests \ {r} : http'[q] = http[q]
        /\ http'[r] \in Early => http[r] \in Early
    BY <1>0, <1>4, HandlerFrame DEF Elsewhere, threadVars, ghostVars
  <2>2. Once'
    <3>1. CASE incoming' = Append(incoming, r) /\ http[r] \in Early /\ http'[r] \notin Early
      BY <2>1, <3>1, OnceEnqueued DEF Item
    <3>2. CASE incoming' = incoming /\ (http[r] \notin Early => http'[r] \notin Early)
      <4>1. \A q \in Requests : http'[q] \in Early => http[q] \in Early
        BY <2>1
      <4>2. \A q \in Requests : http[q] \notin Early => http'[q] \notin Early
        BY <2>1, <3>2
      <4>3. \A q : Fresh(q) <=> Fresh(q)'
        BY <2>1, ElsewhereKept
      <4>4. UNCHANGED <<active, popped, todo>>
        BY <2>1 DEF Elsewhere
      <4> QED
        BY <1>0, <2>1, <3>2, <4>1, <4>2, <4>3, <4>4 DEF Once, Fresh
    <3> QED
      BY <2>1, <3>1, <3>2
  <2>3. NoLostWakeup'
    <3>1. /\ http'[r] \in {"empty", "await"} =>
                \/ http[r] = "read" /\ taken'[r] = Len(sent[r]) /\ taken[r] = Len(sent[r])
                \/ http[r] \in {"empty", "await"} /\ taken'[r] = taken[r] /\ woken' = woken
          /\ \A q \in Requests \ {r} : /\ http'[q] = http[q] /\ taken'[q] = taken[q]
                                       /\ q \in woken => q \in woken'
      <4>1. http \in [Requests -> Places] /\ taken \in [Requests -> Nat]
        BY <1>0 DEF TypeOK, Places
      <4>2. CASE Look(r)
        BY <4>1, <4>2 DEF Look, At
      <4>3. CASE CheckRequest(r) \/ Enqueue(r) \/ StartBody(r) \/ Await(r)
        BY <4>1, <4>3 DEF CheckRequest, Enqueue, StartBody, Await, At
      <4>4. CASE Wakes(r) \/ WaitTimesOut(r) \/ Disconnect(r)
        BY <4>1, <4>4 DEF Wakes, WaitTimesOut, Disconnect, Unregister, At
      <4> QED
        BY <1>4, <4>2, <4>3, <4>4 DEF Handler, Proceeds
    <3>2. \A q \in Requests : Len(sent[q]) \in Nat
      BY <1>0, LenProperties DEF TypeOK
    <3>3. sent' = sent /\ unwoken' = unwoken
      BY <2>1 DEF Elsewhere
    <3>4. ASSUME NEW q \in Requests, http'[q] \in {"empty", "await"},
                 taken'[q] < Len(sent[q])
          PROVE  q \in woken' \/ unwoken = q
      <4>1. CASE q = r
        BY <1>0, <3>1, <3>2, <3>4, <4>1 DEF NoLostWakeup, Registered
      <4>2. CASE q # r
        BY <1>0, <3>1, <3>4, <4>2 DEF NoLostWakeup, Registered
      <4> QED
        BY <4>1, <4>2
    <3> QED
      BY <3>3, <3>4 DEF NoLostWakeup, Registered
  <2> QED
    BY <2>1, <2>2, <2>3, ElsewhereKept DEF Kept, Elsewhere
<1> QED
  BY <1>1, <1>2, <1>3, <1>4

LEMMA InitHolds == Init => IndInv
<1> SUFFICES ASSUME Init PROVE IndInv
  OBVIOUS
<1> USE RequestsAssumption, WorkerBoundsAssumption
<1>1. /\ incoming = <<>> /\ pc = "none" /\ DOMAIN active = {} /\ DOMAIN popped = {}
      /\ active = <<>> /\ popped = <<>>
      /\ sent = [r \in Requests |-> <<>>] /\ stranded = {} /\ engine = {}
  BY EmptyMap DEF Init, Handle!Init
<1>2. TypeOK
  BY <1>1, EmptyMap DEF Init, TypeOK, Early
<1>3. Once
  BY <1>1 DEF Once, Fresh, Held
<1>4. EngineInv /\ CancelledRunsOneMoreStep
  BY <1>1 DEF EngineInv, Rounds, GivingUp, CancelledRunsOneMoreStep
<1>5. TextInv /\ LimitInv
  BY <1>1 DEF TextInv, LimitInv, Owed, GivingUp
<1>6. NoLostWakeup
  BY <1>1 DEF Init, NoLostWakeup, Registered
<1> QED
  BY <1>2, <1>3, <1>4, <1>5, <1>6 DEF IndInv

\* Every step keeps the invariant and is a step or a stutter of the abstract
\* event stream.
LEMMA NextKeeps ==
    ASSUME IndInv, [Next]_vars
    PROVE  IndInv' /\ [Handle!Next]_sent
<1>1. TypeOK'
  BY TypeStep
<1>2. CASE UNCHANGED vars
  <2>1. /\ Elsewhere /\ pc' = pc
        /\ UNCHANGED <<incoming, http, taken, woken, unwoken>>
    BY <1>2 DEF vars, Elsewhere, threadVars, handleVars, ghostVars
  <2>2. Once'
    BY <2>1, ElsewhereKept DEF IndInv, Once, Elsewhere
  <2>3. NoLostWakeup'
    BY <2>1 DEF IndInv, NoLostWakeup, Registered, Elsewhere
  <2> QED
    BY <1>1, <2>1, <2>2, <2>3, ElsewhereKept DEF IndInv, Elsewhere
<1>3. CASE Next
  <2>1. Kept
    BY <1>1, <1>3, OthersKept, ThreadKept DEF Next
  <2> QED
    BY <1>1, <2>1 DEF Kept, IndInv
<1> QED
  BY <1>2, <1>3

THEOREM Invariance == Spec => []IndInv
  BY InitHolds, NextKeeps, PTL DEF Spec

\* For any requests, cancelled at any point, with any call of the engine
\* raising: between two rounds of _run the engine holds exactly what active
\* holds, except requests whose cancel_request raised.
THEOREM NoSequenceLeaks == Spec => []EngineHoldsActive
<1>1. IndInv => EngineHoldsActive
  BY DEF IndInv, EngineInv, EngineHoldsActive, Rounds
<1> QED
  BY <1>1, Invariance, PTL

\* The engine computes at most one step for a request after its cancelled
\* event is set.
THEOREM CancelIsPrompt == Spec => []CancelledRunsOneMoreStep
<1>1. IndInv => CancelledRunsOneMoreStep
  BY DEF IndInv
<1> QED
  BY <1>1, Invariance, PTL

\* The events put on every handle are those of the abstract event stream:
\* contiguous text and at most one final event, which is the last.
THEOREM WorkerImplementsEventStream == Spec => ImplementsEventStream
<1>1. Init => Handle!Init
  BY DEF Init
<1> QED
  BY <1>1, Invariance, NextKeeps, PTL DEF Spec, ImplementsEventStream, Handle!Spec

\* No interleaving of put, wake-up, look and wait leaves a handler waiting
\* with an event in its queue and nobody about to wake it.
THEOREM WakeupsArrive == Spec => []NoLostWakeup
<1>1. IndInv => NoLostWakeup
  BY DEF IndInv
<1> QED
  BY <1>1, Invariance, PTL

=============================================================================
