--------------------------- MODULE TensorParallel ---------------------------
(***************************************************************************)
(* The ranks of tensor-parallel execution (ModelRunner in                  *)
(* nanovllm/engine/model_runner.py, started and joined by LLMEngine):      *)
(* rank 0 writes every call to shared memory and wakes the other ranks     *)
(* through one event each; they repeat the call.                           *)
(*                                                                         *)
(* Tensor parallelism excludes remote KV (LLMEngine.__init__), so the only *)
(* calls are run and exit.  run on another rank launches its collectives   *)
(* and returns; on rank 0 it ends with the gathered logits, for which      *)
(* every rank must have launched.  A message in shared memory is the       *)
(* number of the write_shm that put it there, its length and its data      *)
(* apart.  Errors raised while a rank executes run are left out.           *)
(***************************************************************************)
EXTENDS Integers, Sequences, FiniteSets

CONSTANTS
    Size,         \* tensor_parallel_size
    MaxWrites     \* bound on calls of write_shm; the last one is exit

ASSUME TPAssumption == Size \in Nat /\ Size > 1 /\ MaxWrites \in Nat \ {0}

Ranks  == 0 .. Size - 1
Others == Ranks \ {0}

VARIABLES
    exists,     \* the shared memory "nanovllm"
    shm,        \* its length field and its data
    event,      \* self.events
    arrived,    \* ranks that have reached the barrier of __init__, of exit
    pc,         \* where each rank is
    method,     \* method of the call each rank is executing
    writes,     \* write_shm calls so far
    toWake,     \* events that write_shm has still to set
    calls,      \* calls whose message was written completely
    seen,       \* messages read by each of the others
    launched    \* runs whose collectives a rank has launched

vars == <<exists, shm, event, arrived, pc, method, writes, toWake, calls, seen,
          launched>>
callVars == <<writes, toWake, calls>>

Init ==
    /\ exists = FALSE
    /\ shm = [len |-> 0, data |-> 0]
    /\ event = [k \in Others |-> FALSE]
    /\ arrived = [b \in {"init", "exit"} |-> {}]
    /\ pc = [k \in Ranks |-> IF k = 0 THEN "create" ELSE "init"]
    /\ method = [k \in Ranks |-> "run"]
    /\ writes = 0 /\ toWake = {} /\ calls = <<>>
    /\ seen = [k \in Others |-> <<>>]
    /\ launched = [k \in Ranks |-> 0]

Goto(k, from, to) == pc[k] = from /\ pc' = [pc EXCEPT ![k] = to]

---------------------------------------------------------------------------
(* __init__ and exit: the life of the shared memory *)

CreateShm ==
    /\ Goto(0, "create", "init")
    /\ exists' = TRUE
    /\ UNCHANGED <<shm, event, arrived, method, callVars, seen, launched>>

\* dist.barrier: arrive, and leave when every rank has arrived.
Arrive(k, b) ==
    /\ Goto(k, b, IF b = "init" THEN "initBarrier" ELSE "exitBarrier")
    /\ arrived' = [arrived EXCEPT ![b] = @ \cup {k}]
    /\ UNCHANGED <<exists, shm, event, method, callVars, seen, launched>>

AllArrived(b) == arrived[b] = Ranks

LeaveInit(k) ==
    /\ Goto(k, "initBarrier", IF k = 0 THEN "idle" ELSE "open")
    /\ AllArrived("init")
    /\ UNCHANGED <<exists, shm, event, arrived, method, callVars, seen, launched>>

\* SharedMemory(name) of what does not exist raises.
OpenShm(k) ==
    /\ Goto(k, "open", IF exists THEN "wait" ELSE "crashed")
    /\ UNCHANGED <<exists, shm, event, arrived, method, callVars, seen, launched>>

\* After the barrier of exit, rank 0 unlinks the memory.
LeaveExit(k) ==
    /\ Goto(k, "exitBarrier", IF k = 0 THEN "join" ELSE "ended")
    /\ AllArrived("exit")
    /\ exists' = (exists /\ k # 0)
    /\ UNCHANGED <<shm, event, arrived, method, callVars, seen, launched>>

\* LLMEngine.exit joins the processes.
Join ==
    /\ Goto(0, "join", "ended")
    /\ \A k \in Others : pc[k] = "ended"
    /\ UNCHANGED <<exists, shm, event, arrived, method, callVars, seen, launched>>

---------------------------------------------------------------------------
(* call and write_shm on rank 0 *)

\* The length is written first.
WriteLength(m) ==
    /\ Goto(0, "idle", "length")
    /\ m = "exit" \/ writes < MaxWrites - 1
    /\ writes' = writes + 1
    /\ shm' = [shm EXCEPT !.len = writes + 1]
    /\ method' = [method EXCEPT ![0] = m]
    /\ UNCHANGED <<exists, event, arrived, toWake, calls, seen, launched>>

WriteData ==
    /\ Goto(0, "length", "wake")
    /\ shm' = [shm EXCEPT !.data = writes]
    /\ calls' = Append(calls, [id |-> writes, method |-> method[0]])
    /\ toWake' = Others
    /\ UNCHANGED <<exists, event, arrived, method, writes, seen, launched>>

\* A batch that does not fit raises after the length was written.
WriteDataRaises ==
    /\ method[0] = "run"
    /\ Goto(0, "length", "idle")
    /\ UNCHANGED <<exists, shm, event, arrived, method, callVars, seen, launched>>

\* Slip: the last event of the list is not set.
WakeAllButLast ==
    /\ pc[0] = "wake"
    /\ \E k \in toWake :
          /\ \A j \in toWake : k <= j
          /\ event' = [event EXCEPT ![k] = @ \/ k < Size - 1]
          /\ toWake' = toWake \ {k}
    /\ UNCHANGED <<exists, shm, arrived, pc, method, writes, calls, seen, launched>>

Wake ==
    /\ pc[0] = "wake"
    /\ \E k \in toWake :
          /\ \A j \in toWake : k <= j
          /\ event' = [event EXCEPT ![k] = TRUE]
          /\ toWake' = toWake \ {k}
    /\ UNCHANGED <<exists, shm, arrived, pc, method, writes, calls, seen, launched>>

WakeEnd ==
    /\ toWake = {}
    /\ Goto(0, "wake", "execute")
    /\ UNCHANGED <<exists, shm, event, arrived, method, callVars, seen, launched>>

---------------------------------------------------------------------------
(* Executing a call *)

\* run launches its collectives; exit closes the memory.
Execute(k) ==
    /\ \/ /\ method[k] = "run"
          /\ Goto(k, "execute", IF k = 0 THEN "gather" ELSE "wait")
          /\ launched' = [launched EXCEPT ![k] = @ + 1]
       \/ /\ method[k] = "exit"
          /\ Goto(k, "execute", "exit")
          /\ UNCHANGED launched
    /\ UNCHANGED <<exists, shm, event, arrived, method, callVars, seen>>

\* Slip: a method without collectives, which returns at once on rank 0.
GatherAtOnce ==
    /\ Goto(0, "gather", "idle")
    /\ UNCHANGED <<exists, shm, event, arrived, method, callVars, seen, launched>>

\* The sampler reads the gathered logits.
Gather ==
    /\ Goto(0, "gather", "idle")
    /\ \A k \in Others : launched[k] >= launched[0]
    /\ UNCHANGED <<exists, shm, event, arrived, method, callVars, seen, launched>>

---------------------------------------------------------------------------
(* loop and read_shm on the other ranks *)

WaitAndReadLength(k) ==
    /\ event[k]
    /\ Goto(k, "wait", "data")
    /\ seen' = [seen EXCEPT ![k] = Append(@, [len |-> shm.len, data |-> 0])]
    /\ UNCHANGED <<exists, shm, event, arrived, method, callVars, launched>>

ReadData(k) ==
    /\ Goto(k, "data", "clear")
    /\ seen' = [seen EXCEPT ![k][Len(seen[k])].data = shm.data]
    /\ \E i \in DOMAIN calls :
          /\ calls[i].id = shm.data
          /\ method' = [method EXCEPT ![k] = calls[i].method]
    /\ UNCHANGED <<exists, shm, event, arrived, callVars, launched>>

ClearEvent(k) ==
    /\ Goto(k, "clear", "execute")
    /\ event' = [event EXCEPT ![k] = FALSE]
    /\ UNCHANGED <<exists, shm, arrived, method, callVars, seen, launched>>

---------------------------------------------------------------------------
Rank0 ==
    \/ CreateShm \/ Join
    \/ WriteLength("run") \/ WriteData \/ WriteDataRaises \/ Wake \/ WakeEnd \/ Gather

Other(k) ==
    OpenShm(k) \/ WaitAndReadLength(k) \/ ReadData(k) \/ ClearEvent(k)

AnyRank(k) ==
    \/ \E b \in {"init", "exit"} : Arrive(k, b)
    \/ LeaveInit(k) \/ LeaveExit(k) \/ Execute(k)

\* LLMEngine.exit may come between any two steps of the engine.
Exit == WriteLength("exit")

Next ==
    \/ Rank0 \/ Exit
    \/ \E k \in Others : Other(k)
    \/ \E k \in Ranks : AnyRank(k)

Spec == Init /\ [][Next]_vars

\* Every process keeps running; exit is registered with atexit.
FairSpec ==
    /\ Spec
    /\ WF_vars(Rank0) /\ WF_vars(AnyRank(0)) /\ WF_vars(Exit)
    /\ \A k \in Others : WF_vars(Other(k) \/ AnyRank(k))

---------------------------------------------------------------------------
(* Properties *)

\* Every rank repeats the calls of rank 0, in order, each once, and reads each
\* message whole: rank 0 writes a message only when the last one was read and
\* its event cleared, and is never more than one call ahead.
Lockstep ==
    \A k \in Others :
        /\ Len(seen[k]) \in {Len(calls) - 1, Len(calls)}
        /\ pc[k] # "data" =>
              \A i \in DOMAIN seen[k] :
                  seen[k][i] = [len |-> calls[i].id, data |-> calls[i].id]

\* exit ends every process: no rank opens the shared memory before it exists,
\* and nobody is left waiting for an event, at a barrier or in join.
EveryRankExits ==
    pc[0] = "idle" ~> \A k \in Ranks : pc[k] = "ended"
=============================================================================
