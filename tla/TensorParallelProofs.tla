------------------------ MODULE TensorParallelProofs ------------------------
(***************************************************************************)
(* Proofs about the tensor-parallel ranks, for any number of ranks and of  *)
(* calls.  The inductive invariant follows each of the other ranks through *)
(* the one call that may be outstanding: not woken, woken, reading,        *)
(* executing, done.  That nothing is overwritten rests on the counts of    *)
(* launched collectives, on which the gather of rank 0 waits.              *)
(***************************************************************************)
EXTENDS TensorParallel, SequenceTheorems, TLAPS

Method  == {"run", "exit"}
CallRec == [id : Nat, method : Method]
Message == [len : Nat, data : Nat]

\* Where rank 0 is when no call is outstanding, and the others before they
\* learn of one.
Between == {"create", "init", "initBarrier", "idle", "length"}
Before  == {"init", "initBarrier", "open", "wait", "crashed"}
Leaving == {"exit", "exitBarrier", "join", "ended"}

\* The variables keep their types.
TypeOK ==
    /\ exists \in BOOLEAN
    /\ shm \in Message
    /\ event \in [Others -> BOOLEAN]
    /\ arrived \in [{"init", "exit"} -> SUBSET Ranks]
    /\ pc \in [Ranks -> Between \cup Before \cup Leaving
                         \cup {"wake", "execute", "gather", "data", "clear"}]
    /\ method \in [Ranks -> Method]
    /\ writes \in Nat
    /\ toWake \in SUBSET Others
    /\ calls \in Seq(CallRec)
    /\ seen \in [Others -> Seq(Message)]
    /\ launched \in [Ranks -> Nat]

\* Where rank 0 stands, and how many collectives it has launched there.
Rank0Inv ==
    /\ pc[0] \in Between \cup Leaving \cup {"wake", "execute", "gather"}
    /\ pc[0] # "wake" => toWake = {}
    /\ pc[0] \notin Between => calls # <<>>
    /\ pc[0] \in {"wake", "execute"} => method[0] = calls[Len(calls)].method
    /\ pc[0] = "gather" => calls[Len(calls)].method = "run"
    /\ pc[0] \in Leaving => calls[Len(calls)].method = "exit"
    /\ launched[0] = IF pc[0] \in Between \cup {"gather"}
                     THEN Len(calls) ELSE Len(calls) - 1

\* Every call but the outstanding one was a run; their numbers increase, and
\* the outstanding one is what the shared memory holds.
CallsInv ==
    /\ \A i \in 1..Len(calls) :
          /\ calls[i].id <= writes
          /\ pc[0] = "length" => calls[i].id < writes
          /\ i < Len(calls) => calls[i].id < calls[Len(calls)].id
          /\ i < Len(calls) \/ pc[0] \in Between => calls[i].method = "run"
    /\ pc[0] = "length" => shm.len = writes
    /\ pc[0] \notin Between => shm = [len |-> calls[Len(calls)].id,
                                      data |-> calls[Len(calls)].id]

\* Rank k has read n messages and launched m runs.
Counts(k, n, m) == Len(seen[k]) = n /\ launched[k] = m

\* Rank k has still to hear of the outstanding call.
Unread(k) == pc[k] \in Before /\ Counts(k, Len(calls) - 1, Len(calls) - 1)

\* Rank k was woken for the outstanding call.
Woken(k) ==
    \/ event[k] /\ Unread(k)
    \/ /\ event[k] /\ pc[k] \in {"data", "clear"}
       /\ Counts(k, Len(calls), Len(calls) - 1)
       /\ pc[k] = "clear" => method[k] = calls[Len(calls)].method
    \/ /\ ~event[k] /\ pc[k] = "execute"
       /\ Counts(k, Len(calls), Len(calls) - 1)
       /\ method[k] = calls[Len(calls)].method
    \/ /\ ~event[k] /\ pc[k] = "wait"
       /\ Counts(k, Len(calls), Len(calls))
    \/ /\ ~event[k] /\ pc[k] \in Leaving
       /\ Counts(k, Len(calls), Len(calls) - 1)

\* How far rank k is with the outstanding call, if there is one.
Progress(k) ==
    \/ /\ pc[0] \in Between
       /\ ~event[k] /\ pc[k] \in Before /\ Counts(k, Len(calls), Len(calls))
    \/ pc[0] \notin Between /\ k \in toWake /\ ~event[k] /\ Unread(k)
    \/ pc[0] \notin Between /\ k \notin toWake /\ Woken(k)

\* What rank k has read is what rank 0 wrote; the data of the message at hand
\* may still be to come.
ReadWhole(k) ==
    \A i \in 1..Len(seen[k]) :
        /\ i <= Len(calls)
        /\ seen[k][i].len = calls[i].id
        /\ ~(pc[k] = "data" /\ i = Len(seen[k])) => seen[k][i].data = calls[i].id

IndInv ==
    /\ TypeOK /\ Rank0Inv /\ CallsInv
    /\ \A k \in Others : Progress(k) /\ ReadWhole(k)

---------------------------------------------------------------------------
(* Lockstep *)

\* Rank 0 is one of the ranks and none of the others.
LEMMA RanksFacts ==
    /\ 0 \in Ranks /\ 0 \notin Others /\ Others \subseteq Ranks
    /\ \A k \in Ranks : k # 0 => k \in Others
BY TPAssumption DEF Ranks, Others

\* Calls are numbered.
LEMMA CallIds ==
    ASSUME TypeOK
    PROVE  /\ Len(calls) \in Nat
           /\ \A i \in 1..Len(calls) : calls[i].id \in Nat
<1>1. Len(calls) \in Nat
  BY DEF TypeOK
<1>2. ASSUME NEW i \in 1..Len(calls) PROVE calls[i].id \in Nat
  <2>1. calls[i] \in CallRec
    BY <1>2 DEF TypeOK
  <2> QED
    BY <2>1 DEF CallRec
<1> QED
  BY <1>1, <1>2

\* A rank that reads nothing keeps what it has read, unless it leaves a
\* message half read.
LEMMA ReadWholeKept ==
    ASSUME NEW j \in Others, ReadWhole(j), UNCHANGED <<calls, seen>>,
           pc[j] = "data" => pc'[j] = "data"
    PROVE  ReadWhole(j)'
BY DEF ReadWhole

\* The initial state satisfies the invariant.
LEMMA IndInvInit == Init => IndInv
<1> SUFFICES ASSUME Init PROVE IndInv
  OBVIOUS
<1>1. TypeOK
  BY RanksFacts DEF Init, TypeOK, Between, Before, Leaving, Method
<1> QED
  BY <1>1, RanksFacts DEF Init, IndInv, Rank0Inv, CallsInv, Progress, ReadWhole,
     Counts, Between, Before

\* Writing the length of a message disturbs nobody: no call is outstanding.
LEMMA StepWriteLength ==
    ASSUME IndInv, NEW m \in Method, WriteLength(m)
    PROVE  IndInv'
<1> USE RanksFacts DEF IndInv, WriteLength, Goto
<1>1. TypeOK'
  BY DEF TypeOK, Between, Message
<1>2. Rank0Inv'
  BY DEF TypeOK, Rank0Inv, Between, Leaving
<1>3. CallsInv'
  <2>1. pc[0] = "idle" /\ pc'[0] = "length"
    BY DEF TypeOK
  <2>2. "length" \in Between /\ "idle" \in Between
    BY DEF Between
  <2>3. calls' = calls /\ writes' = writes + 1 /\ writes \in Nat
    BY DEF TypeOK
  <2>4. \A i \in 1..Len(calls) : calls[i].id \in Nat
    BY CallIds
  <2> QED
    BY <2>1, <2>2, <2>3, <2>4 DEF CallsInv, TypeOK
<1>4. ASSUME NEW j \in Others PROVE Progress(j)'
  BY <1>4 DEF TypeOK, Rank0Inv, Progress, Woken, Unread, Counts, Between, Before
<1>5. ASSUME NEW j \in Others PROVE ReadWhole(j)'
  BY <1>5, ReadWholeKept DEF TypeOK
<1> QED
  BY <1>1, <1>2, <1>3, <1>4, <1>5

\* Writing the data makes a call outstanding that nobody was woken for.
LEMMA StepWriteData ==
    ASSUME IndInv, WriteData
    PROVE  IndInv'
<1> USE RanksFacts DEF IndInv, WriteData, Goto
<1> DEFINE new == [id |-> writes, method |-> method[0]]
           n == Len(calls)
<1>1. /\ pc[0] = "length" /\ pc'[0] = "wake"
      /\ "length" \in Between /\ "wake" \notin Between \cup Leaving /\ n \in Nat
  BY DEF TypeOK, Between, Leaving
<1>2. /\ new \in CallRec
      /\ new.id = writes /\ new.method = method[0] /\ writes \in Nat
  BY DEF TypeOK, CallRec
<1>3. /\ calls' \in Seq(CallRec)
      /\ Len(calls') = n + 1
      /\ calls'[n + 1] = new
      /\ \A i \in 1..n : calls'[i] = calls[i]
  BY <1>2 DEF TypeOK
<1>4. TypeOK'
  BY <1>1, <1>2, <1>3 DEF TypeOK, Message
<1>5. Rank0Inv'
  BY <1>1, <1>2, <1>3 DEF TypeOK, Rank0Inv
<1>6. CallsInv'
  <2>1. shm' = [len |-> calls'[n + 1].id, data |-> calls'[n + 1].id]
    <3>1. shm.len = writes
      BY <1>1 DEF CallsInv
    <3> QED
      BY <1>2, <1>3, <3>1 DEF TypeOK, Message
  <2>2. ASSUME NEW i \in 1..n
        PROVE  /\ calls'[i].id < writes
               /\ calls'[i].method = "run"
    BY <1>1, <1>3, <2>2 DEF CallsInv
  <2>3. writes' = writes
    OBVIOUS
  <2>4. ASSUME NEW i \in 1..(n + 1)
        PROVE  /\ calls'[i].id <= writes
               /\ i < n + 1 => calls'[i].id < calls'[n + 1].id /\ calls'[i].method = "run"
    <3>1. CASE i = n + 1
      BY <1>1, <1>2, <1>3, <3>1
    <3>2. CASE i # n + 1
      <4>1. i \in 1..n /\ calls[i].id \in Nat
        BY <1>1, <2>4, <3>2, CallIds
      <4> QED
        BY <1>1, <1>2, <1>3, <2>2, <4>1
    <3> QED
      BY <3>1, <3>2
  <2> QED
    BY <1>1, <1>3, <2>1, <2>3, <2>4 DEF CallsInv
<1>7. ASSUME NEW j \in Others PROVE Progress(j)'
  BY <1>1, <1>3, <1>7 DEF TypeOK, Progress, Unread, Counts
<1>8. ASSUME NEW j \in Others PROVE ReadWhole(j)'
  <2>1. pc'[j] = pc[j] /\ seen'[j] = seen[j] /\ Len(seen[j]) \in Nat
    BY <1>8 DEF TypeOK
  <2> QED
    BY <1>3, <1>8, <2>1 DEF ReadWhole
<1> QED
  BY <1>4, <1>5, <1>6, <1>7, <1>8

\* A batch that does not fit leaves no call outstanding.
LEMMA StepWriteDataRaises ==
    ASSUME IndInv, WriteDataRaises
    PROVE  IndInv'
<1> USE RanksFacts DEF IndInv, Goto, callVars, WriteDataRaises
<1>1. TypeOK'
  BY DEF TypeOK, Between, Leaving, Before
<1>2. Rank0Inv'
  BY DEF TypeOK, Rank0Inv, Between, Leaving
<1>3. CallsInv'
  BY DEF TypeOK, Rank0Inv, CallsInv, Between
<1>4. ASSUME NEW j \in Others PROVE Progress(j)'
  BY <1>4 DEF TypeOK, Rank0Inv, Progress, Woken, Unread, Counts, Between, Before, Leaving
<1>5. ASSUME NEW j \in Others PROVE ReadWhole(j)'
  BY <1>5, ReadWholeKept DEF TypeOK
<1> QED
  BY <1>1, <1>2, <1>3, <1>4, <1>5

\* Setting an event wakes one rank for the outstanding call.
LEMMA StepWake ==
    ASSUME IndInv, Wake \/ WakeEnd
    PROVE  IndInv'
<1> USE RanksFacts DEF IndInv, Goto, callVars, Wake, WakeEnd
<1>1. TypeOK'
  BY DEF TypeOK, Between, Leaving, Before
<1>2. Rank0Inv'
  BY DEF TypeOK, Rank0Inv, Between, Leaving
<1>3. CallsInv'
  BY DEF TypeOK, Rank0Inv, CallsInv, Between
<1>4. ASSUME NEW j \in Others PROVE Progress(j)'
  <2>1. /\ pc[0] = "wake" /\ pc'[j] = pc[j] /\ pc[0] \notin Between /\ pc'[0] \notin Between
        /\ UNCHANGED <<seen, calls, launched, method>>
    BY <1>4 DEF TypeOK, Between
  <2>2. /\ toWake' \subseteq toWake
        /\ event'[j] = (event[j] \/ (j \in toWake /\ j \notin toWake'))
    BY <1>4 DEF TypeOK
  <2> QED
    BY <1>4, <2>1, <2>2 DEF Progress, Woken, Unread, Counts
<1>5. ASSUME NEW j \in Others PROVE ReadWhole(j)'
  BY <1>5, ReadWholeKept DEF TypeOK
<1> QED
  BY <1>1, <1>2, <1>3, <1>4, <1>5

\* Rank 0 passes the gather only when every other rank is done with the call.
LEMMA StepGather ==
    ASSUME IndInv, Gather
    PROVE  IndInv'
<1> USE RanksFacts DEF IndInv, Goto, callVars, Gather
<1>1. TypeOK'
  BY DEF TypeOK, Between, Leaving, Before
<1>2. Rank0Inv'
  BY DEF TypeOK, Rank0Inv, Between, Leaving
<1>3. CallsInv'
  BY DEF TypeOK, Rank0Inv, CallsInv, Between
<1>4. ASSUME NEW j \in Others PROVE Progress(j)'
  BY <1>4 DEF TypeOK, Rank0Inv, Progress, Woken, Unread, Counts, Between, Before, Leaving
<1>5. ASSUME NEW j \in Others PROVE ReadWhole(j)'
  BY <1>5, ReadWholeKept DEF TypeOK
<1> QED
  BY <1>1, <1>2, <1>3, <1>4, <1>5

\* The steps of rank 0 outside the calls.
LEMMA StepRank0Life ==
    ASSUME IndInv, CreateShm \/ Join
    PROVE  IndInv'
<1> USE RanksFacts DEF IndInv, Goto, callVars, CreateShm, Join
<1>1. TypeOK'
  BY DEF TypeOK, Between, Leaving, Before
<1>2. Rank0Inv'
  BY DEF TypeOK, Rank0Inv, Between, Leaving
<1>3. CallsInv'
  BY DEF TypeOK, Rank0Inv, CallsInv, Between
<1>4. ASSUME NEW j \in Others PROVE Progress(j)'
  <2>1. /\ pc[0] \in Between <=> pc'[0] \in Between
        /\ pc'[j] = pc[j] /\ UNCHANGED <<seen, calls, launched, method, event, toWake>>
    BY <1>4 DEF TypeOK, Between
  <2> QED
    BY <1>4, <2>1 DEF Progress, Woken, Unread, Counts
<1>5. ASSUME NEW j \in Others PROVE ReadWhole(j)'
  BY <1>5, ReadWholeKept DEF TypeOK
<1> QED
  BY <1>1, <1>2, <1>3, <1>4, <1>5

\* Opening the shared memory.
LEMMA StepOpen ==
    ASSUME IndInv, NEW k \in Others, OpenShm(k)
    PROVE  IndInv'
<1> USE RanksFacts DEF IndInv, Goto, callVars, OpenShm
<1>1. TypeOK'
  BY DEF TypeOK, Between, Leaving, Before
<1>2. Rank0Inv'
  BY DEF TypeOK, Rank0Inv, Between, Leaving
<1>3. CallsInv'
  BY DEF TypeOK, Rank0Inv, CallsInv, Between
<1>4. ASSUME NEW j \in Others PROVE Progress(j)'
  BY <1>4 DEF TypeOK, Rank0Inv, Progress, Woken, Unread, Counts, Between, Before, Leaving
<1>5. ASSUME NEW j \in Others PROVE ReadWhole(j)'
  BY <1>5, ReadWholeKept DEF TypeOK
<1> QED
  BY <1>1, <1>2, <1>3, <1>4, <1>5

\* Arriving at a barrier.
LEMMA StepArrive ==
    ASSUME IndInv, NEW k \in Ranks, NEW b \in {"init", "exit"}, Arrive(k, b)
    PROVE  IndInv'
<1> USE RanksFacts DEF IndInv, Goto, callVars, Arrive
<1>1. TypeOK'
  BY DEF TypeOK, Between, Leaving, Before
<1>2. Rank0Inv'
  BY DEF TypeOK, Rank0Inv, Between, Leaving
<1>3. CallsInv'
  BY DEF TypeOK, Rank0Inv, CallsInv, Between
<1>4. ASSUME NEW j \in Others PROVE Progress(j)'
  BY <1>4 DEF TypeOK, Rank0Inv, Progress, Woken, Unread, Counts, Between, Before, Leaving
<1>5. ASSUME NEW j \in Others PROVE ReadWhole(j)'
  BY <1>5, ReadWholeKept DEF TypeOK
<1> QED
  BY <1>1, <1>2, <1>3, <1>4, <1>5

\* Leaving a barrier.
LEMMA StepLeave ==
    ASSUME IndInv, NEW k \in Ranks, LeaveInit(k) \/ LeaveExit(k)
    PROVE  IndInv'
<1> USE RanksFacts DEF IndInv, Goto, callVars, LeaveInit, LeaveExit
<1>1. TypeOK'
  BY DEF TypeOK, Between, Leaving, Before
<1>2. Rank0Inv'
  BY DEF TypeOK, Rank0Inv, Between, Leaving
<1>3. CallsInv'
  BY DEF TypeOK, Rank0Inv, CallsInv, Between
<1>4. ASSUME NEW j \in Others PROVE Progress(j)'
  BY <1>4, SMTT(30) DEF TypeOK, Rank0Inv, Progress, Woken, Unread, Counts, Between, Before, Leaving
<1>5. ASSUME NEW j \in Others PROVE ReadWhole(j)'
  BY <1>5, ReadWholeKept DEF TypeOK
<1> QED
  BY <1>1, <1>2, <1>3, <1>4, <1>5

\* A rank that was woken clears its event before it executes the call.
LEMMA StepClear ==
    ASSUME IndInv, NEW k \in Others, ClearEvent(k)
    PROVE  IndInv'
<1> USE RanksFacts DEF IndInv, Goto, callVars, ClearEvent
<1>1. TypeOK'
  BY DEF TypeOK, Between, Leaving, Before
<1>2. Rank0Inv'
  BY DEF TypeOK, Rank0Inv, Between, Leaving
<1>3. CallsInv'
  BY DEF TypeOK, Rank0Inv, CallsInv, Between
<1>4. ASSUME NEW j \in Others PROVE Progress(j)'
  BY <1>4 DEF TypeOK, Rank0Inv, Progress, Woken, Unread, Counts, Between, Before, Leaving
<1>5. ASSUME NEW j \in Others PROVE ReadWhole(j)'
  BY <1>5, ReadWholeKept DEF TypeOK
<1> QED
  BY <1>1, <1>2, <1>3, <1>4, <1>5

\* A rank that hears of a call reads the length rank 0 wrote for it.
LEMMA StepReadLength ==
    ASSUME IndInv, NEW k \in Others, WaitAndReadLength(k)
    PROVE  IndInv'
<1> USE RanksFacts DEF IndInv, WaitAndReadLength, Goto, callVars
<1> DEFINE n == Len(calls)
           new == [len |-> shm.len, data |-> 0]
<1>1. /\ pc[k] = "wait" /\ event[k] /\ pc[0] \notin Between /\ k \notin toWake
      /\ Unread(k) /\ n \in Nat /\ Len(seen[k]) = n - 1
  BY DEF TypeOK, Progress, Woken, Unread, Counts
<1>2. new \in Message /\ new.len = calls[n].id
  BY <1>1 DEF TypeOK, CallsInv, Message
<1>3. /\ seen' \in [Others -> Seq(Message)]
      /\ Len(seen'[k]) = n /\ seen'[k][n] = new
      /\ \A i \in 1..(n - 1) : seen'[k][i] = seen[k][i]
      /\ \A j \in Others : j # k => seen'[j] = seen[j]
  BY <1>1, <1>2 DEF TypeOK
<1>4. /\ pc' \in [Ranks -> Between \cup Before \cup Leaving
                         \cup {"wake", "execute", "gather", "data", "clear"}]
      /\ pc'[k] = "data" /\ \A j \in Ranks : j # k => pc'[j] = pc[j]
  BY DEF TypeOK
<1>5. TypeOK'
  BY <1>3, <1>4 DEF TypeOK
<1>6. Rank0Inv' /\ CallsInv'
  BY <1>4 DEF TypeOK, Rank0Inv, CallsInv
<1>7. ASSUME NEW j \in Others PROVE Progress(j)'
  BY <1>1, <1>3, <1>4, <1>7 DEF TypeOK, Progress, Woken, Unread, Counts
<1>8. ASSUME NEW j \in Others PROVE ReadWhole(j)'
  <2>1. CASE j = k
    BY <1>1, <1>2, <1>3, <1>4, <2>1 DEF ReadWhole
  <2>2. CASE j # k
    BY <1>3, <1>4, <1>8, <2>2 DEF ReadWhole
  <2> QED
    BY <2>1, <2>2
<1> QED
  BY <1>5, <1>6, <1>7, <1>8

\* The data a rank reads belongs to the length it read, and names the
\* outstanding call.
LEMMA StepReadData ==
    ASSUME IndInv, NEW k \in Others, ReadData(k)
    PROVE  IndInv'
<1> USE RanksFacts DEF IndInv, ReadData, Goto, callVars
<1> DEFINE n == Len(calls)
           new == [seen[k][n] EXCEPT !.data = shm.data]
<1>1. /\ pc[k] = "data" /\ pc[0] \notin Between /\ k \notin toWake
      /\ event[k] /\ n \in Nat \ {0} /\ Len(seen[k]) = n /\ launched[k] = n - 1
  <2>1. pc[k] = "data" /\ Progress(k) /\ n \in Nat
    BY DEF TypeOK
  <2>2. pc[k] \notin Before \cup Leaving
    BY <2>1 DEF Before, Leaving
  <2>3. /\ pc[0] \notin Between /\ k \notin toWake
        /\ event[k] /\ Counts(k, n, n - 1)
    BY <2>1, <2>2 DEF Progress, Woken, Unread
  <2>4. n # 0
    BY <2>1, <2>3 DEF Counts, TypeOK
  <2> QED
    BY <2>1, <2>3, <2>4 DEF Counts
<1>2. shm.data = calls[n].id
  BY <1>1 DEF CallsInv
<1>3. /\ new \in Message
      /\ new.len = calls[n].id /\ new.data = calls[n].id
  <2>1. seen[k] \in Seq(Message) /\ seen[k][n] \in Message /\ shm \in Message
    BY <1>1 DEF TypeOK
  <2>2. seen[k][n].len = calls[n].id
    BY <1>1 DEF ReadWhole
  <2> QED
    BY <1>2, <2>1, <2>2 DEF Message
<1>4. seen' = [seen EXCEPT ![k] = [seen[k] EXCEPT ![n] = new]]
  BY <1>1
<1>5. /\ seen' \in [Others -> Seq(Message)]
      /\ Len(seen'[k]) = n /\ seen'[k][n] = new
      /\ \A i \in 1..(n - 1) : seen'[k][i] = seen[k][i]
      /\ \A j \in Others : j # k => seen'[j] = seen[j]
  <2>1. seen[k] \in Seq(Message) /\ seen \in [Others -> Seq(Message)]
    BY DEF TypeOK
  <2>2. [seen[k] EXCEPT ![n] = new] \in Seq(Message)
    BY <1>1, <1>3, <2>1
  <2>3. seen' \in [Others -> Seq(Message)]
    BY <1>4, <2>1, <2>2
  <2>4. seen'[k] = [seen[k] EXCEPT ![n] = new]
    BY <1>4, <2>1
  <2>5. \A j \in Others : j # k => seen'[j] = seen[j]
    BY <1>4, <2>1
  <2>6. /\ Len(seen'[k]) = n /\ seen'[k][n] = new
        /\ \A i \in 1..(n - 1) : seen'[k][i] = seen[k][i]
    <3>1. n \in 1..Len(seen[k])
      BY <1>1
    <3>2. /\ Len([seen[k] EXCEPT ![n] = new]) = Len(seen[k])
          /\ \A i \in 1..Len(seen[k]) :
                [seen[k] EXCEPT ![n] = new][i] = IF i = n THEN new ELSE seen[k][i]
      BY <1>3, <2>1, <3>1, ExceptSeq
    <3> HIDE DEF new
    <3>3. Len(seen'[k]) = n /\ seen'[k][n] = new
      BY <1>1, <2>4, <3>1, <3>2
    <3>4. ASSUME NEW i \in 1..(n - 1) PROVE seen'[k][i] = seen[k][i]
      <4>1. i \in 1..Len(seen[k]) /\ i # n
        BY <1>1
      <4> QED
        BY <2>4, <3>2, <4>1
    <3> QED
      BY <3>3, <3>4
  <2> QED
    BY <2>3, <2>5, <2>6
<1>6. PICK i \in DOMAIN calls :
          /\ calls[i].id = shm.data
          /\ method' = [method EXCEPT ![k] = calls[i].method]
  OBVIOUS
<1>7. i = n /\ calls[n].method \in Method
  <2>1. i \in 1..n /\ calls[i].id = calls[n].id
    BY <1>2, <1>6 DEF TypeOK
  <2>2. calls[i].id \in Nat
    BY <2>1, CallIds
  <2>3. calls[n] \in CallRec
    BY <1>1 DEF TypeOK
  <2> QED
    BY <1>1, <2>1, <2>2, <2>3 DEF CallsInv, CallRec
<1>8. /\ pc' \in [Ranks -> Between \cup Before \cup Leaving
                         \cup {"wake", "execute", "gather", "data", "clear"}]
      /\ pc'[k] = "clear" /\ \A j \in Ranks : j # k => pc'[j] = pc[j]
  BY DEF TypeOK
<1>9. /\ method' \in [Ranks -> Method]
      /\ method'[k] = calls[n].method /\ \A j \in Ranks : j # k => method'[j] = method[j]
  BY <1>6, <1>7 DEF TypeOK
<1>10. TypeOK'
  BY <1>5, <1>8, <1>9 DEF TypeOK
<1>11. Rank0Inv' /\ CallsInv'
  BY <1>8, <1>9 DEF TypeOK, Rank0Inv, CallsInv
<1>12. ASSUME NEW j \in Others PROVE Progress(j)'
  <2>1. CASE j = k
    BY <1>1, <1>5, <1>8, <1>9, <2>1 DEF TypeOK, Progress, Woken, Counts
  <2>2. CASE j # k
    <3>1. /\ pc'[j] = pc[j] /\ pc'[0] = pc[0] /\ method'[j] = method[j]
          /\ seen'[j] = seen[j] /\ UNCHANGED <<event, toWake, calls, launched>>
      BY <1>5, <1>8, <1>9, <1>12, <2>2
    <3> QED
      BY <1>12, <3>1 DEF Progress, Woken, Unread, Counts
  <2> QED
    BY <2>1, <2>2
<1>13. ASSUME NEW j \in Others PROVE ReadWhole(j)'
  <2>1. CASE j = k
    BY <1>1, <1>3, <1>5, <1>8, <2>1 DEF ReadWhole
  <2>2. CASE j # k
    BY <1>5, <1>8, <1>13, <2>2 DEF ReadWhole
  <2> QED
    BY <2>1, <2>2
<1> QED
  BY <1>10, <1>11, <1>12, <1>13

\* Executing a call ends it for one rank.
LEMMA StepExecute ==
    ASSUME IndInv, NEW k \in Ranks, Execute(k)
    PROVE  IndInv'
<1> USE RanksFacts DEF IndInv, Execute, Goto, callVars
<1>1. /\ pc[k] = "execute" /\ UNCHANGED <<exists, shm, event, arrived, method, callVars, seen>>
      /\ \/ /\ method[k] = "run"
            /\ pc' = [pc EXCEPT ![k] = IF k = 0 THEN "gather" ELSE "wait"]
            /\ launched' = [launched EXCEPT ![k] = @ + 1]
         \/ /\ method[k] = "exit"
            /\ pc' = [pc EXCEPT ![k] = "exit"]
            /\ launched' = launched
  BY Zenon
<1>2. TypeOK'
  <2>1. launched[k] + 1 \in Nat
    BY DEF TypeOK
  <2>2. launched' \in [Ranks -> Nat]
    BY <1>1, <2>1 DEF TypeOK
  <2> QED
    BY <1>1, <2>2 DEF TypeOK, Before, Leaving
<1>3. Rank0Inv'
  BY <1>1 DEF TypeOK, Rank0Inv, Between, Leaving
<1>4. CallsInv'
  BY <1>1 DEF TypeOK, CallsInv, Between
<1>5. ASSUME NEW j \in Others PROVE Progress(j)'
  <2>1. CASE k = 0
    <3>1. pc'[j] = pc[j] /\ launched'[j] = launched[j] /\ pc'[0] \notin Between
      BY <1>1, <1>5, <2>1 DEF TypeOK, Between
    <3>2. pc[0] \notin Between
      BY <1>1, <2>1 DEF Between
    <3> QED
      BY <1>1, <1>5, <3>1, <3>2 DEF Progress, Woken, Unread, Counts
  <2>2. CASE k # 0 /\ j # k
    <3>1. pc'[j] = pc[j] /\ launched'[j] = launched[j] /\ pc'[0] = pc[0]
      BY <1>1, <1>5, <2>2 DEF TypeOK
    <3> QED
      BY <1>1, <1>5, <3>1 DEF Progress, Woken, Unread, Counts
  <2>3. CASE k # 0 /\ j = k
    <3>1. /\ pc[0] \notin Between /\ k \notin toWake /\ ~event[k]
          /\ Counts(k, Len(calls), Len(calls) - 1) /\ Len(calls) \in Nat
      <4>1. pc[k] = "execute" /\ Progress(k) /\ Len(calls) \in Nat
        BY <1>1, <1>5, <2>3 DEF TypeOK
      <4>2. pc[k] \notin Before \cup Leaving
        BY <4>1 DEF Before, Leaving
      <4> QED
        BY <4>1, <4>2 DEF Progress, Woken, Unread
    <3>2. pc'[0] = pc[0]
      BY <1>1, <2>3 DEF TypeOK
    <3> QED
      BY <1>1, <2>3, <3>1, <3>2 DEF TypeOK, Progress, Woken, Counts, Leaving
  <2> QED
    BY <2>1, <2>2, <2>3
<1>6. ASSUME NEW j \in Others PROVE ReadWhole(j)'
  BY <1>1, <1>6, ReadWholeKept DEF TypeOK
<1> QED
  BY <1>2, <1>3, <1>4, <1>5, <1>6

\* Every step preserves the invariant.
LEMMA IndInvNext == IndInv /\ [Next]_vars => IndInv'
<1> SUFFICES ASSUME IndInv, [Next]_vars PROVE IndInv'
  OBVIOUS
<1>1. CASE Rank0 \/ Exit
  BY <1>1, StepRank0Life, StepWriteLength, StepWriteData, StepWriteDataRaises,
     StepWake, StepGather DEF Rank0, Exit, Method
<1>2. ASSUME NEW k \in Others, Other(k) PROVE IndInv'
  BY <1>2, StepOpen, StepReadLength, StepReadData, StepClear DEF Other
<1>3. ASSUME NEW k \in Ranks, AnyRank(k) PROVE IndInv'
  BY <1>3, StepArrive, StepLeave, StepExecute DEF AnyRank
<1>4. CASE UNCHANGED vars
  BY <1>4 DEF vars, IndInv, TypeOK, Rank0Inv, CallsInv, Progress, Woken, Unread,
     Counts, ReadWhole
<1> QED
  BY <1>1, <1>2, <1>3, <1>4 DEF Next

\* The invariant holds in every reachable state.
THEOREM Invariance == Spec => []IndInv
BY IndInvInit, IndInvNext, PTL DEF Spec

\* write_shm never overtakes a reader: every rank repeats every call of rank 0,
\* once, in order and read whole, for any number of ranks and calls.
THEOREM RanksInLockstep == Spec => []Lockstep
<1>1. IndInv => Lockstep
  <2> SUFFICES ASSUME IndInv, NEW k \in Others
               PROVE  /\ Len(seen[k]) \in {Len(calls) - 1, Len(calls)}
                      /\ pc[k] # "data" =>
                            \A i \in DOMAIN seen[k] :
                                seen[k][i] = [len |-> calls[i].id, data |-> calls[i].id]
    BY DEF Lockstep
  <2>1. Len(seen[k]) \in {Len(calls) - 1, Len(calls)}
    BY DEF IndInv, Progress, Woken, Unread, Counts
  <2>2. ASSUME pc[k] # "data", NEW i \in DOMAIN seen[k]
        PROVE  seen[k][i] = [len |-> calls[i].id, data |-> calls[i].id]
    <3>1. seen[k][i] \in Message /\ i \in 1..Len(seen[k])
      BY <2>2 DEF IndInv, TypeOK
    <3>2. seen[k][i].len = calls[i].id /\ seen[k][i].data = calls[i].id
      BY <2>2, <3>1 DEF IndInv, ReadWhole
    <3> QED
      BY <3>1, <3>2 DEF Message
  <2> QED
    BY <2>1, <2>2
<1> QED
  BY <1>1, Invariance, PTL

---------------------------------------------------------------------------
(* The life of the shared memory *)

\* The memory exists from CreateShm to the end of the second barrier, and every
\* other rank lives between the two.
MemoryInv ==
    /\ exists <=> pc[0] \notin {"create", "join", "ended"}
    /\ \A k \in Ranks :
          /\ k \in arrived["init"] => pc[k] \notin {"create", "init"}
          /\ k \in arrived["exit"] => pc[k] \in {"exitBarrier", "join", "ended"}
          /\ k # 0 /\ pc[k] \notin {"init", "initBarrier"} => AllArrived("init")
          /\ pc[k] # "crashed"
    /\ pc[0] \in {"join", "ended"} => AllArrived("exit")

\* No rank meets a shared memory that is not there yet or not there any more.
NoRankCrashes == \A k \in Ranks : pc[k] # "crashed"

\* A step of one rank that touches neither the barriers nor the memory.
LEMMA MemoryKept ==
    ASSUME TypeOK, MemoryInv, UNCHANGED <<exists, arrived>>, NEW k \in Ranks,
           NEW to, pc' = [pc EXCEPT ![k] = to],
           to \notin {"create", "init", "initBarrier", "join", "ended", "crashed"},
           pc[k] \notin {"create", "init", "initBarrier", "exitBarrier", "join", "ended"}
    PROVE  MemoryInv'
<1>1. pc'[k] = to /\ \A j \in Ranks : j # k => pc'[j] = pc[j]
  BY DEF TypeOK
<1> QED
  BY <1>1, RanksFacts DEF MemoryInv, AllArrived

\* Every step preserves it.
LEMMA MemoryInvNext == TypeOK /\ MemoryInv /\ [Next]_vars => MemoryInv'
<1> SUFFICES ASSUME TypeOK, MemoryInv, [Next]_vars PROVE MemoryInv'
  OBVIOUS
<1> USE RanksFacts
<1>1. CASE CreateShm
  BY <1>1 DEF CreateShm, Goto, TypeOK, MemoryInv, AllArrived
<1>2. CASE Join
  BY <1>2 DEF Join, Goto, TypeOK, MemoryInv, AllArrived
<1>3. CASE \E m \in Method : WriteLength(m)
  BY <1>3, MemoryKept DEF WriteLength, Goto
<1>4. CASE WriteData
  BY <1>4, MemoryKept DEF WriteData, Goto
<1>5. CASE WriteDataRaises
  BY <1>5, MemoryKept DEF WriteDataRaises, Goto
<1>6. CASE Wake
  BY <1>6 DEF Wake, MemoryInv, AllArrived
<1>7. CASE WakeEnd
  BY <1>7, MemoryKept DEF WakeEnd, Goto
<1>8. CASE Gather
  BY <1>8, MemoryKept DEF Gather, Goto
<1>9. ASSUME NEW k \in Others, OpenShm(k) PROVE MemoryInv'
  <2>1. pc[k] = "open" /\ UNCHANGED <<exists, arrived>>
    BY <1>9 DEF OpenShm, Goto
  <2>2. exists
    BY <1>9, <2>1 DEF MemoryInv, AllArrived
  <2>3. pc' = [pc EXCEPT ![k] = "wait"]
    BY <1>9, <2>2 DEF OpenShm, Goto
  <2> QED
    BY <1>9, <2>1, <2>3, MemoryKept
<1>10. ASSUME NEW k \in Others, WaitAndReadLength(k) \/ ReadData(k) \/ ClearEvent(k)
       PROVE  MemoryInv'
  BY <1>10, MemoryKept DEF WaitAndReadLength, ReadData, ClearEvent, Goto
<1>11. ASSUME NEW k \in Ranks, NEW b \in {"init", "exit"}, Arrive(k, b)
       PROVE  MemoryInv'
  BY <1>11 DEF Arrive, Goto, TypeOK, MemoryInv, AllArrived
<1>12. ASSUME NEW k \in Ranks, LeaveInit(k) PROVE MemoryInv'
  BY <1>12 DEF LeaveInit, Goto, TypeOK, MemoryInv, AllArrived
<1>13. ASSUME NEW k \in Ranks, LeaveExit(k) PROVE MemoryInv'
  BY <1>13 DEF LeaveExit, Goto, TypeOK, MemoryInv, AllArrived
<1>14. ASSUME NEW k \in Ranks, Execute(k) PROVE MemoryInv'
  <2>1. PICK to \in {"gather", "wait", "exit"} :
            pc[k] = "execute" /\ pc' = [pc EXCEPT ![k] = to]
    BY <1>14, Zenon DEF Execute, Goto
  <2> QED
    BY <1>14, <2>1, MemoryKept DEF Execute
<1>15. CASE UNCHANGED vars
  BY <1>15 DEF vars, MemoryInv, AllArrived
<1> QED
  BY <1>1, <1>2, <1>3, <1>4, <1>5, <1>6, <1>7, <1>8, <1>9, <1>10, <1>11, <1>12,
     <1>13, <1>14, <1>15 DEF Next, Rank0, Exit, Other, AnyRank, Method

\* However the ranks are scheduled between the two barriers, the other ranks
\* open the shared memory after rank 0 created it and before it unlinks it.
THEOREM MemoryIsThere == Spec => []NoRankCrashes
<1>1. Init => MemoryInv
  BY RanksFacts DEF Init, MemoryInv, AllArrived
<1>2. IndInv => TypeOK
  BY DEF IndInv
<1>3. MemoryInv => NoRankCrashes
  BY DEF MemoryInv, NoRankCrashes
<1> QED
  BY <1>1, <1>2, <1>3, MemoryInvNext, Invariance, PTL DEF Spec
=============================================================================
