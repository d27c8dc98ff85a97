-------------------------- MODULE SchedulerProofs --------------------------
(***************************************************************************)
(* Proofs about Scheduler, for any requests, cache, limits and policies:   *)
(* every step meets the obligations of the block manager, so BMSpec and    *)
(* all that BlockManagerProofs shows of it hold of the scheduler; queues   *)
(* agree with statuses, ranks agree on tokens, reserved pages stay hidden. *)
(***************************************************************************)
EXTENDS Scheduler, BlockManagerProofs

\* The control points of the prefill loop, those with a request at hand, and
\* those of the decode loop and of execution.
Choosing   == {"ensure", "evict", "resume", "allocate", "restore", "abortRestore", "admit"}
Prefilling == Choosing \cup {"prefill"}
Decoding   == {"decode", "append"}
Executing  == {"run", "post", "finish"}
Outside    == {"idle", "step", "waitAny"}

Statuses == {"new", "waiting", "running", "waiting_for_kv", "finished", "cancelled"}

Locals == [scheduled : Seq(Seqs), batched : 0..MaxNumBatched, deferred : SUBSET Seqs,
           residentOnly : BOOLEAN, retryPrefill : BOOLEAN, second : BOOLEAN,
           isPrefill : BOOLEAN, cur : Seqs \cup {NoSeq}, hit : Nat]

QueueTyped ==
    /\ waiting \in Seq(Seqs) /\ running \in Seq(Seqs)
    /\ pending \in [DOMAIN pending -> Nat] /\ DOMAIN pending \subseteq Seqs
    /\ status \in [Seqs -> Statuses]
    /\ attempted \in [Seqs -> BOOLEAN] /\ inPrefill \in [Seqs -> BOOLEAN]
    /\ pc \in Prefilling \cup Decoding \cup Executing \cup Outside \cup {"failActive", "error"}
    /\ loop \in Locals

\* cur is being reserved for a restore that could not start.
Aborting(s) == pc = "abortRestore" /\ s = loop.cur
\* cur was answered and is about to leave.
Finishing(s) == pc = "finish" /\ s = loop.cur
\* The decode loop has taken s from the running queue.
Popped(s) == pc \in Decoding /\ (s \in Scheduled \/ (pc = "append" /\ s = loop.cur))

\* The queue of s is the one its status names, but for the handler at work.
QueuedAt(s) ==
    /\ s \in Range(waiting) <=> status[s] = "waiting" \/ Aborting(s)
    /\ s \in DOMAIN pending \/ Aborting(s) <=> status[s] = "waiting_for_kv"
    /\ Aborting(s) => s \notin DOMAIN pending
    /\ s \in Range(running) \/ Popped(s) <=> status[s] = "running" \/ Finishing(s)
    /\ Finishing(s) => status[s] = "finished"
    /\ Popped(s) => s \notin Range(running)

QueueInv ==
    /\ IsInjective(waiting) /\ IsInjective(running) /\ IsInjective(loop.scheduled)
    /\ pc = "append" => loop.cur \notin Scheduled
    /\ \A s \in Seqs : QueuedAt(s)

\* A request in a prefill batch: complete and running, or a waiting chunk.
PrefillMember(s) ==
    /\ ~Idle(s) /\ ~compressed[s] /\ inPrefill[s]
    /\ \/ status[s] = "running" /\ numCached[s] + numScheduled[s] = Len(tokens[s])
       \/ /\ status[s] = "waiting" /\ numCached[s] + numScheduled[s] < Len(tokens[s])
          /\ loop.batched = MaxNumBatched

DecodeMember(s) == status[s] = "running" /\ numScheduled[s] = 1 /\ NewestMissing(s)

\* What the batch being built, run or postprocessed consists of.
BatchInv ==
    /\ pc \in Outside => loop = Fresh
    /\ pc \in Prefilling \cup Decoding => ~loop.isPrefill
    /\ pc \in Prefilling \/ (pc \in Executing /\ loop.isPrefill) =>
          \A s \in Scheduled : PrefillMember(s)
    /\ pc \in Decoding \/ (pc \in Executing /\ ~loop.isPrefill) =>
          \A s \in Scheduled : DecodeMember(s)
    /\ pc # "failActive" => \A s \in Seqs : ~Idle(s) => s \in Scheduled
    /\ pc = "failActive" => \A s \in Seqs : ~Idle(s) => s \in Range(waiting) \cup Range(running)
    /\ pc = "run" => loop.scheduled # <<>>

\* A batch that was run has its KV in place.
RunInv ==
    pc \in {"post", "finish"} =>
        \A s \in Scheduled : \A w \in KVWrites({s}, loop.isPrefill) :
            kv[w.block][w.slot] = w.prefix

\* A request by its status.
WaitingAt(s) ==
    /\ numCached[s] < Len(tokens[s])
    /\ Resident(s) /\ Retained(s) < NumBlocks(s) => numCached[s] = Retained(s) * BlockSize

PendingAt(s) ==
    /\ Retained(s) = NumBlocks(s)
    /\ numCached[s] % BlockSize = 0
    /\ numCached[s] \div BlockSize < pending[s] /\ pending[s] <= CacheableBlocks(s)

RequestAt(s) ==
    /\ s \in Range(waiting) => WaitingAt(s)
    /\ s \in DOMAIN pending => PendingAt(s)
    /\ status[s] = "running" /\ Idle(s) => DecodeReady(s)
    /\ compressed[s] => status[s] = "running" \/ Finishing(s)
    /\ status[s] \in {"new", "waiting", "waiting_for_kv"} => inPrefill[s]
    /\ Len(tokens[s]) <= Len(Prompt[s]) + MaxTokens[s]
    /\ status[s] \in {"new", "waiting", "running", "waiting_for_kv"} =>
          Len(tokens[s]) < Len(Prompt[s]) + MaxTokens[s]

RequestInv == \A s \in Seqs : RequestAt(s)

\* can_allocate was asked for s and its answer still holds.
Planned(s) ==
    /\ AllocatePlan(s, loop.hit) = LookupCachedBlocks(s)
    /\ loop.hit = Len(LookupCachedBlocks(s))
    /\ CanAllocate(s)

\* The pages of s are those a repeated can_allocate and allocate would find.
Reserved(s) ==
    /\ Retained(s) = NumBlocks(s)
    /\ s \notin DOMAIN pendingMatches
    /\ loop.hit = Len(LookupCachedBlocks(s))
    /\ \A i \in 1..loop.hit : blockTable[s][i] = LookupCachedBlocks(s)[i]
    /\ numCached[s] = loop.hit * BlockSize

CurInv ==
    LET s == loop.cur
    IN  /\ pc \in Choosing => /\ s \in Range(waiting) /\ loop.batched < MaxNumBatched
                              /\ Len(loop.scheduled) < MaxNumSeqs
        /\ pc \in {"evict", "resume"} => Resident(s)
        /\ pc = "resume" => /\ s \in DOMAIN pendingResume
                            /\ pendingResume[s] = ResumeSuffix(s)
                            /\ CanResume(s)
        /\ pc \in {"allocate", "restore"} => ~Resident(s)
        /\ pc = "restore" => Planned(s)
        /\ pc = "admit" => IF Resident(s) THEN Retained(s) = NumBlocks(s) ELSE Planned(s)
        /\ pc = "abortRestore" => Reserved(s)
        /\ pc \in {"append", "finish"} => s \in Seqs
        /\ pc = "append" => Len(loop.scheduled) < MaxNumSeqs
        /\ pc = "finish" => s \notin Scheduled

\* The keys of the tree are whole pages.
KeysAligned ==
    Backend = "radix" =>
        \A key \in DOMAIN index : key # <<>> /\ Len(key) % BlockSize = 0

CoreInv ==
    /\ QueueTyped /\ QueueInv /\ BatchInv /\ RunInv /\ RequestInv
    /\ NoOrphanPages /\ KeysAligned

SchedInv == CoreInv /\ CurInv

SInv == IndInv /\ SchedInv

---------------------------------------------------------------------------
(* Queues without repetitions *)

LEMMA QueueRange ==
    ASSUME NEW T, NEW q \in Seq(T)
    PROVE  /\ Len(q) \in Nat /\ DOMAIN q = 1..Len(q) /\ \A i \in 1..Len(q) : q[i] \in T
           /\ Range(q) = {q[i] : i \in 1..Len(q)} /\ Range(q) \subseteq T
           /\ (q = <<>> <=> Range(q) = {})
<1>1. Len(q) \in Nat /\ DOMAIN q = 1..Len(q) /\ \A i \in 1..Len(q) : q[i] \in T
  BY LenProperties, ElementOfSeq
<1>2. q = <<>> <=> Len(q) = 0
  BY EmptySeq
<1>3. Range(q) = {q[i] : i \in 1..Len(q)}
  BY <1>1 DEF Range
<1>4. Range(q) \subseteq T
  BY <1>1, <1>3
<1>5. Range(q) = {} <=> Len(q) = 0
  <2>1. ASSUME Len(q) # 0 PROVE Range(q) # {}
    <3>1. 1 \in 1..Len(q)
      BY <1>1, <2>1
    <3> QED
      BY <1>3, <3>1
  <2>2. ASSUME Len(q) = 0 PROVE Range(q) = {}
    BY <1>3, <2>2
  <2> QED
    BY <2>1, <2>2
<1> QED
  BY <1>1, <1>2, <1>3, <1>4, <1>5

\* RemoveFirst takes the e of a queue out of it.
LEMMA RemoveFromQueue ==
    ASSUME NEW T, NEW s \in Seq(T), IsInjective(s), NEW e
    PROVE  /\ RemoveFirst(s, e) \in Seq(T)
           /\ Range(RemoveFirst(s, e)) = Range(s) \ {e}
           /\ IsInjective(RemoveFirst(s, e))
<1>0. Len(s) \in Nat /\ DOMAIN s = 1..Len(s) /\ \A i \in 1..Len(s) : s[i] \in T
  BY LenProperties, ElementOfSeq
<1> DEFINE I == {i \in 1..Len(s) : s[i] = e}
<1>1. CASE I = {}
  <2>1. RemoveFirst(s, e) = s
    BY <1>1 DEF RemoveFirst
  <2>2. e \notin Range(s)
    BY <1>0, <1>1 DEF Range
  <2> QED
    BY <1>1, <2>1, <2>2
<1>2. CASE I # {}
  <2>1. PICK m \in I : \A i \in I : m <= i
    <3>1. I \subseteq Nat
      OBVIOUS
    <3> HIDE DEF I
    <3> QED
      BY <1>2, <3>1, Least
  <2>2. SelectInSeq(s, LAMBDA v : v = e) = m
    <3>1. SelectInSeq(s, LAMBDA v : v = e) = Min(I)
      BY <1>2 DEF SelectInSeq
    <3>2. Min(I) = m
      <4>1. I \subseteq Nat
        OBVIOUS
      <4> HIDE DEF I
      <4>2. Min(I) \in I /\ \A i \in I : Min(I) <= i
        BY <2>1, Zenon DEF Min
      <4>3. PICK k \in I : k = Min(I) /\ \A i \in I : k <= i
        BY <4>2, Zenon
      <4>4. k <= m /\ m <= k /\ k \in Nat /\ m \in Nat
        BY <2>1, <4>1, <4>3
      <4>5. k = m
        BY <4>4
      <4> QED
        BY <4>3, <4>5, Zenon
    <3> QED
      BY <3>1, <3>2
  <2>3. m \in 1..Len(s) /\ s[m] = e
    BY <2>1
  <2> DEFINE a == SubSeq(s, 1, m - 1)
             b == SubSeq(s, m + 1, Len(s))
             r == RemoveFirst(s, e)
  <2>4. r = a \o b
    BY <1>2, <2>2 DEF RemoveFirst, RemoveAt
  <2>5. /\ a \in Seq(T) /\ Len(a) = m - 1 /\ \A i \in 1..(m - 1) : a[i] = s[i]
        /\ b \in Seq(T) /\ Len(b) = Len(s) - m /\ \A i \in 1..(Len(s) - m) : b[i] = s[m + i]
    <3>1. /\ \A i \in 1..(m - 1) : s[i] \in T
          /\ \A i \in (m + 1)..Len(s) : s[i] \in T
          /\ m - 1 \in Int /\ m + 1 \in Int /\ Len(s) \in Int
      BY <1>0, <2>3
    <3>2. /\ a \in Seq(T) /\ Len(a) = m - 1 /\ \A i \in 1..(m - 1) : a[i] = s[i]
      <4>1. /\ a \in Seq(T) /\ Len(a) = IF 1 <= m - 1 THEN (m - 1) - 1 + 1 ELSE 0
            /\ \A i \in 1..((m - 1) - 1 + 1) : a[i] = s[1 + i - 1]
        BY <3>1, SubSeqProperties
      <4> HIDE DEF a
      <4> QED
        BY <2>3, <4>1
    <3>3. /\ b \in Seq(T) /\ Len(b) = Len(s) - m
          /\ \A i \in 1..(Len(s) - m) : b[i] = s[m + i]
      <4>1. /\ b \in Seq(T) /\ Len(b) = IF m + 1 <= Len(s) THEN Len(s) - (m + 1) + 1 ELSE 0
            /\ \A i \in 1..(Len(s) - (m + 1) + 1) : b[i] = s[(m + 1) + i - 1]
        BY <3>1, SubSeqProperties
      <4>2. \A i \in 1..(Len(s) - m) : (m + 1) + i - 1 = m + i
        BY <1>0, <2>3
      <4>3. Len(s) - (m + 1) + 1 = Len(s) - m /\ m \in Nat
        BY <1>0, <2>3
      <4>4. Len(b) = Len(s) - m
        <5>1. PICK n \in Nat : n = Len(s) /\ m \in 1..n
          BY <1>0, <2>3
        <5>2. (IF m + 1 <= n THEN n - (m + 1) + 1 ELSE 0) = n - m
          BY <5>1
        <5> QED
          BY <4>1, <5>1, <5>2
      <4>5. ASSUME NEW i \in 1..(Len(s) - m) PROVE b[i] = s[m + i]
        <5>1. b[i] = s[(m + 1) + i - 1] /\ (m + 1) + i - 1 = m + i
          BY <4>1, <4>2, <4>3
        <5> HIDE DEF b
        <5> QED
          BY <5>1
      <4> HIDE DEF b
      <4> QED
        BY <4>1, <4>4, <4>5
    <3> QED
      BY <3>2, <3>3
  <2> HIDE DEF a, b
  <2>6. /\ r \in Seq(T) /\ Len(r) = Len(s) - 1
        /\ \A i \in 1..(Len(s) - 1) : r[i] = IF i < m THEN s[i] ELSE s[i + 1]
    <3>1. /\ a \o b \in Seq(T) /\ Len(a \o b) = Len(a) + Len(b)
          /\ \A i \in 1..(Len(a) + Len(b)) :
                (a \o b)[i] = IF i <= Len(a) THEN a[i] ELSE b[i - Len(a)]
      BY <2>5, ConcatProperties
    <3>2. Len(a) + Len(b) = Len(s) - 1
      BY <1>0, <2>3, <2>5
    <3>3. ASSUME NEW i \in 1..(Len(s) - 1)
          PROVE  (a \o b)[i] = IF i < m THEN s[i] ELSE s[i + 1]
      <4>1. CASE i < m
        <5>1. (a \o b)[i] = a[i]
          BY <2>3, <2>5, <3>1, <3>2, <4>1
        <5> QED
          BY <2>3, <2>5, <4>1, <5>1
      <4>2. CASE ~(i < m)
        <5>1. (a \o b)[i] = b[i - (m - 1)]
          BY <2>3, <2>5, <3>1, <3>2, <4>2
        <5>2. i - (m - 1) \in 1..(Len(s) - m) /\ m + (i - (m - 1)) = i + 1
          BY <1>0, <2>3, <4>2
        <5>3. b[i - (m - 1)] = s[m + (i - (m - 1))]
          BY <2>5, <5>2
        <5> QED
          BY <4>2, <5>1, <5>2, <5>3
      <4> QED
        BY <4>1, <4>2
    <3> QED
      BY <2>4, <3>1, <3>2, <3>3
  <2> HIDE DEF r
  <2>7. DOMAIN r = 1..(Len(s) - 1)
    BY <2>6, LenProperties
  <2>8. ASSUME NEW i \in 1..(Len(s) - 1)
        PROVE  /\ r[i] \in Range(s) /\ r[i] # e
               /\ \A j \in 1..(Len(s) - 1) : r[i] = r[j] => i = j
    <3>1. \A j \in 1..(Len(s) - 1) : \E k \in 1..Len(s) :
             r[j] = s[k] /\ k = (IF j < m THEN j ELSE j + 1)
      BY <1>0, <2>3, <2>6
    <3>2. PICK k \in 1..Len(s) : r[i] = s[k] /\ k = (IF i < m THEN i ELSE i + 1)
      BY <3>1
    <3>3. k # m
      BY <2>3, <3>2
    <3>4. s[k] # s[m]
      BY <1>0, <2>3, <3>3 DEF IsInjective
    <3>5. ASSUME NEW j \in 1..(Len(s) - 1), r[i] = r[j] PROVE i = j
      <4>1. PICK l \in 1..Len(s) : r[j] = s[l] /\ l = (IF j < m THEN j ELSE j + 1)
        BY <3>1
      <4>2. k = l
        BY <1>0, <3>2, <3>5, <4>1 DEF IsInjective
      <4> QED
        BY <2>3, <3>2, <4>1, <4>2
    <3> QED
      BY <1>0, <2>3, <3>2, <3>4, <3>5 DEF Range
  <2>9. ASSUME NEW x \in Range(s), x # e PROVE x \in Range(r)
    <3>1. PICK i \in 1..Len(s) : s[i] = x
      BY <1>0 DEF Range
    <3>2. i # m
      BY <2>3, <2>9, <3>1
    <3>3. CASE i < m
      <4>1. i \in 1..(Len(s) - 1) /\ r[i] = x
        BY <1>0, <2>3, <2>6, <3>1, <3>3
      <4> QED
        BY <2>7, <4>1 DEF Range
    <3>4. CASE i > m
      <4>1. i - 1 \in 1..(Len(s) - 1) /\ ~(i - 1 < m) /\ (i - 1) + 1 = i
        BY <1>0, <2>3, <3>4
      <4>2. r[i - 1] = x
        BY <2>6, <3>1, <4>1
      <4> QED
        BY <2>7, <4>1, <4>2 DEF Range
    <3> QED
      BY <1>0, <2>3, <3>2, <3>3, <3>4
  <2>10. Range(r) = Range(s) \ {e}
    <3>1. \A x \in Range(r) : x \in Range(s) /\ x # e
      <4> SUFFICES ASSUME NEW x \in Range(r) PROVE x \in Range(s) /\ x # e
        OBVIOUS
      <4>1. PICK i \in 1..(Len(s) - 1) : x = r[i]
        BY <2>7 DEF Range
      <4> QED
        BY <2>8, <4>1
    <3> QED
      BY <2>9, <3>1
  <2>11. IsInjective(r)
    BY <2>7, <2>8 DEF IsInjective
  <2> QED
    BY <2>6, <2>10, <2>11 DEF r
<1> QED
  BY <1>1, <1>2

LEMMA AppendToQueue ==
    ASSUME NEW T, NEW q \in Seq(T), NEW e \in T
    PROVE  /\ Append(q, e) \in Seq(T) /\ Len(Append(q, e)) = Len(q) + 1
           /\ Range(Append(q, e)) = Range(q) \cup {e}
           /\ IsInjective(q) /\ e \notin Range(q) => IsInjective(Append(q, e))
<1>1. /\ Append(q, e) \in Seq(T) /\ Len(Append(q, e)) = Len(q) + 1
      /\ \A i \in 1..Len(q) : Append(q, e)[i] = q[i] /\ Append(q, e)[Len(q) + 1] = e
  BY AppendProperties
<1>2. Len(q) \in Nat /\ DOMAIN q = 1..Len(q) /\ DOMAIN Append(q, e) = 1..(Len(q) + 1)
  BY <1>1, LenProperties
<1>3. Append(q, e)[Len(q) + 1] = e
  BY AppendProperties
<1>4. \A i \in 1..(Len(q) + 1) : i \in 1..Len(q) \/ i = Len(q) + 1
  BY <1>2
<1>5. Range(Append(q, e)) = Range(q) \cup {e}
  <2>1. \A i \in 1..(Len(q) + 1) : Append(q, e)[i] \in Range(q) \cup {e}
    BY <1>1, <1>2, <1>3, <1>4 DEF Range
  <2>2. \A i \in 1..Len(q) : i \in 1..(Len(q) + 1) /\ q[i] = Append(q, e)[i]
    BY <1>1, <1>2
  <2>3. Len(q) + 1 \in 1..(Len(q) + 1)
    BY <1>2
  <2> QED
    BY <1>2, <1>3, <2>1, <2>2, <2>3 DEF Range
<1>6. ASSUME IsInjective(q), e \notin Range(q) PROVE IsInjective(Append(q, e))
  BY <1>1, <1>2, <1>3, <1>4, <1>6 DEF IsInjective, Range
<1> QED
  BY <1>1, <1>5, <1>6

LEMMA ConcatQueues ==
    ASSUME NEW T, NEW q \in Seq(T), NEW r \in Seq(T)
    PROVE  /\ q \o r \in Seq(T) /\ Len(q \o r) = Len(q) + Len(r)
           /\ Range(q \o r) = Range(q) \cup Range(r)
           /\ IsInjective(q) /\ IsInjective(r) /\ Range(q) \cap Range(r) = {}
                 => IsInjective(q \o r)
<1>1. /\ q \o r \in Seq(T) /\ Len(q \o r) = Len(q) + Len(r)
      /\ \A i \in 1..(Len(q) + Len(r)) :
            (q \o r)[i] = IF i <= Len(q) THEN q[i] ELSE r[i - Len(q)]
  BY ConcatProperties
<1>2. /\ Len(q) \in Nat /\ DOMAIN q = 1..Len(q) /\ Len(r) \in Nat /\ DOMAIN r = 1..Len(r)
      /\ DOMAIN (q \o r) = 1..(Len(q) + Len(r))
  BY <1>1, LenProperties
<1> DEFINE c == q \o r
<1> HIDE DEF c
<1>3. /\ DOMAIN c = 1..(Len(q) + Len(r))
      /\ \A i \in 1..Len(q) : c[i] = q[i] /\ i \in DOMAIN c
      /\ \A i \in 1..Len(r) : c[Len(q) + i] = r[i] /\ Len(q) + i \in DOMAIN c
      /\ \A i \in DOMAIN c : i \in 1..Len(q) \/ \E j \in 1..Len(r) : i = Len(q) + j
  <2>1. \A i \in 1..Len(q) : c[i] = q[i] /\ i \in DOMAIN c
    BY <1>1, <1>2 DEF c
  <2>2. ASSUME NEW i \in 1..Len(r) PROVE c[Len(q) + i] = r[i] /\ Len(q) + i \in DOMAIN c
    <3>1. Len(q) + i \in 1..(Len(q) + Len(r)) /\ ~(Len(q) + i <= Len(q))
          /\ (Len(q) + i) - Len(q) = i
      BY <1>2
    <3> QED
      BY <1>1, <1>2, <3>1 DEF c
  <2>3. ASSUME NEW i \in DOMAIN c, i \notin 1..Len(q)
        PROVE  \E j \in 1..Len(r) : i = Len(q) + j
    <3>1. i - Len(q) \in 1..Len(r) /\ i = Len(q) + (i - Len(q))
      BY <1>2, <2>3 DEF c
    <3> QED
      BY <3>1
  <2> QED
    BY <1>2, <2>1, <2>2, <2>3 DEF c
<1>4. Range(c) = Range(q) \cup Range(r)
  <2>1. \A x \in Range(c) : x \in Range(q) \cup Range(r)
    BY <1>2, <1>3 DEF Range
  <2>2. \A x \in Range(q) \cup Range(r) : x \in Range(c)
    BY <1>2, <1>3 DEF Range
  <2> QED
    BY <2>1, <2>2
<1>5. ASSUME IsInjective(q), IsInjective(r), Range(q) \cap Range(r) = {} PROVE IsInjective(c)
  <2> SUFFICES ASSUME NEW a \in DOMAIN c, NEW b \in DOMAIN c, c[a] = c[b] PROVE a = b
    BY DEF IsInjective
  <2>1. (\A i \in 1..Len(q) : q[i] \in Range(q)) /\ (\A i \in 1..Len(r) : r[i] \in Range(r))
    BY <1>2 DEF Range
  <2>2. CASE a \in 1..Len(q) /\ b \in 1..Len(q)
    BY <1>2, <1>3, <1>5, <2>2 DEF IsInjective
  <2>3. ASSUME NEW i \in 1..Len(r), NEW j \in 1..Len(r), a = Len(q) + i, b = Len(q) + j
        PROVE  a = b
    <3>1. r[i] = r[j]
      BY <1>3, <2>3
    <3>2. i = j
      BY <1>2, <1>5, <3>1 DEF IsInjective
    <3> QED
      BY <2>3, <3>2
  <2>4. \A i \in 1..Len(q), j \in 1..Len(r) : c[i] # c[Len(q) + j]
    BY <1>3, <1>5, <2>1
  <2> QED
    BY <1>3, <2>2, <2>3, <2>4
<1> QED
  BY <1>1, <1>4, <1>5 DEF c

LEMMA PushToQueue ==
    ASSUME NEW T, NEW q \in Seq(T), NEW e \in T
    PROVE  /\ <<e>> \o q \in Seq(T)
           /\ Range(<<e>> \o q) = Range(q) \cup {e}
           /\ IsInjective(q) /\ e \notin Range(q) => IsInjective(<<e>> \o q)
<1>1. <<e>> \in Seq(T) /\ DOMAIN <<e>> = {1} /\ <<e>>[1] = e
  OBVIOUS
<1>2. Range(<<e>>) = {e}
  <2>1. Range(<<e>>) = {<<e>>[i] : i \in {1}}
    BY <1>1, Zenon DEF Range
  <2> QED
    BY <1>1, <2>1
<1>3. IsInjective(<<e>>)
  BY <1>1 DEF IsInjective
<1> DEFINE p == <<e>>
<1>4. p \in Seq(T) /\ Range(p) = {e} /\ IsInjective(p)
  BY <1>1, <1>2, <1>3
<1> HIDE DEF p
<1>5. /\ p \o q \in Seq(T) /\ Range(p \o q) = Range(q) \cup {e}
      /\ IsInjective(q) /\ e \notin Range(q) => IsInjective(p \o q)
  BY <1>4, ConcatQueues
<1> QED
  BY <1>5 DEF p

LEMMA TailOfQueue ==
    ASSUME NEW T, NEW q \in Seq(T), q # <<>>
    PROVE  /\ Head(q) \in T /\ Head(q) \in Range(q) /\ Tail(q) \in Seq(T)
           /\ Len(Tail(q)) = Len(q) - 1
           /\ Range(Tail(q)) \subseteq Range(q)
           /\ IsInjective(q) => /\ Range(Tail(q)) = Range(q) \ {Head(q)}
                                /\ IsInjective(Tail(q))
<1>1. /\ Tail(q) \in Seq(T) /\ Len(Tail(q)) = Len(q) - 1
      /\ \A i \in 1..(Len(q) - 1) : Tail(q)[i] = q[i + 1]
      /\ Head(q) = q[1]
  BY HeadTailProperties
<1>2. Len(q) \in Nat /\ Len(q) > 0 /\ DOMAIN q = 1..Len(q) /\ DOMAIN Tail(q) = 1..(Len(q) - 1)
      /\ \A i \in 1..Len(q) : q[i] \in T
  BY <1>1, QueueRange, EmptySeq, LenProperties
<1> DEFINE t == Tail(q)
<1>3. DOMAIN t = 1..(Len(q) - 1) /\ \A i \in 1..(Len(q) - 1) : t[i] = q[i + 1]
  BY <1>1, <1>2
<1> HIDE DEF t
<1>4. Range(t) \subseteq Range(q)
  BY <1>2, <1>3 DEF Range
<1>5. ASSUME IsInjective(q) PROVE Range(t) = Range(q) \ {q[1]} /\ IsInjective(t)
  <2>1. \A i \in 1..(Len(q) - 1) : i + 1 \in 1..Len(q) /\ i + 1 # 1
    BY <1>2
  <2>2. \A x \in Range(t) : x # q[1]
    BY <1>2, <1>3, <1>5, <2>1 DEF Range, IsInjective
  <2>3. ASSUME NEW x \in Range(q), x # q[1] PROVE x \in Range(t)
    <3>1. PICK i \in 1..Len(q) : q[i] = x
      BY <1>2 DEF Range
    <3>2. i - 1 \in 1..(Len(q) - 1) /\ (i - 1) + 1 = i
      BY <1>2, <2>3, <3>1
    <3>3. t[i - 1] = x
      BY <1>3, <3>1, <3>2
    <3> QED
      BY <1>3, <3>2, <3>3 DEF Range
  <2>4. IsInjective(t)
    <3> SUFFICES ASSUME NEW a \in 1..(Len(q) - 1), NEW b \in 1..(Len(q) - 1), t[a] = t[b]
                 PROVE  a = b
      BY <1>3 DEF IsInjective
    <3>1. a + 1 = b + 1
      BY <1>2, <1>3, <1>5, <2>1 DEF IsInjective
    <3> QED
      BY <3>1
  <2> QED
    BY <1>4, <2>2, <2>3, <2>4
<1>6. q[1] \in Range(q) /\ q[1] \in T
  BY <1>2 DEF Range
<1> QED
  BY <1>1, <1>4, <1>5, <1>6 DEF t

---------------------------------------------------------------------------
(* What a step leaves alone *)

LEMMA SameRequest ==
    ASSUME NEW t \in Seqs, Untouched(t)
    PROVE  /\ Idle(t)' <=> Idle(t)
           /\ Resident(t)' <=> Resident(t)
           /\ Retained(t)' = Retained(t) /\ NumBlocks(t)' = NumBlocks(t)
           /\ CacheableBlocks(t)' = CacheableBlocks(t)
           /\ NewestMissing(t)' <=> NewestMissing(t)
           /\ DecodeReady(t)' <=> DecodeReady(t)
           /\ WaitingAt(t)' <=> WaitingAt(t)
<1>1. /\ Idle(t)' <=> Idle(t)
      /\ Resident(t)' <=> Resident(t)
      /\ Retained(t)' = Retained(t) /\ NumBlocks(t)' = NumBlocks(t)
      /\ NewestMissing(t)' <=> NewestMissing(t)
  BY DEF Untouched, Idle, Resident, Retained, NumBlocks, NewestMissing
<1>2. CacheableBlocks(t)' = CacheableBlocks(t)
  BY <1>1 DEF CacheableBlocks
<1>3. DecodeReady(t)' <=> DecodeReady(t)
  BY <1>1 DEF DecodeReady, Untouched
<1>4. WaitingAt(t)' <=> WaitingAt(t)
  BY <1>1 DEF WaitingAt, Untouched
<1> QED
  BY <1>1, <1>2, <1>3, <1>4

\* The queues of t and its flags are as they were.
SamePlace(t) ==
    /\ status'[t] = status[t] /\ inPrefill'[t] = inPrefill[t]
    /\ t \in Range(waiting') <=> t \in Range(waiting)
    /\ t \in DOMAIN pending' <=> t \in DOMAIN pending
    /\ t \in DOMAIN pending => pending'[t] = pending[t]

LEMMA SamePending ==
    ASSUME NEW t \in Seqs, Untouched(t), pending'[t] = pending[t], PendingAt(t)
    PROVE  PendingAt(t)'
  BY SameRequest DEF PendingAt, Untouched

LEMMA RequestKept ==
    ASSUME NEW t \in Seqs, RequestAt(t), Untouched(t), SamePlace(t), Finishing(t) => Finishing(t)'
    PROVE  RequestAt(t)'
<1>1. t \in Range(waiting') => WaitingAt(t)'
  BY SameRequest DEF RequestAt, SamePlace
<1>2. t \in DOMAIN pending' => PendingAt(t)'
  BY SamePending DEF RequestAt, SamePlace
<1>3. status'[t] = "running" /\ Idle(t)' => DecodeReady(t)'
  BY SameRequest DEF RequestAt, SamePlace
<1>4. compressed'[t] => status'[t] = "running" \/ Finishing(t)'
  BY DEF RequestAt, SamePlace, Untouched
<1>5. /\ status'[t] \in {"new", "waiting", "waiting_for_kv"} => inPrefill'[t]
      /\ Len(tokens'[t]) <= Len(Prompt[t]) + MaxTokens[t]
      /\ status'[t] \in {"new", "waiting", "running", "waiting_for_kv"} =>
            Len(tokens'[t]) < Len(Prompt[t]) + MaxTokens[t]
  BY DEF RequestAt, SamePlace, Untouched
<1> QED
  BY <1>1, <1>2, <1>3, <1>4, <1>5 DEF RequestAt

LEMMA MemberKept ==
    ASSUME NEW t \in Seqs, Untouched(t), status'[t] = status[t], inPrefill'[t] = inPrefill[t]
    PROVE  /\ PrefillMember(t) /\ loop'.batched = loop.batched => PrefillMember(t)'
           /\ DecodeMember(t) => DecodeMember(t)'
  BY SameRequest DEF PrefillMember, DecodeMember, Untouched

LEMMA SameWrites ==
    ASSUME NEW t \in Seqs, Untouched(t), NEW p
    PROVE  KVWrites({t}, p)' = KVWrites({t}, p)
  BY DEF KVWrites, Untouched, PageFor, ScheduledPositions, Retained

LEMMA LocalTypes ==
    ASSUME QueueTyped
    PROVE  /\ loop.scheduled \in Seq(Seqs) /\ loop.batched \in 0..MaxNumBatched
           /\ loop.deferred \subseteq Seqs /\ loop.residentOnly \in BOOLEAN
           /\ loop.retryPrefill \in BOOLEAN /\ loop.second \in BOOLEAN
           /\ loop.isPrefill \in BOOLEAN /\ loop.cur \in Seqs \cup {NoSeq} /\ loop.hit \in Nat
           /\ Scheduled \subseteq Seqs /\ Range(waiting) \subseteq Seqs
           /\ Range(running) \subseteq Seqs
           /\ MaxNumBatched \in Nat /\ MaxNumSeqs \in Nat
<1>1. /\ loop.scheduled \in Seq(Seqs) /\ loop.batched \in 0..MaxNumBatched
      /\ loop.deferred \subseteq Seqs /\ loop.residentOnly \in BOOLEAN
      /\ loop.retryPrefill \in BOOLEAN /\ loop.second \in BOOLEAN
      /\ loop.isPrefill \in BOOLEAN /\ loop.cur \in Seqs \cup {NoSeq} /\ loop.hit \in Nat
  BY DEF QueueTyped, Locals
<1>2. waiting \in Seq(Seqs) /\ running \in Seq(Seqs)
  BY DEF QueueTyped
<1> QED
  BY <1>1, <1>2, QueueRange, LimitsAssumption DEF Scheduled

\* Only the handler's control point, locals and plans change.
Still == UNCHANGED <<schedVars, index>> /\ \A t \in Seqs : Untouched(t)

LEMMA StillCore ==
    ASSUME CoreInv, Still, loop' \in Locals,
           pc' \in Prefilling \cup Decoding \cup Executing \cup Outside \cup {"failActive", "error"},
           IsInjective(loop'.scheduled), pc' # "append", pc' # "finish",
           \A t \in Seqs : /\ Aborting(t)' <=> Aborting(t)
                           /\ ~Finishing(t) /\ ~Finishing(t)'
                           /\ Popped(t)' <=> Popped(t)
    PROVE  QueueTyped' /\ QueueInv' /\ RequestInv' /\ NoOrphanPages' /\ KeysAligned'
<1>1. /\ status' = status /\ waiting' = waiting /\ running' = running /\ pending' = pending
      /\ attempted' = attempted /\ inPrefill' = inPrefill /\ index' = index
      /\ \A t \in Seqs : Untouched(t) /\ SamePlace(t)
  BY DEF Still, schedVars, SamePlace
<1>2. QueueTyped'
  BY <1>1 DEF CoreInv, QueueTyped
<1>3. QueueInv'
  <2>1. \A t \in Seqs : QueuedAt(t)'
    BY <1>1 DEF CoreInv, QueueInv, QueuedAt
  <2> QED
    BY <1>1, <2>1 DEF CoreInv, QueueInv
<1>4. RequestInv'
  BY <1>1, RequestKept DEF CoreInv, RequestInv
<1>5. NoOrphanPages'
  BY <1>1, SameRequest DEF CoreInv, NoOrphanPages, Finishing
<1>6. KeysAligned'
  BY <1>1 DEF CoreInv, KeysAligned
<1> QED
  BY <1>2, <1>3, <1>4, <1>5, <1>6

\* The prefill loop moves on without scheduling anything.
LEMMA PrefillMove ==
    ASSUME CoreInv, Still, pc \in Prefilling \ {"abortRestore"},
           pc' \in Prefilling \ {"abortRestore"}, loop' \in Locals,
           loop'.scheduled = loop.scheduled, loop'.batched = loop.batched, ~loop'.isPrefill
    PROVE  CoreInv'
<1>1. pc # "finish" /\ pc' # "finish" /\ pc' # "append" /\ pc \notin Decoding /\ pc' \notin Decoding
      /\ pc # "abortRestore" /\ pc' # "abortRestore" /\ pc' # "run" /\ pc # "failActive"
      /\ pc' # "failActive" /\ pc' \notin Outside /\ pc' \notin Executing
      /\ pc' \notin {"post", "finish"}
  BY DEF Prefilling, Choosing, Decoding, Outside, Executing
<1>2. \A t \in Seqs : /\ Aborting(t)' <=> Aborting(t)
                      /\ ~Finishing(t) /\ ~Finishing(t)'
                      /\ Popped(t)' <=> Popped(t)
  BY <1>1 DEF Aborting, Finishing, Popped
<1>3. QueueTyped' /\ QueueInv' /\ RequestInv' /\ NoOrphanPages' /\ KeysAligned'
  BY <1>1, <1>2, StillCore DEF CoreInv, QueueInv
<1>4. Scheduled' = Scheduled /\ Scheduled \subseteq Seqs
  BY LocalTypes DEF Scheduled, CoreInv
<1>5. BatchInv'
  <2>1. \A s \in Scheduled' : PrefillMember(s)'
    BY <1>4, MemberKept DEF CoreInv, BatchInv, Still, schedVars
  <2>2. \A s \in Seqs : ~Idle(s)' => s \in Scheduled'
    BY <1>1, <1>4, SameRequest DEF CoreInv, BatchInv, Still
  <2> QED
    BY <1>1, <2>1, <2>2 DEF BatchInv
<1>6. RunInv'
  BY <1>1 DEF RunInv
<1> QED
  BY <1>3, <1>5, <1>6 DEF CoreInv

\* Locals with the batch at hand.
SameBatch(l) ==
    /\ l \in Locals
    /\ l.scheduled = loop.scheduled /\ l.batched = loop.batched /\ l.isPrefill = loop.isPrefill

LEMMA ContinueMove ==
    ASSUME SchedInv, Still, pc \in Prefilling \ {"abortRestore"}, NEW l, SameBatch(l), Continue(l)
    PROVE  SchedInv'
<1>1. pc' = "prefill" /\ loop' = [l EXCEPT !.cur = NoSeq, !.hit = 0] /\ ~loop.isPrefill
  BY DEF Continue, SchedInv, CoreInv, BatchInv
<1>2. /\ loop' \in Locals /\ loop'.scheduled = loop.scheduled /\ loop'.batched = loop.batched
      /\ ~loop'.isPrefill
  BY <1>1 DEF SameBatch, Locals
<1>3. CoreInv'
  BY <1>1, <1>2, PrefillMove DEF SchedInv, Prefilling, Choosing
<1>4. CurInv'
  BY <1>1 DEF CurInv, Choosing
<1> QED
  BY <1>3, <1>4 DEF SchedInv

LEMMA BreakMove ==
    ASSUME SchedInv, Still, pc \in Prefilling \ {"abortRestore"}, NEW l, SameBatch(l), Break(l)
    PROVE  SchedInv'
<1>0. CoreInv /\ QueueTyped /\ ~loop.isPrefill
  BY DEF SchedInv, CoreInv, BatchInv
<1>1. /\ loop' \in Locals /\ loop'.scheduled = loop.scheduled /\ loop'.batched = loop.batched
      /\ \/ pc' = "run" /\ loop'.isPrefill /\ loop.scheduled # <<>>
         \/ pc' = "decode" /\ ~loop'.isPrefill /\ loop.scheduled = <<>>
  <2>1. l \in Locals /\ l.scheduled = loop.scheduled /\ l.batched = loop.batched /\ ~l.isPrefill
    BY <1>0 DEF SameBatch
  <2>2. CASE l.scheduled # <<>>
    <3>1. pc' = "run" /\ loop' = [l EXCEPT !.isPrefill = TRUE, !.cur = NoSeq, !.hit = 0]
      BY <2>2 DEF Break
    <3> QED
      BY <2>1, <2>2, <3>1 DEF Locals
  <2>3. CASE l.scheduled = <<>>
    <3>1. pc' = "decode" /\ loop' = [l EXCEPT !.cur = NoSeq, !.hit = 0]
      BY <2>3 DEF Break
    <3> QED
      BY <2>1, <2>3, <3>1 DEF Locals
  <2> QED
    BY <2>2, <2>3
<1>2. /\ Scheduled' = Scheduled /\ Scheduled \subseteq Seqs
      /\ loop.scheduled = <<>> => Scheduled = {}
  BY <1>0, <1>1, LocalTypes, QueueRange DEF Scheduled
<1>3. /\ pc \notin {"abortRestore", "finish", "failActive"} /\ pc \notin Decoding
      /\ pc \notin Outside /\ pc' \notin {"append", "finish", "abortRestore", "post"}
      /\ pc' \in Decoding \cup Executing /\ pc' \notin Prefilling /\ pc' \notin Outside
      /\ pc' # "failActive"
  BY <1>1 DEF Prefilling, Choosing, Decoding, Outside, Executing
<1>4. \A t \in Seqs : /\ Aborting(t)' <=> Aborting(t)
                      /\ ~Finishing(t) /\ ~Finishing(t)'
                      /\ Popped(t)' <=> Popped(t)
  BY <1>1, <1>2, <1>3 DEF Aborting, Finishing, Popped, Decoding
<1>5. QueueTyped' /\ QueueInv' /\ RequestInv' /\ NoOrphanPages' /\ KeysAligned'
  BY <1>0, <1>1, <1>3, <1>4, StillCore DEF CoreInv, QueueInv
<1>6. BatchInv'
  <2>1. \A s \in Scheduled' : PrefillMember(s)'
    BY <1>0, <1>1, <1>2, MemberKept DEF CoreInv, BatchInv, Still, schedVars
  <2>2. \A s \in Seqs : ~Idle(s)' => s \in Scheduled'
    BY <1>0, <1>2, <1>3, SameRequest DEF CoreInv, BatchInv, Still
  <2>3. pc' = "decode" => Scheduled' = {}
    BY <1>1, <1>2
  <2>4. pc' = "run" => pc' \in Executing /\ pc' \notin Decoding
    BY DEF Executing, Decoding
  <2> QED
    BY <1>1, <1>3, <2>1, <2>2, <2>3, <2>4 DEF BatchInv, Executing
<1>7. RunInv'
  BY <1>1 DEF RunInv
<1>8. CurInv'
  BY <1>1 DEF CurInv, Choosing
<1> QED
  BY <1>5, <1>6, <1>7, <1>8 DEF SchedInv, CoreInv

\* A step that touches neither the block manager nor the queues.
LEMMA NothingTouched ==
    ASSUME UNCHANGED <<bmVars, schedVars>>
    PROVE  Still
<1>1. UNCHANGED <<tokens, blockTable, numCached, numPhysical, numScheduled, logical, compressed,
                  index, kv>>
  BY DEF bmVars, seqVars, poolVars
<1>2. UNCHANGED schedVars
  OBVIOUS
<1> QED
  BY <1>1, <1>2 DEF Still, Untouched

\* The scheduler's queries leave requests and pages alone.
LEMMA PlansOnly ==
    ASSUME UNCHANGED schedVars, NEW s \in Seqs,
           CanAllocateOp(s) \/ ForgetPlanOp(s) \/ CanResumeOp(s) \/ CannotResumeOp(s)
    PROVE  Still
<1>1. UNCHANGED <<seqVars, poolVars, kv>>
  BY DEF CanAllocateOp, ForgetPlanOp, CanResumeOp, CannotResumeOp
<1>2. UNCHANGED <<tokens, blockTable, numCached, numPhysical, numScheduled, logical, compressed,
                  index, kv>>
  BY <1>1 DEF seqVars, poolVars
<1> QED
  BY <1>2 DEF Still, Untouched

LEMMA FreshTyped ==
    ASSUME NEW b \in BOOLEAN
    PROVE  /\ Fresh \in Locals /\ [Fresh EXCEPT !.second = b] \in Locals
           /\ Fresh.scheduled = <<>> /\ [Fresh EXCEPT !.second = b].scheduled = <<>>
           /\ ~Fresh.isPrefill /\ ~[Fresh EXCEPT !.second = b].isPrefill
           /\ Range(Fresh.scheduled) = {} /\ Range([Fresh EXCEPT !.second = b].scheduled) = {}
           /\ IsInjective(<<>>)
<1>1. MaxNumBatched \in Nat
  BY LimitsAssumption
<1>2. Fresh \in Locals /\ [Fresh EXCEPT !.second = b] \in Locals
  <2>1. <<>> \in Seq(Seqs) /\ {} \in SUBSET Seqs /\ 0 \in 0..MaxNumBatched /\ 0 \in Nat
    BY <1>1
  <2>2. Fresh \in Locals
    BY <2>1 DEF Fresh, Locals
  <2> QED
    BY <2>2 DEF Locals
<1>3. /\ Fresh.scheduled = <<>> /\ [Fresh EXCEPT !.second = b].scheduled = <<>>
      /\ ~Fresh.isPrefill /\ ~[Fresh EXCEPT !.second = b].isPrefill
  BY DEF Fresh
<1>4. DOMAIN <<>> = {}
  OBVIOUS
<1>5. Range(<<>>) = {} /\ IsInjective(<<>>)
  BY <1>4 DEF Range, IsInjective
<1> QED
  BY <1>2, <1>3, <1>5

\* The handler starts afresh, or ends, with nothing in a batch.
LEMMA FreshMove ==
    ASSUME SchedInv, Still, \A t \in Seqs : Idle(t),
           pc \in {"step", "failActive", "waitAny"} \/ (pc \in {"decode", "post"} /\ loop.scheduled = <<>>),
           \/ pc' \in {"idle", "waitAny"} /\ loop' = Fresh
           \/ pc' \in {"prefill", "decode"} /\ \E b \in BOOLEAN : loop' = [Fresh EXCEPT !.second = b]
    PROVE  SchedInv'
<1>0. CoreInv /\ QueueTyped
  BY DEF SchedInv, CoreInv
<1>1. /\ loop' \in Locals /\ loop'.scheduled = <<>> /\ ~loop'.isPrefill /\ Scheduled' = {}
      /\ IsInjective(loop'.scheduled)
  BY FreshTyped DEF Scheduled
<1>2. loop.scheduled = <<>> => Scheduled = {}
  BY <1>0, LocalTypes, QueueRange DEF Scheduled
<1>3. \A t \in Seqs : /\ Aborting(t)' <=> Aborting(t)
                      /\ ~Finishing(t) /\ ~Finishing(t)'
                      /\ Popped(t)' <=> Popped(t)
  BY <1>1, <1>2 DEF Aborting, Finishing, Popped, Decoding
<1>4. QueueTyped' /\ QueueInv' /\ RequestInv' /\ NoOrphanPages' /\ KeysAligned'
  BY <1>0, <1>1, <1>3, StillCore DEF Prefilling, Decoding, Outside
<1>5. \A t \in Seqs : Idle(t)'
  BY SameRequest DEF Still
<1>6. BatchInv'
  BY <1>1, <1>5 DEF BatchInv, Outside
<1>7. RunInv'
  BY DEF RunInv
<1>8. CurInv'
  BY DEF CurInv, Choosing
<1> QED
  BY <1>4, <1>6, <1>7, <1>8 DEF SchedInv, CoreInv

---------------------------------------------------------------------------
(* The control steps *)

\* At the top level nothing is scheduled.
LEMMA OutsideIdle ==
    ASSUME SchedInv, pc \in Outside
    PROVE  /\ loop = Fresh /\ Scheduled = {} /\ \A t \in Seqs : Idle(t)
           /\ pc # "failActive" /\ pc \notin Decoding /\ pc \notin Prefilling /\ pc \notin Executing
<1>1. pc # "failActive" /\ pc \notin Decoding /\ pc \notin Prefilling /\ pc \notin Executing
  BY DEF Outside, Prefilling, Choosing, Decoding, Executing
<1>2. loop = Fresh
  BY DEF SchedInv, CoreInv, BatchInv
<1>3. Scheduled = {}
  BY <1>2, FreshTyped DEF Scheduled
<1> QED
  BY <1>1, <1>2, <1>3 DEF SchedInv, CoreInv, BatchInv

LEMMA StartStepKeeps ==
    ASSUME SchedInv, StartStep
    PROVE  SchedInv'
<1>1. pc = "idle" /\ pc' = "step" /\ loop' = loop /\ Still
  BY NothingTouched DEF StartStep
<1>2. pc \in Outside
  BY <1>1 DEF Outside
<1>3. loop = Fresh /\ Scheduled = {} /\ \A t \in Seqs : Idle(t)
  BY <1>2, OutsideIdle
<1>4. \A t \in Seqs : /\ Aborting(t)' <=> Aborting(t)
                      /\ ~Finishing(t) /\ ~Finishing(t)'
                      /\ Popped(t)' <=> Popped(t)
  BY <1>1 DEF Aborting, Finishing, Popped, Decoding
<1>5. QueueTyped' /\ QueueInv' /\ RequestInv' /\ NoOrphanPages' /\ KeysAligned'
  BY <1>1, <1>4, StillCore DEF SchedInv, CoreInv, QueueTyped, QueueInv, Outside
<1>6. \A t \in Seqs : Idle(t)'
  BY <1>1, <1>3, SameRequest DEF Still
<1>7. BatchInv'
  BY <1>1, <1>3, <1>6 DEF BatchInv, Prefilling, Choosing, Decoding, Executing
<1>8. RunInv' /\ CurInv'
  BY <1>1 DEF RunInv, CurInv, Choosing
<1> QED
  BY <1>5, <1>7, <1>8 DEF SchedInv, CoreInv

LEMMA EnterMove ==
    ASSUME SchedInv, Still, \A t \in Seqs : Idle(t),
           pc = "step" \/ (pc = "decode" /\ loop.scheduled = <<>>),
           NEW b \in BOOLEAN, Enter(b)
    PROVE  SchedInv'
<1>1. pc' \in {"prefill", "decode"} /\ loop' = [Fresh EXCEPT !.second = b]
  BY DEF Enter
<1> QED
  BY <1>1, FreshMove

LEMMA ScheduleKeepsQueues ==
    ASSUME SchedInv, Schedule_
    PROVE  SchedInv'
<1>1. pc = "step" /\ Enter(FALSE) /\ Still
  BY NothingTouched DEF Schedule_
<1>2. \A t \in Seqs : Idle(t)
  BY <1>1, OutsideIdle DEF Outside
<1> QED
  BY <1>1, <1>2, EnterMove

LEMMA LoopIsSameBatch ==
    ASSUME SchedInv
    PROVE  /\ SameBatch(loop) /\ SameBatch([loop EXCEPT !.residentOnly = TRUE])
           /\ \A s \in Seqs : SameBatch([loop EXCEPT !.deferred = @ \cup {s}])
           /\ \A n \in Nat : SameBatch([loop EXCEPT !.hit = n])
           /\ \A s \in Seqs : SameBatch([loop EXCEPT !.cur = s])
           /\ \A s \in Seqs : [loop EXCEPT !.cur = s].cur = s
           /\ \A n \in Nat : [loop EXCEPT !.hit = n].hit = n /\ [loop EXCEPT !.hit = n].cur = loop.cur
<1>1. loop \in Locals
  BY DEF SchedInv, CoreInv, QueueTyped
<1>2. SameBatch(loop) /\ SameBatch([loop EXCEPT !.residentOnly = TRUE])
  BY <1>1 DEF SameBatch, Locals
<1>3. \A s \in Seqs : SameBatch([loop EXCEPT !.deferred = @ \cup {s}])
  BY <1>1 DEF SameBatch, Locals
<1>4. \A n \in Nat : SameBatch([loop EXCEPT !.hit = n])
  BY <1>1 DEF SameBatch, Locals
<1>5. \A s \in Seqs : SameBatch([loop EXCEPT !.cur = s])
  BY <1>1 DEF SameBatch, Locals
<1>6. \A s \in Seqs : [loop EXCEPT !.cur = s].cur = s
  BY <1>1 DEF Locals
<1>7. \A n \in Nat : [loop EXCEPT !.hit = n].hit = n /\ [loop EXCEPT !.hit = n].cur = loop.cur
  BY <1>1 DEF Locals
<1> QED
  BY <1>2, <1>3, <1>4, <1>5, <1>6, <1>7

\* The request at hand in the prefill loop waits and is in no batch.
LEMMA CurrentIdle ==
    ASSUME SchedInv, pc \in Choosing
    PROVE  /\ loop.cur \in Seqs /\ loop.cur \in Range(waiting)
           /\ \A t \in Range(waiting) : Idle(t) /\ t \notin Scheduled /\ (~Aborting(t) => status[t] = "waiting")
           /\ \A t \in Range(waiting) : ~compressed[t] \/ Aborting(t)
           /\ loop.batched \in Nat /\ loop.batched < MaxNumBatched /\ MaxNumBatched \in Nat
           /\ Remaining \in Nat /\ Remaining > 0
           /\ pc \in Prefilling /\ ~loop.isPrefill
<1>1. QueueTyped /\ QueueInv /\ BatchInv /\ RequestInv /\ CurInv
  BY DEF SchedInv, CoreInv
<1>2. /\ loop.cur \in Range(waiting) /\ loop.batched < MaxNumBatched
      /\ Range(waiting) \subseteq Seqs /\ loop.batched \in 0..MaxNumBatched /\ MaxNumBatched \in Nat
  BY <1>1, LocalTypes DEF CurInv
<1>3. pc \in Prefilling /\ pc # "failActive" /\ pc # "finish" /\ ~loop.isPrefill
  BY <1>1 DEF Prefilling, Choosing, BatchInv
<1>4. ASSUME NEW t \in Range(waiting)
      PROVE  Idle(t) /\ t \notin Scheduled /\ (~Aborting(t) => status[t] = "waiting")
  <2>1. t \in Seqs /\ (status[t] = "waiting" \/ Aborting(t))
    BY <1>1, <1>2 DEF QueueInv, QueuedAt
  <2>2. Aborting(t) => status[t] = "waiting_for_kv"
    BY <1>1, <2>1 DEF QueueInv, QueuedAt
  <2>3. t \in Scheduled => status[t] = "running" \/ loop.batched = MaxNumBatched
    BY <1>1, <1>3 DEF BatchInv, PrefillMember
  <2>4. t \notin Scheduled
    BY <1>2, <2>1, <2>2, <2>3
  <2> QED
    BY <1>1, <1>3, <2>1, <2>4 DEF BatchInv
<1>5. ASSUME NEW t \in Range(waiting) PROVE ~compressed[t] \/ Aborting(t)
  BY <1>1, <1>2, <1>3, <1>4 DEF RequestInv, RequestAt, Finishing
<1> QED
  BY <1>2, <1>3, <1>4, <1>5 DEF Remaining

LEMMA SelectPrefillKeeps ==
    ASSUME SchedInv, SelectPrefill
    PROVE  SchedInv'
<1>1. pc = "prefill" /\ Still /\ pc \in Prefilling \ {"abortRestore"}
  BY NothingTouched DEF SelectPrefill, Prefilling, Choosing
<1>2. CASE Break(loop)
  BY <1>1, <1>2, BreakMove, LoopIsSameBatch
<1>3. CASE ~Break(loop)
  <2>1. PICK s \in SelectFirst(waiting, Eligible) :
            /\ pc' = IF Resident(s) THEN "ensure" ELSE "allocate"
            /\ loop' = [loop EXCEPT !.cur = s]
            /\ Remaining # 0 /\ ~(Len(loop.scheduled) >= MaxNumSeqs)
    BY <1>3 DEF SelectPrefill
  <2>2. QueueTyped /\ ~loop.isPrefill
    BY <1>1 DEF SchedInv, CoreInv, BatchInv
  <2>3. s \in Range(waiting) /\ s \in Seqs
    <3>1. \A i \in DOMAIN waiting : waiting[i] \in Range(waiting)
      BY DEF Range
    <3> QED
      BY <2>2, <3>1, LocalTypes DEF SelectFirst
  <2>4. /\ loop' \in Locals /\ loop'.scheduled = loop.scheduled /\ loop'.batched = loop.batched
        /\ ~loop'.isPrefill /\ loop'.cur = s
    BY <2>1, <2>2, <2>3, LoopIsSameBatch DEF SameBatch
  <2>5. CoreInv'
    BY <1>1, <2>1, <2>4, PrefillMove DEF SchedInv, Prefilling, Choosing
  <2>6. CurInv'
    <3>1. loop.batched < MaxNumBatched /\ Len(loop.scheduled) < MaxNumSeqs
      <4>1. loop.batched \in 0..MaxNumBatched /\ MaxNumBatched \in Nat /\ MaxNumSeqs \in Nat
            /\ Len(loop.scheduled) \in Nat
        BY <2>2, LocalTypes, QueueRange
      <4> QED
        BY <2>1, <4>1 DEF Remaining
    <3>2. waiting' = waiting /\ (Resident(s)' <=> Resident(s))
      BY <1>1, <2>3, SameRequest DEF Still, schedVars
    <3> QED
      BY <2>1, <2>3, <2>4, <3>1, <3>2 DEF CurInv, Choosing
  <2> QED
    BY <2>5, <2>6 DEF SchedInv
<1> QED
  BY <1>2, <1>3

\* The lookups depend on the tokens, the tables and the pool only.
LEMMA SameLookup ==
    ASSUME UNCHANGED <<tokens, blockTable, index, blockHash, usedBlocks, freeBlocks>>, NEW s
    PROVE  /\ LookupCachedBlocks(s)' = LookupCachedBlocks(s)
           /\ ResumeSuffix(s)' = ResumeSuffix(s)
           /\ CanResume(s)' <=> CanResume(s)
           /\ CanAllocate(s)' <=> CanAllocate(s)
<1>1. /\ tokens' = tokens /\ blockTable' = blockTable /\ index' = index /\ blockHash' = blockHash
      /\ usedBlocks' = usedBlocks /\ freeBlocks' = freeBlocks
  OBVIOUS
<1>2. NumBlocks(s)' = NumBlocks(s) /\ CacheableBlocks(s)' = CacheableBlocks(s)
      /\ Retained(s)' = Retained(s)
  BY <1>1 DEF NumBlocks, CacheableBlocks, Retained
<1>3. LookupCachedBlocks(s)' = LookupCachedBlocks(s)
  BY <1>1 DEF LookupCachedBlocks, MatchLength, CacheableBlocks, NumBlocks, Hit, ChainKey
<1>4. ResumeSuffix(s)' = ResumeSuffix(s)
  BY <1>1, <1>2, <1>3 DEF ResumeSuffix
<1>5. \A ids : InUse(ids)' = InUse(ids)
  BY <1>1 DEF InUse
<1>6. CanResume(s)' <=> CanResume(s)
  BY <1>1, <1>2, <1>4, <1>5 DEF CanResume
<1>7. CanAllocate(s)' <=> CanAllocate(s)
  BY <1>1, <1>2, <1>3, <1>5 DEF CanAllocate, PlannedAllocationPages
<1> QED
  BY <1>3, <1>4, <1>6, <1>7

LEMMA ChoosingMove ==
    ASSUME SchedInv, Still, pc \in Choosing \ {"abortRestore"},
           pc' \in Choosing \ {"abortRestore"}, SameBatch(loop'),
           NEW s \in Seqs, s = loop.cur, loop'.cur = s
    PROVE  /\ CoreInv' /\ loop'.cur \in Range(waiting') /\ loop'.batched < MaxNumBatched
           /\ Len(loop'.scheduled) < MaxNumSeqs
           /\ Retained(s)' = Retained(s) /\ NumBlocks(s)' = NumBlocks(s)
           /\ Resident(s)' <=> Resident(s)
<1>1. loop.cur \in Range(waiting) /\ loop.cur \in Seqs /\ ~loop.isPrefill
  BY CurrentIdle
<1>2. CoreInv'
  BY <1>1, PrefillMove DEF SchedInv, SameBatch, Prefilling
<1>3. waiting' = waiting
  BY DEF Still, schedVars
<1>4. loop.batched < MaxNumBatched /\ Len(loop.scheduled) < MaxNumSeqs
  BY DEF SchedInv, CurInv
<1> QED
  BY <1>1, <1>2, <1>3, <1>4, SameRequest DEF Still, SameBatch

LEMMA EnsureResumeKeeps ==
    ASSUME SchedInv, EnsureResume
    PROVE  SchedInv'
<1>1. pc = "ensure" /\ pc \in Choosing \ {"abortRestore"} /\ pc \in Prefilling \ {"abortRestore"}
      /\ UNCHANGED schedVars
  BY DEF EnsureResume, Choosing, Prefilling
<1>2. PICK s \in Seqs : s = loop.cur
  BY <1>1, CurrentIdle
<1>3. CASE CanResumeOp(s) /\ loop' = loop /\ pc' = IF Resident(s) THEN "resume" ELSE "allocate"
  <2>1. Still
    BY <1>1, <1>2, <1>3, PlansOnly
  <2>2. SameBatch(loop') /\ loop'.cur = s
    BY <1>2, <1>3, LoopIsSameBatch
  <2>3. /\ CoreInv' /\ loop'.cur \in Range(waiting') /\ loop'.batched < MaxNumBatched
        /\ Len(loop'.scheduled) < MaxNumSeqs /\ (Resident(s)' <=> Resident(s))
    BY <1>1, <1>2, <1>3, <2>1, <2>2, ChoosingMove DEF Choosing
  <2>4. /\ CanResume(s) /\ pendingResume' = Overlay([r \in {s} |-> ResumeSuffix(s)], pendingResume)
    BY <1>3 DEF CanResumeOp
  <2>5. UNCHANGED <<tokens, blockTable, index, blockHash, usedBlocks, freeBlocks>>
    BY <1>3 DEF CanResumeOp, seqVars, poolVars
  <2>6. ResumeSuffix(s)' = ResumeSuffix(s) /\ CanResume(s)'
    BY <2>4, <2>5, SameLookup
  <2>7. s \in DOMAIN pendingResume' /\ pendingResume'[s] = ResumeSuffix(s)
    BY <2>4 DEF Overlay
  <2>8. CurInv'
    BY <1>3, <2>2, <2>3, <2>6, <2>7 DEF CurInv, Choosing
  <2> QED
    BY <2>3, <2>8 DEF SchedInv
<1>4. CASE CannotResumeOp(s) /\ Resident(s) /\ pc' = "evict" /\ loop' = loop
  <2>1. Still
    BY <1>1, <1>2, <1>4, PlansOnly
  <2>2. SameBatch(loop') /\ loop'.cur = s
    BY <1>2, <1>4, LoopIsSameBatch
  <2>3. /\ CoreInv' /\ loop'.cur \in Range(waiting') /\ loop'.batched < MaxNumBatched
        /\ Len(loop'.scheduled) < MaxNumSeqs /\ (Resident(s)' <=> Resident(s))
    BY <1>1, <1>2, <1>4, <2>1, <2>2, ChoosingMove DEF Choosing
  <2>4. CurInv'
    BY <1>4, <2>2, <2>3 DEF CurInv, Choosing
  <2> QED
    BY <2>3, <2>4 DEF SchedInv
<1>5. CASE CannotResumeOp(s) /\ ~Resident(s) /\ Break(loop)
  <2>1. Still
    BY <1>1, <1>2, <1>5, PlansOnly
  <2> QED
    BY <1>1, <1>5, <2>1, BreakMove, LoopIsSameBatch
<1> QED
  BY <1>2, <1>3, <1>4, <1>5 DEF EnsureResume

LEMMA DeferMove ==
    ASSUME SchedInv, Still, pc \in Prefilling \ {"abortRestore"}, NEW s \in Seqs, Defer(s)
    PROVE  SchedInv'
<1> DEFINE l == [loop EXCEPT !.deferred = @ \cup {s}]
<1>1. SameBatch(l)
  BY LoopIsSameBatch
<1>2. Continue(l) \/ Break(l)
  BY DEF Defer
<1> HIDE DEF l
<1> QED
  BY <1>1, <1>2, ContinueMove, BreakMove

LEMMA TryAllocateKeeps ==
    ASSUME IndInv, SchedInv, TryAllocate
    PROVE  SchedInv'
<1>1. pc = "allocate" /\ pc \in Choosing \ {"abortRestore"} /\ pc \in Prefilling \ {"abortRestore"}
      /\ UNCHANGED schedVars
  BY DEF TryAllocate, Choosing, Prefilling
<1>2. PICK s \in Seqs : s = loop.cur /\ ~Resident(s)
  BY <1>1, CurrentIdle DEF SchedInv, CurInv
<1>3. CASE ForgetPlanOp(s) /\ (NoRoom(s) \/ Defer(s))
  <2>1. Still
    BY <1>1, <1>2, <1>3, PlansOnly
  <2>2. Defer(s) \/ Break(loop) \/ Continue([loop EXCEPT !.residentOnly = TRUE])
    BY <1>3 DEF NoRoom
  <2>3. CASE Defer(s)
    BY <1>1, <1>2, <2>1, <2>3, DeferMove
  <2>4. CASE Break(loop)
    BY <1>1, <2>1, <2>4, BreakMove, LoopIsSameBatch
  <2>5. CASE Continue([loop EXCEPT !.residentOnly = TRUE])
    BY <1>1, <2>1, <2>5, ContinueMove, LoopIsSameBatch
  <2> QED
    BY <2>2, <2>3, <2>4, <2>5
<1>4. CASE /\ CanAllocateOp(s)
           /\ pc' = IF Remote /\ ~attempted[s] THEN "restore" ELSE "admit"
           /\ loop' = [loop EXCEPT !.hit = Len(LookupCachedBlocks(s))]
  <2>1. Still
    BY <1>1, <1>2, <1>4, PlansOnly
  <2>2. Len(LookupCachedBlocks(s)) \in Nat
    <3>1. MatchLength(s) \in Nat
      BY <1>2, MatchIsHits, TableSizes DEF IndInv
    <3>2. LookupCachedBlocks(s) \in [1..MatchLength(s) -> Range(LookupCachedBlocks(s))]
      BY DEF LookupCachedBlocks, Range
    <3> QED
      BY <3>1, <3>2, FunctionIsSeq
  <2>3. SameBatch(loop') /\ loop'.cur = s /\ loop'.hit = Len(LookupCachedBlocks(s))
    BY <1>2, <1>4, <2>2, LoopIsSameBatch
  <2>4. /\ CoreInv' /\ loop'.cur \in Range(waiting') /\ loop'.batched < MaxNumBatched
        /\ Len(loop'.scheduled) < MaxNumSeqs /\ (Resident(s)' <=> Resident(s))
    BY <1>1, <1>2, <1>4, <2>1, <2>3, ChoosingMove DEF Choosing
  <2>5. /\ CanAllocate(s)
        /\ pendingMatches' = Overlay([r \in {s} |-> LookupCachedBlocks(s)], pendingMatches)
    BY <1>4 DEF CanAllocateOp
  <2>6. UNCHANGED <<tokens, blockTable, index, blockHash, usedBlocks, freeBlocks>>
    BY <1>4 DEF CanAllocateOp, seqVars, poolVars
  <2>7. LookupCachedBlocks(s)' = LookupCachedBlocks(s) /\ CanAllocate(s)'
    BY <2>5, <2>6, SameLookup
  <2>8. s \in DOMAIN pendingMatches' /\ pendingMatches'[s] = LookupCachedBlocks(s)
    BY <2>5 DEF Overlay
  <2>9. Planned(s)'
    BY <2>3, <2>7, <2>8 DEF Planned, AllocatePlan
  <2>10. CurInv'
    BY <1>2, <1>4, <2>3, <2>4, <2>9 DEF CurInv, Choosing
  <2> QED
    BY <2>4, <2>10 DEF SchedInv
<1> QED
  BY <1>2, <1>3, <1>4 DEF TryAllocate

LEMMA SkipRestoreKeeps ==
    ASSUME SchedInv, SkipRestore
    PROVE  SchedInv'
<1>1. pc = "restore" /\ pc' = "admit" /\ loop' = loop /\ Still /\ pc \in Choosing
  BY NothingTouched DEF SkipRestore, Choosing
<1>2. PICK s \in Seqs : s = loop.cur /\ ~Resident(s) /\ Planned(s)
  BY <1>1, CurrentIdle DEF SchedInv, CurInv
<1>3. /\ CoreInv' /\ loop'.cur \in Range(waiting') /\ loop'.batched < MaxNumBatched
      /\ Len(loop'.scheduled) < MaxNumSeqs /\ (Resident(s)' <=> Resident(s))
  <2>1. SameBatch(loop') /\ loop'.cur = s
    BY <1>1, <1>2, LoopIsSameBatch
  <2> QED
    BY <1>1, <1>2, <2>1, ChoosingMove DEF Choosing
<1>4. /\ UNCHANGED <<tokens, blockTable, index, blockHash, usedBlocks, freeBlocks>>
      /\ pendingMatches' = pendingMatches
  BY DEF SkipRestore, bmVars, seqVars, poolVars, planVars
<1>5. LookupCachedBlocks(s)' = LookupCachedBlocks(s) /\ (CanAllocate(s)' <=> CanAllocate(s))
  BY <1>4, SameLookup
<1>6. Planned(s)'
  BY <1>1, <1>2, <1>4, <1>5 DEF Planned, AllocatePlan
<1>7. CurInv'
  BY <1>1, <1>2, <1>3, <1>6 DEF CurInv, Choosing
<1> QED
  BY <1>3, <1>7 DEF SchedInv

LEMMA EndStepKeeps ==
    ASSUME SchedInv, EndStep
    PROVE  SchedInv'
<1>1. pc = "post" /\ loop.scheduled = <<>> /\ pc' = "idle" /\ loop' = Fresh /\ Still
  BY NothingTouched DEF EndStep
<1>2. Scheduled = {}
  BY <1>1, FreshTyped DEF Scheduled, Fresh
<1>3. \A t \in Seqs : Idle(t)
  BY <1>1, <1>2 DEF SchedInv, CoreInv, BatchInv
<1> QED
  BY <1>1, <1>3, FreshMove

LEMMA FailEndKeeps ==
    ASSUME SchedInv, FailEnd
    PROVE  SchedInv'
<1>1. /\ pc = "failActive" /\ waiting = <<>> /\ running = <<>> /\ pc' = "idle" /\ loop' = Fresh
      /\ Still
  BY NothingTouched DEF FailEnd, IsFinished
<1>2. Range(waiting) = {} /\ Range(running) = {}
  BY <1>1, QueueRange DEF SchedInv, CoreInv, QueueTyped
<1>3. \A t \in Seqs : Idle(t)
  BY <1>1, <1>2 DEF SchedInv, CoreInv, BatchInv
<1> QED
  BY <1>1, <1>3, FreshMove

LEMMA RunRaisesKeeps ==
    ASSUME SchedInv, RunRaises
    PROVE  SchedInv'
<1>1. pc = "run" /\ pc' = "failActive" /\ loop' = loop /\ Still
  BY NothingTouched DEF RunRaises
<1>2. \A t \in Seqs : /\ Aborting(t)' <=> Aborting(t)
                      /\ ~Finishing(t) /\ ~Finishing(t)'
                      /\ Popped(t)' <=> Popped(t)
                      /\ ~Aborting(t) /\ ~Popped(t)
  BY <1>1 DEF Aborting, Finishing, Popped, Decoding
<1>3. QueueTyped' /\ QueueInv' /\ RequestInv' /\ NoOrphanPages' /\ KeysAligned'
  BY <1>1, <1>2, StillCore DEF SchedInv, CoreInv, QueueTyped, QueueInv
<1>4. \A t \in Seqs : ~Idle(t)' => t \in Range(waiting') \cup Range(running')
  <2> SUFFICES ASSUME NEW t \in Seqs, ~Idle(t) PROVE t \in Range(waiting) \cup Range(running)
    BY <1>1, SameRequest DEF Still, schedVars
  <2>1. t \in Scheduled
    BY <1>1 DEF SchedInv, CoreInv, BatchInv
  <2>2. PrefillMember(t) \/ DecodeMember(t)
    BY <1>1, <2>1 DEF SchedInv, CoreInv, BatchInv, Executing
  <2>3. status[t] \in {"running", "waiting"}
    BY <2>2 DEF PrefillMember, DecodeMember
  <2> QED
    BY <1>2, <2>3 DEF SchedInv, CoreInv, QueueInv, QueuedAt
<1>5. BatchInv'
  BY <1>1, <1>4 DEF BatchInv, Prefilling, Choosing, Decoding, Executing, Outside
<1>6. RunInv' /\ CurInv'
  BY <1>1 DEF RunInv, CurInv, Choosing
<1> QED
  BY <1>3, <1>5, <1>6 DEF SchedInv, CoreInv

LEMMA DecodeRuns ==
    ASSUME SchedInv, pc = "decode", loop.scheduled # <<>>, pc' = "run", loop' = loop,
           running' = loop.scheduled \o running,
           UNCHANGED <<bmVars, status, waiting, pending, attempted, inPrefill>>
    PROVE  SchedInv'
<1>1. /\ QueueTyped /\ QueueInv /\ BatchInv /\ RequestInv /\ NoOrphanPages /\ KeysAligned
      /\ ~loop.isPrefill /\ pc \in Decoding
  BY DEF SchedInv, CoreInv, BatchInv, Decoding
<1>2. /\ status' = status /\ waiting' = waiting /\ pending' = pending /\ attempted' = attempted
      /\ inPrefill' = inPrefill /\ index' = index /\ \A t \in Seqs : Untouched(t) /\ SamePlace(t)
  <2>1. UNCHANGED <<tokens, blockTable, numCached, numPhysical, numScheduled, logical, compressed,
                    index>>
    BY DEF bmVars, seqVars, poolVars
  <2>2. UNCHANGED <<status, waiting, pending, attempted, inPrefill>>
    OBVIOUS
  <2> QED
    BY <2>1, <2>2 DEF Untouched, SamePlace
<1>3. \A t \in Seqs : Popped(t) <=> t \in Scheduled
  BY <1>1 DEF Popped
<1>4. \A t \in Seqs : ~Finishing(t) /\ ~Finishing(t)' /\ ~Aborting(t) /\ ~Aborting(t)' /\ ~Popped(t)'
  BY DEF Finishing, Aborting, Popped, Decoding
<1>5. /\ running' \in Seq(Seqs) /\ Range(running') = Scheduled \cup Range(running)
      /\ IsInjective(running') /\ Scheduled' = Scheduled /\ Scheduled \subseteq Seqs
  <2>1. loop.scheduled \in Seq(Seqs) /\ running \in Seq(Seqs) /\ Scheduled \subseteq Seqs
    BY <1>1, LocalTypes DEF QueueTyped
  <2>2. IsInjective(loop.scheduled) /\ IsInjective(running)
    BY <1>1 DEF QueueInv
  <2>3. Scheduled \cap Range(running) = {}
    BY <1>1, <1>3, <2>1 DEF QueueInv, QueuedAt
  <2> QED
    BY <2>1, <2>2, <2>3, ConcatQueues DEF Scheduled
<1>6. QueueTyped'
  BY <1>1, <1>2, <1>5 DEF QueueTyped, Executing
<1>7. QueueInv'
  <2>1. \A t \in Seqs : QueuedAt(t)'
    BY <1>1, <1>2, <1>3, <1>4, <1>5 DEF QueueInv, QueuedAt
  <2> QED
    BY <1>1, <1>2, <1>5, <2>1 DEF QueueInv
<1>8. RequestInv'
  BY <1>1, <1>2, <1>4, RequestKept DEF RequestInv
<1>9. NoOrphanPages'
  BY <1>1, <1>2, SameRequest DEF NoOrphanPages
<1>10. KeysAligned'
  BY <1>1, <1>2 DEF KeysAligned
<1>11. BatchInv'
  <2>1. \A t \in Scheduled' : DecodeMember(t)'
    BY <1>1, <1>2, <1>5, MemberKept DEF BatchInv
  <2>2. \A t \in Seqs : ~Idle(t)' => t \in Scheduled'
    BY <1>1, <1>2, <1>5, SameRequest DEF BatchInv
  <2> QED
    BY <1>1, <2>1, <2>2 DEF BatchInv, Prefilling, Choosing, Decoding, Executing, Outside
<1>12. RunInv' /\ CurInv'
  BY DEF RunInv, CurInv, Choosing
<1> QED
  BY <1>6, <1>7, <1>8, <1>9, <1>10, <1>11, <1>12 DEF SchedInv, CoreInv

LEMMA DecodeEndKeeps ==
    ASSUME SchedInv, DecodeEnd
    PROVE  SchedInv'
<1>1. pc = "decode" /\ UNCHANGED <<bmVars, status, waiting, pending, attempted, inPrefill>>
  BY DEF DecodeEnd
<1>2. CASE loop.scheduled # <<>>
  <2>1. pc' = "run" /\ loop' = loop /\ running' = loop.scheduled \o running
    BY <1>2 DEF DecodeEnd
  <2> QED
    BY <1>1, <1>2, <2>1, DecodeRuns
<1>3. CASE loop.scheduled = <<>>
  <2>1. running' = running
    BY <1>3 DEF DecodeEnd
  <2>2. Still
    <3>1. UNCHANGED bmVars /\ UNCHANGED schedVars
      BY <1>1, <2>1 DEF schedVars
    <3> QED
      BY <3>1, NothingTouched
  <2>3. Scheduled = {}
    BY <1>3, FreshTyped DEF Scheduled, Fresh
  <2>4. \A t \in Seqs : Idle(t)
    BY <1>1, <2>3 DEF SchedInv, CoreInv, BatchInv
  <2>5. CASE pc' = "waitAny" /\ loop' = Fresh
    BY <1>1, <1>3, <2>2, <2>4, <2>5, FreshMove
  <2>6. CASE Enter(TRUE)
    BY <1>1, <1>3, <2>2, <2>4, <2>6, EnterMove
  <2>7. CASE pc' = "error" /\ loop' = loop
    <3>1. \A t \in Seqs : /\ Aborting(t)' <=> Aborting(t)
                          /\ ~Finishing(t) /\ ~Finishing(t)'
                          /\ Popped(t)' <=> Popped(t)
      BY <1>1, <2>3, <2>7 DEF Aborting, Finishing, Popped, Decoding
    <3>2. QueueTyped' /\ QueueInv' /\ RequestInv' /\ NoOrphanPages' /\ KeysAligned'
      BY <2>2, <2>7, <3>1, StillCore DEF SchedInv, CoreInv, QueueTyped, QueueInv
    <3>3. \A t \in Seqs : Idle(t)'
      BY <2>2, <2>4, SameRequest DEF Still
    <3>4. BatchInv'
      BY <2>7, <3>3 DEF BatchInv, Prefilling, Choosing, Decoding, Executing, Outside
    <3>5. RunInv' /\ CurInv'
      BY <2>7 DEF RunInv, CurInv, Choosing
    <3> QED
      BY <3>2, <3>4, <3>5 DEF SchedInv, CoreInv
  <2> QED
    BY <1>3, <2>5, <2>6, <2>7 DEF DecodeEnd
<1> QED
  BY <1>2, <1>3

---------------------------------------------------------------------------
(* The prefill loop: reclaiming and resuming *)

LEMMA ReclaimEffect ==
    ASSUME TypeOK, NEW s \in Seqs, NEW keep \in 0..Retained(s), ReclaimSuffixOp(s, keep)
    PROVE  /\ \A t \in Seqs \ {s} : Untouched(t)
           /\ tokens' = tokens /\ numScheduled' = numScheduled /\ compressed' = compressed
           /\ Retained(s)' = keep /\ (Resident(s)' => keep > 0)
           /\ numCached'[s] = keep * BlockSize /\ index' = index /\ kv' = kv
<1>1. /\ blockTable' = [blockTable EXCEPT ![s] = SubSeq(@, 1, keep)]
      /\ logical' = [logical EXCEPT ![s] = SubSeq(@, 1, keep)]
      /\ numCached' = [numCached EXCEPT ![s] = keep * BlockSize]
      /\ numPhysical' = [numPhysical EXCEPT ![s] = keep * BlockSize]
      /\ tokens' = tokens /\ numScheduled' = numScheduled /\ compressed' = compressed
      /\ index' = index /\ kv' = kv
  BY DEF ReclaimSuffixOp, DropPages
<1>2. \A t \in Seqs \ {s} : Untouched(t)
  BY <1>1 DEF Untouched, TypeOK
<1>3. /\ blockTable[s] \in Seq(Blocks) /\ Retained(s) \in Nat
      /\ \A i \in 1..Retained(s) : blockTable[s][i] \in Blocks
      /\ blockTable'[s] = SubSeq(blockTable[s], 1, keep) /\ numCached'[s] = keep * BlockSize
  BY <1>1, LenProperties, ElementOfSeq DEF TypeOK, Retained
<1>4. Len(SubSeq(blockTable[s], 1, keep)) = keep
  <2>1. keep \in Nat /\ \A i \in 1..keep : blockTable[s][i] \in Blocks
    BY <1>3
  <2>2. Len(SubSeq(blockTable[s], 1, keep)) = IF 1 <= keep THEN keep - 1 + 1 ELSE 0
    BY <2>1, SubSeqProperties
  <2> QED
    BY <2>1, <2>2
<1>5. keep = 0 => blockTable'[s] = <<>>
  <2>1. SubSeq(blockTable[s], 1, keep) \in Seq(Blocks)
    BY <1>3, SubSeqProperties
  <2> QED
    BY <1>3, <1>4, <2>1, EmptySeq
<1> QED
  BY <1>1, <1>2, <1>3, <1>4, <1>5 DEF Retained, Resident

LEMMA ReleaseEffect ==
    ASSUME TypeOK, NEW s \in Seqs, ReleaseAll(s), numScheduled' \in [Seqs -> Nat],
           \A t \in Seqs \ {s} : numScheduled'[t] = numScheduled[t]
    PROVE  /\ \A t \in Seqs \ {s} : Untouched(t)
           /\ tokens' = tokens /\ ~compressed'[s] /\ ~Resident(s)' /\ numCached'[s] = 0
           /\ index' = index /\ kv' = kv /\ blockHash' = blockHash
<1>1. /\ blockTable' = [blockTable EXCEPT ![s] = <<>>]
      /\ logical' = [logical EXCEPT ![s] = <<>>]
      /\ numCached' = [numCached EXCEPT ![s] = 0]
      /\ numPhysical' = [numPhysical EXCEPT ![s] = 0]
      /\ compressed' = [compressed EXCEPT ![s] = FALSE]
      /\ tokens' = tokens /\ index' = index /\ kv' = kv /\ blockHash' = blockHash
  BY DEF ReleaseAll, DropPages
<1> QED
  BY <1>1 DEF Untouched, TypeOK, Resident

\* The prefill loop changes the pages of one waiting request.
LEMMA WaitingTouched ==
    ASSUME SchedInv, pc \in Prefilling \ {"abortRestore"},
           pc' \in Prefilling \ {"abortRestore"}, SameBatch(loop'), UNCHANGED schedVars,
           NEW v \in Seqs, v \in Range(waiting), v \notin Scheduled,
           \A t \in Seqs \ {v} : Untouched(t),
           Idle(v)', WaitingAt(v)', ~compressed'[v], tokens'[v] = tokens[v], KeysAligned'
    PROVE  CoreInv'
<1>1. /\ status' = status /\ waiting' = waiting /\ running' = running /\ pending' = pending
      /\ attempted' = attempted /\ inPrefill' = inPrefill /\ \A t \in Seqs : SamePlace(t)
  BY DEF schedVars, SamePlace
<1>2. QueueTyped /\ QueueInv /\ BatchInv /\ RequestInv /\ NoOrphanPages /\ ~loop.isPrefill
  BY DEF SchedInv, CoreInv, BatchInv
<1>3. /\ loop' \in Locals /\ loop'.scheduled = loop.scheduled /\ loop'.batched = loop.batched
      /\ ~loop'.isPrefill /\ Scheduled' = Scheduled /\ Scheduled \subseteq Seqs
  BY <1>2, LocalTypes DEF SameBatch, Scheduled
<1>4. /\ pc' \notin {"append", "finish", "run", "failActive", "post"} /\ pc \notin Decoding
      /\ pc' \notin Decoding /\ pc' \notin Outside /\ pc' \notin Executing /\ pc # "finish"
      /\ pc # "abortRestore" /\ pc' # "abortRestore" /\ pc # "failActive"
  BY DEF Prefilling, Choosing, Decoding, Outside, Executing
<1>5. \A t \in Seqs : /\ ~Aborting(t)' /\ ~Aborting(t) /\ ~Finishing(t) /\ ~Finishing(t)'
                      /\ ~Popped(t)' /\ ~Popped(t)
  BY <1>4 DEF Aborting, Finishing, Popped
<1>6. QueueTyped'
  BY <1>1, <1>2, <1>3 DEF QueueTyped
<1>7. QueueInv'
  <2>1. \A t \in Seqs : QueuedAt(t)'
    BY <1>1, <1>2, <1>5 DEF QueueInv, QueuedAt
  <2> QED
    BY <1>1, <1>2, <1>3, <1>4, <2>1 DEF QueueInv
<1>8. status[v] = "waiting"
  BY <1>2, <1>5 DEF QueueInv, QueuedAt
<1>9. RequestInv'
  <2>1. \A t \in Seqs \ {v} : RequestAt(t)'
    BY <1>1, <1>2, <1>5, RequestKept DEF RequestInv
  <2>2. v \notin DOMAIN pending
    BY <1>2, <1>5, <1>8 DEF QueueInv, QueuedAt
  <2>3. RequestAt(v)'
    BY <1>1, <1>2, <1>8, <2>2 DEF RequestInv, RequestAt
  <2> QED
    BY <2>1, <2>3 DEF RequestInv
<1>10. NoOrphanPages'
  <2> SUFFICES ASSUME NEW t \in Seqs, Resident(t)'
               PROVE  status[t] \in {"waiting", "running", "waiting_for_kv"}
    BY <1>1 DEF NoOrphanPages
  <2>1. CASE t = v
    BY <1>8, <2>1
  <2>2. CASE t # v
    BY <1>2, <1>4, <2>2, SameRequest DEF NoOrphanPages
  <2> QED
    BY <2>1, <2>2
<1>11. BatchInv'
  <2>1. \A t \in Scheduled' : PrefillMember(t)'
    <3> SUFFICES ASSUME NEW t \in Scheduled PROVE PrefillMember(t)'
      BY <1>3
    <3>1. t \in Seqs \ {v} /\ PrefillMember(t)
      BY <1>2, <1>3 DEF BatchInv
    <3> QED
      BY <1>1, <1>3, <3>1, MemberKept
  <2>2. ASSUME NEW t \in Seqs, ~Idle(t)' PROVE t \in Scheduled'
    <3>1. t # v
      BY <2>2
    <3>2. ~Idle(t)
      BY <2>2, <3>1, SameRequest
    <3> QED
      BY <1>2, <1>3, <1>4, <3>2 DEF BatchInv
  <2> QED
    BY <1>3, <1>4, <2>1, <2>2 DEF BatchInv
<1>12. RunInv'
  BY <1>4 DEF RunInv
<1> QED
  BY <1>6, <1>7, <1>9, <1>10, <1>11, <1>12 DEF CoreInv

LEMMA WaitingUncompressed ==
    ASSUME SchedInv, pc \in Choosing \ {"abortRestore"}, NEW v \in Range(waiting)
    PROVE  v \in Seqs /\ Idle(v) /\ v \notin Scheduled /\ ~compressed[v] /\ WaitingAt(v)
<1>1. Idle(v) /\ v \notin Scheduled /\ (~compressed[v] \/ Aborting(v))
  BY CurrentIdle
<1>2. v \in Seqs
  BY LocalTypes DEF SchedInv, CoreInv
<1> QED
  BY <1>1, <1>2 DEF SchedInv, CoreInv, RequestInv, RequestAt, Aborting

LEMMA EvictedStays ==
    ASSUME IndInv, SchedInv, pc = "evict", NEW v \in Range(waiting), ReclaimSuffixOp(v, 0),
           UNCHANGED schedVars, pc' = "ensure", loop' = loop
    PROVE  SchedInv' /\ ReclaimSuffix(v, 0)
<1>1. pc \in Choosing \ {"abortRestore"} /\ pc \in Prefilling \ {"abortRestore"}
      /\ pc' \in Prefilling \ {"abortRestore"}
  BY DEF Choosing, Prefilling
<1>2. v \in Seqs /\ Idle(v) /\ v \notin Scheduled /\ ~compressed[v]
  BY <1>1, WaitingUncompressed
<1>3. TypeOK /\ TableInv
  BY DEF IndInv
<1>4. Retained(v) \in Nat /\ numCached[v] \in Nat /\ Len(tokens[v]) \in Nat /\ Len(tokens[v]) > 0
  BY <1>2, <1>3, TableSizes, TableAtUse
<1>5. ReclaimSuffix(v, 0)
  BY <1>2, <1>4, BlockSizeAssumption DEF ReclaimSuffix
<1>6. /\ \A t \in Seqs \ {v} : Untouched(t)
      /\ tokens' = tokens /\ numScheduled' = numScheduled /\ compressed' = compressed
      /\ ~Resident(v)' /\ numCached'[v] = 0 * BlockSize /\ index' = index
  BY <1>2, <1>3, <1>4, ReclaimEffect
<1>7. Idle(v)' /\ WaitingAt(v)' /\ ~compressed'[v]
  BY <1>2, <1>4, <1>6, BlockSizeAssumption DEF Idle, WaitingAt
<1>8. KeysAligned'
  BY <1>6 DEF SchedInv, CoreInv, KeysAligned
<1>9. CoreInv'
  BY <1>1, <1>2, <1>6, <1>7, <1>8, WaitingTouched, LoopIsSameBatch
<1>10. CurInv'
  <2>1. waiting' = waiting
    BY DEF schedVars
  <2> QED
    BY <1>1, <2>1 DEF SchedInv, CurInv, Choosing
<1> QED
  BY <1>5, <1>9, <1>10 DEF SchedInv

LEMMA EvictRetainedKeeps ==
    ASSUME IndInv, SchedInv, EvictRetained
    PROVE  /\ SchedInv'
           /\ UNCHANGED bmVars \/ \E v \in Seqs : ReclaimSuffix(v, 0)
<1>1. pc = "evict" /\ UNCHANGED schedVars /\ pc \in Prefilling \ {"abortRestore"} /\ pc \in Choosing
  BY DEF EvictRetained, Prefilling, Choosing
<1>2. \/ \E v \in Range(waiting) : ReclaimSuffixOp(v, 0) /\ pc' = "ensure" /\ loop' = loop
      \/ Break(loop) /\ UNCHANGED bmVars
  BY <1>1, CurrentIdle DEF EvictRetained, Residents
<1>3. CASE \E v \in Range(waiting) : ReclaimSuffixOp(v, 0) /\ pc' = "ensure" /\ loop' = loop
  <2>1. PICK v \in Range(waiting) : ReclaimSuffixOp(v, 0) /\ pc' = "ensure" /\ loop' = loop
    BY <1>3
  <2>2. SchedInv' /\ ReclaimSuffix(v, 0)
    BY <1>1, <2>1, EvictedStays
  <2>3. v \in Seqs
    BY LocalTypes DEF SchedInv, CoreInv
  <2> QED
    BY <2>2, <2>3
<1>4. CASE Break(loop) /\ UNCHANGED bmVars
  <2>1. Still
    BY <1>1, <1>4, NothingTouched
  <2> QED
    BY <1>1, <1>4, <2>1, BreakMove, LoopIsSameBatch
<1> QED
  BY <1>2, <1>3, <1>4

\* Taking pages only removes keys from the index.
LEMMA TakeKeepsKeys ==
    ASSUME KeysAligned, NEW s, NEW ids, NEW fresh, TakePages(s, ids, fresh)
    PROVE  KeysAligned'
<1>1. index' = EvictFrom(index, Range(fresh))
  BY DEF TakePages
<1>2. DOMAIN index' \subseteq DOMAIN index
  BY <1>1 DEF EvictFrom, Restrict
<1> QED
  BY <1>2 DEF KeysAligned

LEMMA AllocateEffect ==
    ASSUME IndInv, NEW s \in Seqs, NEW n \in 0..CacheableBlocks(s), NEW k \in Nat, Allocate(s, n, k)
    PROVE  /\ \A t \in Seqs \ {s} : Untouched(t)
           /\ tokens' = tokens /\ compressed' = compressed /\ ~compressed[s]
           /\ Retained(s)' = NumBlocks(s) /\ Resident(s)'
           /\ numCached'[s] = n * BlockSize /\ numScheduled'[s] = k
           /\ KeysAligned => KeysAligned'
           /\ \E fresh : /\ Takes(s, LookupCachedBlocks(s), NumBlocks(s) - n, fresh)
                         /\ TableTaken(s, LookupCachedBlocks(s), NumBlocks(s) - n, fresh)
<1> DEFINE ids == LookupCachedBlocks(s)
           m == NumBlocks(s) - n
<1>1. TypeOK /\ TableInv /\ IndexedPageIntact
  BY DEF IndInv
<1>2. Offered(s, ids, 0) /\ Len(ids) = n
  BY <1>1, LookupOffered DEF Allocate, AllocateOp
<1>3. /\ NumBlocks(s) \in Nat /\ NumBlocks(s) = CacheableBlocks(s) + 1 /\ CacheableBlocks(s) \in Nat
  BY <1>1, TableSizes
<1>4. n \in Nat /\ m \in Nat /\ n + m = NumBlocks(s)
  BY <1>3
<1>5. /\ blockTable[s] = <<>>
      /\ logical' = [logical EXCEPT ![s] = [i \in 1..NumBlocks(s) |-> i]]
      /\ numCached' = [numCached EXCEPT ![s] = n * BlockSize]
      /\ numPhysical' = [numPhysical EXCEPT ![s] = n * BlockSize]
      /\ numScheduled' = [numScheduled EXCEPT ![s] = k]
      /\ tokens' = tokens /\ compressed' = compressed
  BY DEF Allocate, AllocateOp
<1>6. PICK fresh \in FreshPages(m, freeBlocks \ Range(ids)) : TakePages(s, ids, fresh)
  BY DEF Allocate, AllocateOp
<1>7. Retained(s) = 0 /\ Range(blockTable[s]) = {}
  BY <1>5, EmptySeq DEF Retained, Range
<1> HIDE DEF ids, m
<1>8. Takes(s, ids, m, fresh)
  BY <1>2, <1>6, <1>7 DEF Takes
<1>9. TableTaken(s, ids, m, fresh)
  BY <1>4, <1>8, TakeEffect
<1>10. Len(blockTable'[s]) = NumBlocks(s)
  BY <1>2, <1>4, <1>7, <1>9 DEF TableTaken
<1>11. blockTable'[s] # <<>>
  BY <1>3, <1>10
<1>12. /\ numCached'[s] = n * BlockSize /\ numScheduled'[s] = k
       /\ \A t \in Seqs \ {s} : Untouched(t)
  BY <1>1, <1>5, <1>9 DEF Untouched, TableTaken, TypeOK
<1>13. ~compressed[s]
  BY <1>1, <1>7, TableAtUse DEF Thinned
<1>14. KeysAligned => KeysAligned'
  BY <1>6, TakeKeepsKeys
<1> QED
  BY <1>5, <1>8, <1>9, <1>10, <1>11, <1>12, <1>13, <1>14 DEF Retained, Resident, ids, m

LEMMA ResumeEffect ==
    ASSUME IndInv, NEW s \in Seqs, Resume(s), WaitingAt(s), KeysAligned
    PROVE  /\ \A t \in Seqs \ {s} : Untouched(t)
           /\ tokens' = tokens /\ compressed' = compressed /\ numScheduled' = numScheduled
           /\ Retained(s)' = NumBlocks(s) /\ Resident(s)'
           /\ numCached'[s] < Len(tokens[s])
           /\ KeysAligned'
<1> DEFINE ids == ResumeSuffix(s)
           R == Retained(s)
           L == Len(ids)
           N == NumBlocks(s)
           m == N - R - L
<1>1. TypeOK /\ TableInv /\ IndexedPageIntact
  BY DEF IndInv
<1>2. /\ Offered(s, ids, R) /\ Range(ids) \cap Range(blockTable[s]) = {} /\ ids \in Seq(Blocks)
      /\ R + L <= CacheableBlocks(s) \/ ids = <<>>
  BY <1>1, SuffixOffered DEF Offered
<1>3. /\ N \in Nat /\ CacheableBlocks(s) \in Nat /\ N = CacheableBlocks(s) + 1 /\ R \in Nat
      /\ Len(tokens[s]) \in Nat /\ CacheableBlocks(s) * BlockSize < Len(tokens[s])
  BY <1>1, TableSizes
<1>4. /\ ~compressed[s] /\ pendingResume[s] = ids
      /\ R < N => numCached[s] = R * BlockSize
      /\ numCached[s] < Len(tokens[s])
  BY DEF Resume, WaitingAt
<1>5. /\ logical' = [logical EXCEPT ![s] = [i \in 1..N |-> i]]
      /\ numCached' = [numCached EXCEPT ![s] = @ + L * BlockSize]
      /\ numPhysical' = [numPhysical EXCEPT ![s] = @ + L * BlockSize]
      /\ tokens' = tokens /\ numScheduled' = numScheduled /\ compressed' = compressed
  BY <1>4 DEF Resume, ResumeOp
<1>6. PICK fresh \in FreshPages(m, freeBlocks \ Range(ids)) : TakePages(s, ids, fresh)
  BY <1>4 DEF Resume, ResumeOp
<1>7. numCached[s] \in Nat /\ R <= N
  BY <1>1, <1>4, TableAtUse
<1>8. L \in Nat /\ (ids = <<>> => L = 0) /\ BlockSize \in Nat /\ BlockSize >= 2
  BY <1>2, LenProperties, EmptySeq, BlockSizeAssumption
<1> HIDE DEF ids, R, L, N
<1>9. m \in Nat /\ R + L + m = N /\ N > 0 /\ (L = 0 \/ R + L <= N - 1)
  <2>1. N \in Nat /\ R \in Nat /\ L \in Nat /\ R <= N /\ N > 0
    BY <1>3, <1>7, <1>8
  <2>2. R + L <= N - 1 \/ L = 0
    BY <1>2, <1>3, <1>8
  <2> QED
    BY <2>1, <2>2
<1> HIDE DEF m
<1>10. Takes(s, ids, m, fresh)
  BY <1>2, <1>6 DEF Takes, R
<1>11. TableTaken(s, ids, m, fresh)
  BY <1>9, <1>10, TakeEffect
<1>12. Len(blockTable'[s]) = N
  BY <1>3, <1>8, <1>9, <1>11 DEF TableTaken, R, L
<1>13. blockTable'[s] # <<>>
  BY <1>9, <1>12
<1>14. numCached'[s] < Len(tokens[s])
  <2>1. numCached'[s] = numCached[s] + L * BlockSize
    BY <1>1, <1>5 DEF TypeOK
  <2>2. CASE L = 0
    BY <1>4, <1>7, <1>8, <2>1, <2>2
  <2>3. CASE L # 0
    <3>1. R + L <= CacheableBlocks(s) /\ R < N
      BY <1>3, <1>8, <1>9, <2>3
    <3>2. numCached'[s] = (R + L) * BlockSize
      BY <1>3, <1>4, <1>8, <2>1, <3>1
    <3>3. (R + L) * BlockSize <= CacheableBlocks(s) * BlockSize
      BY <1>3, <1>8, <3>1, PageOrder
    <3>4. (R + L) * BlockSize \in Nat /\ CacheableBlocks(s) * BlockSize \in Nat
      BY <1>3, <1>8
    <3> QED
      BY <1>3, <3>2, <3>3, <3>4
  <2> QED
    BY <2>2, <2>3
<1>15. \A t \in Seqs \ {s} : Untouched(t)
  BY <1>1, <1>5, <1>11 DEF Untouched, TableTaken, TypeOK
<1>16. KeysAligned'
  BY <1>6, TakeKeepsKeys
<1> QED
  BY <1>5, <1>12, <1>13, <1>14, <1>15, <1>16 DEF Retained, Resident, N

LEMMA ResumeKeeps ==
    ASSUME IndInv, SchedInv, Resume_
    PROVE  SchedInv' /\ \E s \in Seqs : Resume(s)
<1>1. /\ pc = "resume" /\ pc' = "admit" /\ loop' = loop /\ UNCHANGED schedVars
      /\ pc \in Choosing \ {"abortRestore"} /\ pc \in Prefilling \ {"abortRestore"}
      /\ pc' \in Prefilling \ {"abortRestore"} /\ ResumeOp(loop.cur)
  BY DEF Resume_, Choosing, Prefilling
<1>2. PICK s \in Seqs : s = loop.cur /\ s \in Range(waiting)
  BY <1>1, CurrentIdle
<1>3. Idle(s) /\ s \notin Scheduled /\ ~compressed[s] /\ WaitingAt(s)
  BY <1>1, <1>2, WaitingUncompressed
<1>4. /\ Resident(s) /\ s \in DOMAIN pendingResume /\ pendingResume[s] = ResumeSuffix(s)
      /\ CanResume(s)
  BY <1>1, <1>2 DEF SchedInv, CurInv
<1>5. Resume(s)
  BY <1>1, <1>2, <1>3, <1>4 DEF Resume, Resident, WaitingAt
<1>6. /\ \A t \in Seqs \ {s} : Untouched(t)
      /\ tokens' = tokens /\ compressed' = compressed /\ numScheduled' = numScheduled
      /\ Retained(s)' = NumBlocks(s) /\ Resident(s)'
      /\ numCached'[s] < Len(tokens[s])
      /\ KeysAligned'
  BY <1>3, <1>5, ResumeEffect DEF SchedInv, CoreInv
<1>7. NumBlocks(s)' = NumBlocks(s)
  BY <1>6 DEF NumBlocks
<1>8. NumBlocks(s) \in Nat
  BY TableSizes DEF IndInv
<1>9. Idle(s)' /\ WaitingAt(s)' /\ ~compressed'[s]
  BY <1>3, <1>6, <1>7, <1>8 DEF Idle, WaitingAt
<1>10. CoreInv'
  BY <1>1, <1>2, <1>3, <1>6, <1>9, WaitingTouched, LoopIsSameBatch
<1>11. CurInv'
  <2>1. waiting' = waiting
    BY <1>1 DEF schedVars
  <2> QED
    BY <1>1, <1>2, <1>6, <1>7, <2>1 DEF SchedInv, CurInv, Choosing
<1> QED
  BY <1>5, <1>10, <1>11 DEF SchedInv

---------------------------------------------------------------------------
(* The prefill loop: allocation and restores *)

\* A planned allocation is one the block manager can serve.
LEMMA PlannedAllocate ==
    ASSUME IndInv, NEW s \in Seqs, Idle(s), ~Resident(s), Planned(s), loop.hit \in Nat
    PROVE  /\ loop.hit \in 0..CacheableBlocks(s)
           /\ loop.hit * BlockSize \in Nat /\ loop.hit * BlockSize < Len(tokens[s])
           /\ Len(AllocatePlan(s, loop.hit)) = loop.hit
           /\ \A k \in 0..(Len(tokens[s]) - loop.hit * BlockSize) :
                 AllocateOp(s, loop.hit, k) => Allocate(s, loop.hit, k)
<1>1. TypeOK /\ TableInv /\ IndexedPageIntact
  BY DEF IndInv
<1>2. loop.hit \in 0..CacheableBlocks(s)
  BY <1>1, LookupOffered DEF Planned
<1>3. loop.hit * BlockSize \in Nat /\ loop.hit * BlockSize < Len(tokens[s])
  BY <1>1, <1>2, CacheableKey
<1>4. Len(AllocatePlan(s, loop.hit)) = loop.hit
  BY DEF Planned
<1>5. \A k \in 0..(Len(tokens[s]) - loop.hit * BlockSize) :
         AllocateOp(s, loop.hit, k) => Allocate(s, loop.hit, k)
  BY DEF Planned, Allocate
<1> QED
  BY <1>2, <1>3, <1>4, <1>5

\* The prefill loop changes the pages or the queue of the request v at hand.
LEMMA PrefillTouched ==
    ASSUME SchedInv, NEW v \in Seqs, v \in Range(waiting), v \notin Scheduled,
           pc \in Prefilling, pc = "abortRestore" => loop.cur = v,
           pc' \in Prefilling, pc' = "abortRestore" => loop'.cur = v,
           SameBatch(loop'), QueueTyped', running' = running, IsInjective(waiting'),
           \A t \in Seqs \ {v} : Untouched(t) /\ SamePlace(t),
           QueuedAt(v)', RequestAt(v)', Idle(v)', KeysAligned',
           status'[v] \in {"waiting", "waiting_for_kv"}
    PROVE  CoreInv'
<1>2. QueueTyped /\ QueueInv /\ BatchInv /\ RequestInv /\ NoOrphanPages /\ ~loop.isPrefill
  BY DEF SchedInv, CoreInv, BatchInv
<1>3. /\ loop' \in Locals /\ loop'.scheduled = loop.scheduled /\ loop'.batched = loop.batched
      /\ ~loop'.isPrefill /\ Scheduled' = Scheduled /\ Scheduled \subseteq Seqs
  BY <1>2, LocalTypes DEF SameBatch, Scheduled
<1>4. /\ pc' \notin {"append", "finish", "run", "failActive", "post"} /\ pc \notin Decoding
      /\ pc' \notin Decoding /\ pc' \notin Outside /\ pc' \notin Executing /\ pc # "finish"
      /\ pc # "failActive"
  BY DEF Prefilling, Choosing, Decoding, Outside, Executing
<1>5. /\ \A t \in Seqs : ~Finishing(t) /\ ~Finishing(t)' /\ ~Popped(t)' /\ ~Popped(t)
      /\ \A t \in Seqs \ {v} : ~Aborting(t)' /\ ~Aborting(t)
  BY <1>4 DEF Aborting, Finishing, Popped
<1>6. QueueInv'
  <2>1. \A t \in Seqs \ {v} : QueuedAt(t)'
    BY <1>2, <1>5 DEF QueueInv, QueuedAt, SamePlace
  <2>2. \A t \in Seqs : QueuedAt(t)'
    BY <2>1
  <2> QED
    BY <1>2, <1>3, <1>4, <2>2 DEF QueueInv
<1>7. RequestInv'
  <2>1. \A t \in Seqs \ {v} : RequestAt(t)'
    BY <1>2, <1>5, RequestKept DEF RequestInv
  <2> QED
    BY <2>1 DEF RequestInv
<1>8. NoOrphanPages'
  <2> SUFFICES ASSUME NEW t \in Seqs, Resident(t)'
               PROVE  status'[t] \in {"waiting", "running", "waiting_for_kv"}
    BY DEF NoOrphanPages
  <2>1. CASE t = v
    BY <2>1
  <2>2. CASE t # v
    BY <1>2, <1>4, <2>2, SameRequest DEF NoOrphanPages, SamePlace
  <2> QED
    BY <2>1, <2>2
<1>9. BatchInv'
  <2>1. \A t \in Scheduled' : PrefillMember(t)'
    <3> SUFFICES ASSUME NEW t \in Scheduled PROVE PrefillMember(t)'
      BY <1>3
    <3>1. t \in Seqs \ {v} /\ PrefillMember(t)
      BY <1>2, <1>3 DEF BatchInv
    <3> QED
      BY <1>3, <3>1, MemberKept DEF SamePlace
  <2>2. ASSUME NEW t \in Seqs, ~Idle(t)' PROVE t \in Scheduled'
    <3>1. t # v
      BY <2>2
    <3>2. ~Idle(t)
      BY <2>2, <3>1, SameRequest
    <3> QED
      BY <1>2, <1>3, <1>4, <3>2 DEF BatchInv
  <2> QED
    BY <1>3, <1>4, <2>1, <2>2 DEF BatchInv
<1>10. RunInv'
  BY <1>4 DEF RunInv
<1> QED
  BY <1>6, <1>7, <1>8, <1>9, <1>10 DEF CoreInv

\* What reserve_restore is called with and what it does.
LEMMA ReserveEffect ==
    ASSUME IndInv, SchedInv, pc = "restore", NEW s \in Seqs, s = loop.cur, ReserveRestore(s)
    PROVE  /\ Allocate(s, loop.hit, 0) /\ loop.hit \in 0..CacheableBlocks(s)
           /\ s \in Range(waiting) /\ s \notin Scheduled /\ ~Resident(s) /\ s \notin DOMAIN pending
           /\ Planned(s)
           /\ \A t \in Seqs \ {s} : Untouched(t) /\ status'[t] = status[t]
           /\ status' \in [Seqs -> Statuses] /\ status'[s] = "waiting_for_kv"
           /\ attempted' \in [Seqs -> BOOLEAN] /\ inPrefill' = inPrefill /\ inPrefill[s]
           /\ tokens' = tokens /\ ~compressed'[s] /\ Idle(s)'
           /\ Retained(s)' = NumBlocks(s) /\ NumBlocks(s)' = NumBlocks(s) /\ Resident(s)'
           /\ CacheableBlocks(s)' = CacheableBlocks(s)
           /\ numCached'[s] = loop.hit * BlockSize /\ numCached'[s] < Len(tokens[s])
           /\ KeysAligned'
           /\ Len(tokens[s]) < Len(Prompt[s]) + MaxTokens[s]
           /\ Len(tokens[s]) <= Len(Prompt[s]) + MaxTokens[s]
<1>1. pc \in Choosing \ {"abortRestore"}
  BY DEF Choosing
<1>2. /\ s \in Range(waiting) /\ Idle(s) /\ s \notin Scheduled /\ ~compressed[s]
      /\ ~Aborting(s) /\ status[s] = "waiting"
  BY <1>1, CurrentIdle, WaitingUncompressed DEF Aborting
<1>3. ~Resident(s) /\ Planned(s)
  BY DEF SchedInv, CurInv
<1>4. s \notin DOMAIN pending /\ RequestAt(s) /\ QueueTyped /\ KeysAligned
  BY <1>2 DEF SchedInv, CoreInv, QueueInv, QueuedAt, RequestInv
<1>5. loop.hit \in Nat
  BY <1>4, LocalTypes
<1>6. /\ loop.hit \in 0..CacheableBlocks(s) /\ loop.hit * BlockSize \in Nat
      /\ loop.hit * BlockSize < Len(tokens[s])
      /\ \A k \in 0..(Len(tokens[s]) - loop.hit * BlockSize) :
            AllocateOp(s, loop.hit, k) => Allocate(s, loop.hit, k)
  BY <1>2, <1>3, <1>5, PlannedAllocate
<1>7. Len(tokens[s]) \in Nat
  BY TableSizes DEF IndInv
<1>8. Allocate(s, loop.hit, 0)
  BY <1>6, <1>7 DEF ReserveRestore
<1>9. /\ \A t \in Seqs \ {s} : Untouched(t)
      /\ tokens' = tokens /\ compressed' = compressed
      /\ Retained(s)' = NumBlocks(s) /\ Resident(s)'
      /\ numCached'[s] = loop.hit * BlockSize /\ numScheduled'[s] = 0
      /\ KeysAligned'
  BY <1>4, <1>6, <1>8, AllocateEffect
<1>10. /\ attempted' = [attempted EXCEPT ![s] = TRUE]
       /\ status' = [status EXCEPT ![s] = "waiting_for_kv"] /\ inPrefill' = inPrefill
  BY DEF ReserveRestore
<1>11. /\ status' \in [Seqs -> Statuses] /\ status'[s] = "waiting_for_kv"
       /\ \A t \in Seqs \ {s} : status'[t] = status[t]
       /\ attempted' \in [Seqs -> BOOLEAN]
  BY <1>4, <1>10 DEF QueueTyped, Statuses
<1>12. NumBlocks(s)' = NumBlocks(s) /\ CacheableBlocks(s)' = CacheableBlocks(s)
  BY <1>9 DEF NumBlocks, CacheableBlocks
<1>13. /\ inPrefill[s] /\ Len(tokens[s]) < Len(Prompt[s]) + MaxTokens[s]
       /\ Len(tokens[s]) <= Len(Prompt[s]) + MaxTokens[s]
  BY <1>2, <1>4 DEF RequestAt
<1>14. Idle(s)' /\ ~compressed'[s]
  BY <1>2, <1>9 DEF Idle
<1> QED
  BY <1>2, <1>3, <1>4, <1>6, <1>8, <1>9, <1>10, <1>11, <1>12, <1>13, <1>14

LEMMA StartRestoreKeeps ==
    ASSUME IndInv, SchedInv, StartRestore
    PROVE  /\ SchedInv'
           /\ \E s \in Seqs : \E n \in 0..CacheableBlocks(s) : Allocate(s, n, 0)
<1>1. /\ pc = "restore" /\ pc \in Choosing /\ pc \in Prefilling /\ pc' = "prefill"
      /\ pc' \in Prefilling /\ running' = running
      /\ loop' = [loop EXCEPT !.cur = NoSeq, !.hit = 0]
  BY DEF StartRestore, Choosing, Prefilling, Continue
<1>2. PICK s \in Seqs : s = loop.cur
  BY <1>1, CurrentIdle
<1>3. ReserveRestore(s) /\ waiting' = RemoveFirst(waiting, s)
  BY <1>2 DEF StartRestore
<1>4. PICK total \in (loop.hit + 1)..CacheableBlocks(s) :
         pending' = [r \in DOMAIN pending \cup {s} |-> IF r = s THEN total ELSE pending[r]]
  BY <1>2 DEF StartRestore
<1>5. /\ Allocate(s, loop.hit, 0) /\ loop.hit \in 0..CacheableBlocks(s)
      /\ s \in Range(waiting) /\ s \notin Scheduled /\ s \notin DOMAIN pending
      /\ \A t \in Seqs \ {s} : Untouched(t) /\ status'[t] = status[t]
      /\ status' \in [Seqs -> Statuses] /\ status'[s] = "waiting_for_kv"
      /\ attempted' \in [Seqs -> BOOLEAN] /\ inPrefill' = inPrefill /\ inPrefill[s]
      /\ tokens' = tokens /\ ~compressed'[s] /\ Idle(s)'
      /\ Retained(s)' = NumBlocks(s) /\ NumBlocks(s)' = NumBlocks(s) /\ Resident(s)'
      /\ CacheableBlocks(s)' = CacheableBlocks(s)
      /\ numCached'[s] = loop.hit * BlockSize /\ KeysAligned'
      /\ Len(tokens[s]) < Len(Prompt[s]) + MaxTokens[s]
      /\ Len(tokens[s]) <= Len(Prompt[s]) + MaxTokens[s]
  BY <1>1, <1>2, <1>3, ReserveEffect
<1>6. QueueTyped /\ QueueInv /\ loop \in Locals
  BY DEF SchedInv, CoreInv, QueueTyped
<1>7. /\ waiting' \in Seq(Seqs) /\ Range(waiting') = Range(waiting) \ {s} /\ IsInjective(waiting')
  BY <1>3, <1>6, RemoveFromQueue DEF QueueTyped, QueueInv
<1>8. SameBatch(loop')
  BY <1>1, <1>6 DEF SameBatch, Locals
<1>9. /\ DOMAIN pending' = DOMAIN pending \cup {s} /\ pending'[s] = total /\ total \in Nat
      /\ \A t \in DOMAIN pending : pending'[t] = pending[t]
      /\ pending' \in [DOMAIN pending' -> Nat] /\ DOMAIN pending' \subseteq Seqs
  <2>1. total \in Nat
    <3>1. CacheableBlocks(s) \in Nat /\ loop.hit \in Nat
      BY <1>5, TableSizes DEF IndInv
    <3> QED
      BY <3>1
  <2>2. DOMAIN pending \subseteq Seqs /\ \A t \in DOMAIN pending : pending[t] \in Nat
    BY <1>6 DEF QueueTyped
  <2>3. /\ DOMAIN pending' = DOMAIN pending \cup {s} /\ pending'[s] = total
        /\ \A t \in DOMAIN pending : pending'[t] = pending[t]
    <3>1. s \notin DOMAIN pending
      BY <1>5
    <3> QED
      BY <1>4, <3>1
  <2>4. pending' \in [DOMAIN pending \cup {s} -> Nat]
    <3>1. \A r \in DOMAIN pending \cup {s} : (IF r = s THEN total ELSE pending[r]) \in Nat
      BY <2>1, <2>2
    <3> QED
      BY <1>4, <3>1
  <2> QED
    BY <2>1, <2>2, <2>3, <2>4
<1>10. QueueTyped'
  BY <1>1, <1>5, <1>6, <1>7, <1>8, <1>9 DEF QueueTyped, SameBatch
<1>11. \A t \in Seqs \ {s} : Untouched(t) /\ SamePlace(t)
  BY <1>5, <1>7, <1>9 DEF SamePlace
<1>12. /\ ~Aborting(s)' /\ ~Finishing(s)' /\ ~Popped(s)' /\ s \notin Range(running)
  <2>1. ~Aborting(s)' /\ ~Finishing(s)' /\ ~Popped(s)' /\ ~Aborting(s) /\ ~Finishing(s)
    BY <1>1 DEF Aborting, Finishing, Popped, Decoding
  <2>2. status[s] = "waiting"
    BY <1>1, <1>2, <1>5, <2>1, CurrentIdle
  <2> QED
    BY <1>6, <2>1, <2>2 DEF QueueInv, QueuedAt
<1>13. QueuedAt(s)'
  BY <1>1, <1>5, <1>7, <1>9, <1>12 DEF QueuedAt
<1>14. PendingAt(s)'
  <2>1. /\ BlockSize \in Nat /\ BlockSize >= 2 /\ loop.hit \in Nat
        /\ (loop.hit * BlockSize) \div BlockSize = loop.hit /\ (loop.hit * BlockSize) % BlockSize = 0
    <3>1. loop.hit \in Nat
      BY <1>6, LocalTypes
    <3> QED
      BY <3>1, MulDiv, BlockSizeAssumption
  <2>2. loop.hit < total /\ total <= CacheableBlocks(s)
    BY <1>5, <2>1
  <2> QED
    BY <1>5, <1>9, <2>1, <2>2 DEF PendingAt
<1>15. RequestAt(s)'
  BY <1>5, <1>7, <1>14 DEF RequestAt
<1>16. CoreInv'
  BY <1>1, <1>5, <1>7, <1>8, <1>10, <1>11, <1>13, <1>15, PrefillTouched
<1>17. CurInv'
  BY <1>1 DEF CurInv, Choosing
<1> QED
  BY <1>5, <1>16, <1>17 DEF SchedInv

\* Evicting the fresh pages does not change what the cache offers s: the keys
\* of the claimed pages stay, and no key is added.
LEMMA LookupSurvives ==
    ASSUME IndInv, KeysAligned, NEW s \in Seqs, NEW m \in Nat, NEW fresh,
           Takes(s, LookupCachedBlocks(s), m, fresh),
           TableTaken(s, LookupCachedBlocks(s), m, fresh), tokens' = tokens
    PROVE  LookupCachedBlocks(s)' = LookupCachedBlocks(s)
<1> DEFINE F == Range(fresh)
<1>1. TypeOK /\ TableInv /\ IndexedPageIntact /\ IndexHashed
  BY DEF IndInv, HashesAgree
<1>0. PICK C \in Nat : C = CacheableBlocks(s)
  BY <1>1, TableSizes
<1>2. PICK n \in 0..C : /\ n = MatchLength(s) /\ \A i \in 1..n : Hit(ChainKey(s, i))
                        /\ n = C \/ ~Hit(ChainKey(s, n + 1))
  BY <1>0, <1>1, MatchIsHits
<1>3. /\ LookupCachedBlocks(s) = [i \in 1..n |-> index[ChainKey(s, i)]]
      /\ \A i \in 1..n : index[ChainKey(s, i)] \in Range(LookupCachedBlocks(s))
  BY <1>2 DEF LookupCachedBlocks, Range
<1>4. F \subseteq freeBlocks \ Range(LookupCachedBlocks(s))
  BY DEF TableTaken
<1>5. index' = EvictFrom(index, F) /\ blockHash' = [b \in Blocks |-> IF b \in F THEN NoHash ELSE blockHash[b]]
  BY DEF Takes, TakePages
<1>6. \A i : ChainKey(s, i)' = ChainKey(s, i)
  BY DEF ChainKey
<1>7. CacheableBlocks(s)' = C
  BY <1>0 DEF CacheableBlocks, NumBlocks
<1> HIDE DEF F
<1>8. /\ DOMAIN index' \subseteq DOMAIN index /\ \A key \in DOMAIN index' : index'[key] = index[key]
  BY <1>5 DEF EvictFrom, Restrict
<1>9. ASSUME NEW i \in 1..n PROVE ChainKey(s, i) \in DOMAIN index'
  <2>1. /\ i \in Nat /\ i \in 1..C /\ ChainKey(s, i) \in DOMAIN index
        /\ index[ChainKey(s, i)] \notin F
    BY <1>2, <1>3, <1>4, SMTT(30) DEF Hit
  <2>2. CASE Backend = "hash"
    BY <1>5, <2>1, <2>2 DEF EvictFrom, Restrict
  <2>3. CASE Backend # "hash"
    <3>1. \A q \in DOMAIN index : q \in Seq(Token) /\ q # <<>> /\ Len(q) % BlockSize = 0
      BY <1>1, <2>3, BackendAssumption DEF KeysAligned, TypeOK
    <3>2. ASSUME NEW q \in DOMAIN index, Len(q) <= Len(ChainKey(s, i)),
                 SubSeq(ChainKey(s, i), 1, Len(q)) = q
          PROVE  index[q] \notin F
      <4>1. q \in Seq(Token) /\ Len(q) \in Nat /\ Len(q) > 0 /\ Len(q) % BlockSize = 0
        BY <3>1, LenProperties, EmptySeq
      <4>2. PICK j \in Nat : Len(q) = j * BlockSize /\ j >= 1
        <5>1. /\ Len(q) \div BlockSize \in Nat
              /\ Len(q) = (Len(q) \div BlockSize) * BlockSize + (Len(q) % BlockSize)
          BY <4>1, DivPage
        <5>2. PICK j \in Nat : Len(q) = j * BlockSize
          <6>1. PICK j \in Nat : Len(q) = j * BlockSize + 0
            BY <4>1, <5>1, Zenon
          <6> QED
            BY <4>1, <6>1, BlockSizeAssumption
        <5>3. j # 0
          BY <4>1, <5>2, BlockSizeAssumption
        <5> QED
          BY <5>2, <5>3
      <4>3. /\ i * BlockSize \in Nat /\ i * BlockSize < Len(tokens[s]) /\ tokens[s] \in Seq(Token)
            /\ Len(tokens[s]) \in Nat /\ Len(ChainKey(s, i)) = i * BlockSize
        <5>1. i \in 0..CacheableBlocks(s)
          BY <1>0, <1>2, <2>1
        <5>2. i * BlockSize \in Nat /\ i * BlockSize < Len(tokens[s]) /\ Len(tokens[s]) \in Nat
          BY <1>1, <5>1, CacheableKey, TableSizes
        <5>3. i * BlockSize <= Len(tokens[s])
          BY <5>2
        <5> QED
          BY <1>1, <2>1, <5>3, KeyType, <5>2 DEF TypeOK
      <4>4. j <= i
        <5>1. j * BlockSize <= i * BlockSize
          BY <3>2, <4>2, <4>3
        <5> QED
          BY <2>1, <4>2, <5>1, BlockSizeAssumption
      <4>5. q = ChainKey(s, j)
        <5>1. j * BlockSize \in 0..(i * BlockSize) /\ i * BlockSize \in 0..Len(tokens[s])
          BY <3>2, <4>1, <4>2, <4>3
        <5>2. SubSeq(SubSeq(tokens[s], 1, i * BlockSize), 1, j * BlockSize)
                = SubSeq(tokens[s], 1, j * BlockSize)
          BY <4>3, <5>1, PrefixOfPrefix
        <5> QED
          BY <3>2, <4>2, <5>2 DEF ChainKey
      <4>6. j \in 1..n
        BY <1>2, <4>2, <4>4
      <4> QED
        BY <1>3, <1>4, <4>5, <4>6
    <3> QED
      BY <1>5, <2>1, <2>3, <3>2 DEF EvictFrom, Restrict
  <2> QED
    BY <2>2, <2>3
<1>10. ASSUME NEW i \in 1..n PROVE Hit(ChainKey(s, i))' /\ index'[ChainKey(s, i)] = index[ChainKey(s, i)]
  <2>1. ChainKey(s, i) \in DOMAIN index' /\ index'[ChainKey(s, i)] = index[ChainKey(s, i)]
    BY <1>8, <1>9
  <2>2. index[ChainKey(s, i)] \notin F /\ index[ChainKey(s, i)] \in Blocks
    BY <1>1, <1>3, <1>4, <1>8, <2>1 DEF TypeOK
  <2>3. Backend = "hash" => blockHash'[index[ChainKey(s, i)]] = ChainKey(s, i)
    BY <1>2, <1>5, <2>2 DEF Hit
  <2> QED
    BY <1>6, <2>1, <2>3 DEF Hit
<1>11. n = C \/ ~Hit(ChainKey(s, n + 1))'
  <2> SUFFICES ASSUME n # C, Hit(ChainKey(s, n + 1))' PROVE FALSE
    OBVIOUS
  <2>1. ChainKey(s, n + 1) \in DOMAIN index'
    BY <1>6 DEF Hit
  <2>2. ChainKey(s, n + 1) \in DOMAIN index
    BY <1>8, <2>1
  <2>3. Hit(ChainKey(s, n + 1))
    BY <1>1, <2>2 DEF Hit, IndexHashed
  <2> QED
    BY <1>2, <2>3
<1>12. \E k \in 0..C : /\ \A i \in 1..k : Hit(ChainKey(s, i))'
                       /\ k = C \/ ~Hit(ChainKey(s, k + 1))'
  BY <1>2, <1>10, <1>11
<1>13. PICK k \in 0..C : /\ k = MatchLength(s)' /\ \A i \in 1..k : Hit(ChainKey(s, i))'
                         /\ k = C \/ ~Hit(ChainKey(s, k + 1))'
  BY <1>7, <1>12 DEF MatchLength
<1>14. k = n
  <2>1. CASE k < n
    <3>1. k # C /\ k + 1 \in 1..n
      BY <1>0, <1>2, <2>1
    <3> QED
      BY <1>10, <1>13, <3>1
  <2>2. CASE n < k
    <3>1. n # C /\ n + 1 \in 1..k
      BY <1>0, <1>2, <2>2
    <3> QED
      BY <1>11, <1>13, <3>1
  <2> QED
    BY <1>0, <1>2, <2>1, <2>2
<1>15. LookupCachedBlocks(s)' = [i \in 1..n |-> index'[ChainKey(s, i)]]
  BY <1>6, <1>13, <1>14 DEF LookupCachedBlocks
<1> QED
  BY <1>3, <1>10, <1>15

LEMMA ReserveThenRaiseKeeps ==
    ASSUME IndInv, SchedInv, ReserveThenRaise
    PROVE  /\ SchedInv'
           /\ \E s \in Seqs : \E n \in 0..CacheableBlocks(s) : Allocate(s, n, 0)
<1>1. /\ pc = "restore" /\ pc \in Choosing /\ pc \in Prefilling /\ pc' = "abortRestore"
      /\ pc' \in Prefilling /\ UNCHANGED <<waiting, running, pending, loop>>
  BY DEF ReserveThenRaise, Choosing, Prefilling
<1>2. PICK s \in Seqs : s = loop.cur
  BY <1>1, CurrentIdle
<1>3. ReserveRestore(s)
  BY <1>2 DEF ReserveThenRaise
<1>4. PICK h \in Nat : h = loop.hit
  BY LocalTypes DEF SchedInv, CoreInv
<1>5. /\ Allocate(s, h, 0) /\ h \in 0..CacheableBlocks(s)
      /\ s \in Range(waiting) /\ s \notin Scheduled /\ ~Resident(s) /\ s \notin DOMAIN pending
      /\ Planned(s)
      /\ \A t \in Seqs \ {s} : Untouched(t) /\ status'[t] = status[t]
      /\ status' \in [Seqs -> Statuses] /\ status'[s] = "waiting_for_kv"
      /\ attempted' \in [Seqs -> BOOLEAN] /\ inPrefill' = inPrefill /\ inPrefill[s]
      /\ tokens' = tokens /\ ~compressed'[s] /\ Idle(s)'
      /\ Retained(s)' = NumBlocks(s) /\ NumBlocks(s)' = NumBlocks(s) /\ Resident(s)'
      /\ numCached'[s] = h * BlockSize /\ numCached'[s] < Len(tokens[s])
      /\ KeysAligned'
      /\ Len(tokens[s]) < Len(Prompt[s]) + MaxTokens[s]
      /\ Len(tokens[s]) <= Len(Prompt[s]) + MaxTokens[s]
  BY <1>1, <1>2, <1>3, <1>4, ReserveEffect
<1>6. QueueTyped /\ QueueInv /\ KeysAligned
  BY DEF SchedInv, CoreInv
<1>7. SameBatch(loop')
  BY <1>1, LoopIsSameBatch
<1>8. QueueTyped'
  BY <1>1, <1>5, <1>6 DEF QueueTyped, Prefilling
<1>9. \A t \in Seqs \ {s} : Untouched(t) /\ SamePlace(t)
  BY <1>1, <1>5 DEF SamePlace
<1>10. /\ Aborting(s)' /\ ~Finishing(s)' /\ ~Popped(s)' /\ s \notin Range(running)
  <2>1. Aborting(s)' /\ ~Finishing(s)' /\ ~Popped(s)' /\ ~Aborting(s) /\ ~Finishing(s)
    BY <1>1, <1>2 DEF Aborting, Finishing, Popped, Decoding
  <2>2. status[s] = "waiting"
    BY <1>1, <1>2, <1>5, <2>1, CurrentIdle
  <2> QED
    BY <1>6, <2>1, <2>2 DEF QueueInv, QueuedAt
<1>11. QueuedAt(s)'
  BY <1>1, <1>5, <1>10 DEF QueuedAt
<1>12. NumBlocks(s) \in Nat /\ CacheableBlocks(s) \in Nat /\ NumBlocks(s) = CacheableBlocks(s) + 1
  BY TableSizes DEF IndInv
<1>13. RequestAt(s)'
  BY <1>1, <1>5, <1>12 DEF RequestAt, WaitingAt
<1>14. CoreInv'
  <2>1. IsInjective(waiting') /\ loop'.cur = s
    BY <1>1, <1>2, <1>6 DEF QueueInv
  <2> QED
    BY <1>1, <1>2, <1>5, <1>7, <1>8, <1>9, <1>11, <1>13, <2>1, PrefillTouched
<1>15. /\ LookupCachedBlocks(s)' = LookupCachedBlocks(s)
       /\ \A i \in 1..h : blockTable'[s][i] = LookupCachedBlocks(s)[i]
  <2>1. PICK fresh : /\ Takes(s, LookupCachedBlocks(s), NumBlocks(s) - h, fresh)
                     /\ TableTaken(s, LookupCachedBlocks(s), NumBlocks(s) - h, fresh)
    BY <1>5, AllocateEffect
  <2>2. NumBlocks(s) - h \in Nat
    BY <1>5, <1>12
  <2>3. Retained(s) = 0 /\ h = Len(LookupCachedBlocks(s))
    BY <1>4, <1>5 DEF Resident, Retained, Planned
  <2>4. \A i \in 1..h : blockTable'[s][0 + i] = LookupCachedBlocks(s)[i]
    BY <2>1, <2>3 DEF TableTaken
  <2>5. \A i \in 1..h : 0 + i = i
    OBVIOUS
  <2>6. LookupCachedBlocks(s)' = LookupCachedBlocks(s)
    BY <1>5, <1>6, <2>1, <2>2, LookupSurvives
  <2> QED
    BY <2>4, <2>5, <2>6
<1>16. Reserved(s)'
  <2>1. s \notin DOMAIN pendingMatches'
    <3>1. pendingMatches' = Pop(pendingMatches, s)
      BY <1>5 DEF Allocate, AllocateOp
    <3> QED
      BY <3>1 DEF Pop, Restrict
  <2>2. h = Len(LookupCachedBlocks(s)') /\ loop'.hit = h
    BY <1>1, <1>4, <1>5, <1>15 DEF Planned
  <2>3. \A i \in 1..h : blockTable'[s][i] = LookupCachedBlocks(s)'[i]
    BY <1>15
  <2> QED
    BY <1>5, <2>1, <2>2, <2>3 DEF Reserved
<1>17. CurInv'
  <2>1. loop.batched < MaxNumBatched /\ Len(loop.scheduled) < MaxNumSeqs
    BY <1>1 DEF SchedInv, CurInv
  <2> QED
    BY <1>1, <1>2, <1>5, <1>16, <2>1 DEF CurInv
<1> QED
  BY <1>5, <1>14, <1>17 DEF SchedInv

\* The positions of a table with n pages.
LEMMA PositionsFinite ==
    ASSUME NEW n \in Nat
    PROVE  IsFiniteSet(1..n) /\ Cardinality(1..n) = n
<1>1. 1 \in Int /\ n \in Int /\ (IF 1 > n THEN 0 ELSE n - 1 + 1) = n
  OBVIOUS
<1>2. IsFiniteSet(1..n) /\ Cardinality(1..n) = IF 1 > n THEN 0 ELSE n - 1 + 1
  BY <1>1, FS_Interval
<1> QED
  BY <1>1, <1>2

\* N pages, each in F or counted by U: F has room for those U does not count.
LEMMA RoomFor ==
    ASSUME NEW N \in Nat, NEW f, \A i, j \in 1..N : f[i] = f[j] => i = j,
           NEW F, IsFiniteSet(F), NEW U, IsFiniteSet(U), \A i \in 1..N : f[i] \in F \/ i \in U
    PROVE  N - Cardinality(U) <= Cardinality(F)
<1> DEFINE A == {i \in 1..N : f[i] \in F}
           g == [i \in A |-> f[i]]
<1>1. g \in Injection(A, F)
  BY DEF Injection, IsInjective
<1>2. IsFiniteSet(A) /\ Cardinality(A) <= Cardinality(F)
  <2> HIDE DEF A, g
  <2> QED
    BY <1>1, FS_Injection
<1>3. /\ IsFiniteSet(A \cup U)
      /\ Cardinality(A \cup U) = Cardinality(A) + Cardinality(U) - Cardinality(A \cap U)
  <2> HIDE DEF A
  <2> QED
    BY <1>2, FS_Union
<1>4. (1..N) \in SUBSET (A \cup U)
  OBVIOUS
<1>5. Cardinality(1..N) <= Cardinality(A \cup U)
  <2> HIDE DEF A
  <2> QED
    BY <1>3, <1>4, FS_Subset
<1>6. Cardinality(1..N) = N
  BY PositionsFinite
<1>7. /\ Cardinality(A) \in Nat /\ Cardinality(U) \in Nat /\ Cardinality(F) \in Nat
      /\ Cardinality(A \cap U) \in Nat
  <2>1. (A \cap U) \in SUBSET U
    OBVIOUS
  <2> HIDE DEF A
  <2>2. IsFiniteSet(A \cap U)
    BY <2>1, FS_Subset
  <2> QED
    BY <1>2, <2>2, FS_CardinalityType
<1> HIDE DEF A
<1> QED
  BY <1>2, <1>3, <1>5, <1>6, <1>7

LEMMA SameMatch ==
    ASSUME UNCHANGED <<tokens, index, blockHash>>, NEW s
    PROVE  /\ LookupCachedBlocks(s)' = LookupCachedBlocks(s) /\ NumBlocks(s)' = NumBlocks(s)
  BY DEF LookupCachedBlocks, MatchLength, Hit, ChainKey, CacheableBlocks, NumBlocks

\* A reservation that is given back leaves room for the same request.
LEMMA ReleasedFits ==
    ASSUME IndInv, NEW s \in Seqs, NEW h \in Nat, Deallocate(s), ~compressed[s],
           Retained(s) = NumBlocks(s), numCached[s] = h * BlockSize,
           h = Len(LookupCachedBlocks(s)),
           \A i \in 1..h : blockTable[s][i] = LookupCachedBlocks(s)[i]
    PROVE  CanAllocate(s)'
<1>1. TypeOK /\ PoolConsistent /\ TableInv /\ OpenPagesPrivate /\ IndexedPageIntact
  BY DEF IndInv
<1>2. PICK N \in Nat : /\ N = NumBlocks(s) /\ Retained(s) = N
                       /\ \A i \in 1..N : blockTable[s][i] \in Blocks
  BY <1>1, TableSizes
<1>3. IndInv' /\ ReleaseAll(s)
  BY DeallocateStep DEF Deallocate, DeallocateOp
<1>4. /\ UNCHANGED <<tokens, index, blockHash>>
      /\ freeBlocks' = freeBlocks \cup {b \in Range(blockTable[s]) : refCount[b] = 1}
  BY <1>3 DEF ReleaseAll, DropPages
<1>5. LookupCachedBlocks(s)' = LookupCachedBlocks(s) /\ NumBlocks(s)' = N
  BY <1>2, <1>4, SameMatch
<1>6. /\ freeBlocks' \cup usedBlocks' = Blocks /\ freeBlocks' \subseteq Blocks
  BY <1>3 DEF IndInv, PoolConsistent
<1>7. h \in 0..CacheableBlocks(s) /\ h <= N
  <2>1. h \in 0..CacheableBlocks(s) /\ CacheableBlocks(s) \in Nat /\ NumBlocks(s) = CacheableBlocks(s) + 1
    BY <1>1, LookupOffered, TableSizes
  <2> QED
    BY <1>2, <2>1
<1>8. DOMAIN LookupCachedBlocks(s) = 1..h
  <2>1. LookupCachedBlocks(s) \in Seq(Blocks)
    BY <1>1, LookupOffered DEF Offered
  <2> QED
    BY <2>1, LenProperties
<1> DEFINE U == {i \in 1..h : LookupCachedBlocks(s)[i] \in usedBlocks'}
<1>9. InUse(LookupCachedBlocks(s))' = U
  BY <1>5, <1>8 DEF InUse
<1>10. IsFiniteSet(U) /\ IsFiniteSet(freeBlocks')
  <2>0. IsFiniteSet(1..h)
    BY PositionsFinite
  <2>1. IsFiniteSet(1..h) /\ U \in SUBSET (1..h) /\ freeBlocks' \in SUBSET Blocks
    BY <1>6, <2>0
  <2> HIDE DEF U
  <2> QED
    BY <2>1, FS_Subset, BlocksAssumption
<1>11. ASSUME NEW i \in 1..N PROVE blockTable[s][i] \in freeBlocks' \/ i \in U
  <2>1. CASE i \in 1..h
    BY <1>2, <1>6, <2>1
  <2>2. CASE i \notin 1..h
    <3>1. i > h /\ i \in Nat /\ i \in 1..Retained(s)
      BY <1>2, <2>2
    <3>2. logical[s][i] = i /\ numCached[s] \in Nat
      BY <1>1, <3>1, TableAtUse
    <3>3. h * BlockSize + BlockSize <= i * BlockSize /\ i * BlockSize \in Nat /\ h * BlockSize \in Nat
      BY <3>1, PageOrder
    <3>4. Open(s, i)
      BY <3>2, <3>3, BlockSizeAssumption DEF Open
    <3>5. HeldBy(blockTable, blockTable[s][i]) = {s}
      BY <1>1, <3>1, <3>4 DEF OpenPagesPrivate, PrivateAt
    <3>6. refCount[blockTable[s][i]] = 1
      <4>1. PICK b \in Blocks : b = blockTable[s][i]
        BY <1>2
      <4>2. refCount[b] = Cardinality(HeldBy(blockTable, b))
        BY <1>1, FreeIsUnheld
      <4>3. Cardinality({s}) = 1
        BY FS_Singleton
      <4> QED
        BY <3>5, <4>1, <4>2, <4>3
    <3>7. blockTable[s][i] \in Range(blockTable[s])
      BY <1>1, <3>1, TableSizes DEF Range
    <3> QED
      BY <1>4, <3>6, <3>7
  <2> QED
    BY <2>1, <2>2
<1>12. \A i, j \in 1..N : blockTable[s][i] = blockTable[s][j] => i = j
  <2>1. DOMAIN blockTable[s] = 1..N
    BY <1>1, <1>2, TableSizes
  <2> QED
    BY <1>1, <2>1 DEF PoolConsistent, IsInjective
<1>13. N - Cardinality(U) <= Cardinality(freeBlocks')
  <2> HIDE DEF U
  <2>1. PICK f : f = blockTable[s]
    OBVIOUS
  <2>2. /\ \A i, j \in 1..N : f[i] = f[j] => i = j
        /\ \A i \in 1..N : f[i] \in freeBlocks' \/ i \in U
    BY <1>11, <1>12, <2>1
  <2> QED
    BY <1>10, <2>2, RoomFor
<1> QED
  BY <1>5, <1>9, <1>13 DEF CanAllocate, PlannedAllocationPages

LEMMA AbortRestoreKeeps ==
    ASSUME IndInv, SchedInv, AbortRestore
    PROVE  SchedInv' /\ \E s \in Seqs : Deallocate(s)
<1>1. /\ pc = "abortRestore" /\ pc \in Choosing /\ pc \in Prefilling /\ pc' = "admit"
      /\ pc' \in Prefilling /\ UNCHANGED <<waiting, running, pending, attempted, inPrefill, loop>>
  BY DEF AbortRestore, Choosing, Prefilling
<1>2. PICK s \in Seqs : s = loop.cur
  BY <1>1, CurrentIdle
<1>3. DeallocateOp(s) /\ status' = [status EXCEPT ![s] = "waiting"]
  BY <1>2 DEF AbortRestore
<1>4. PICK h \in Nat : h = loop.hit
  BY LocalTypes DEF SchedInv, CoreInv
<1>5. s \in Range(waiting) /\ Idle(s) /\ s \notin Scheduled
  BY <1>1, <1>2, CurrentIdle
<1>6. QueueTyped /\ QueueInv /\ KeysAligned /\ TypeOK /\ QueuedAt(s) /\ RequestAt(s)
  BY DEF SchedInv, CoreInv, IndInv, QueueInv, RequestInv
<1>7. Deallocate(s)
  BY <1>3, <1>5 DEF Deallocate
<1>8. /\ \A t \in Seqs \ {s} : Untouched(t)
      /\ tokens' = tokens /\ ~compressed'[s] /\ ~Resident(s)' /\ numCached'[s] = 0
      /\ index' = index /\ kv' = kv /\ blockHash' = blockHash /\ numScheduled' = numScheduled
      /\ pendingMatches' = pendingMatches
  <2>1. ReleaseAll(s) /\ numScheduled' = numScheduled /\ pendingMatches' = pendingMatches
    BY <1>3 DEF DeallocateOp
  <2>2. numScheduled' \in [Seqs -> Nat]
    BY <1>6, <2>1 DEF TypeOK
  <2> QED
    BY <1>6, <2>1, <2>2, ReleaseEffect
<1>9. /\ Aborting(s) /\ ~Aborting(s)' /\ ~Finishing(s)' /\ ~Popped(s)' /\ ~Finishing(s) /\ ~Popped(s)
      /\ status[s] = "waiting_for_kv" /\ s \notin DOMAIN pending
      /\ s \notin Range(running)
  <2>1. Aborting(s) /\ ~Aborting(s)' /\ ~Finishing(s)' /\ ~Popped(s)' /\ ~Finishing(s) /\ ~Popped(s)
    BY <1>1, <1>2 DEF Aborting, Finishing, Popped, Decoding
  <2> QED
    BY <1>6, <2>1 DEF QueuedAt
<1>10. /\ status' \in [Seqs -> Statuses] /\ status'[s] = "waiting"
       /\ \A t \in Seqs \ {s} : status'[t] = status[t]
  BY <1>3, <1>6 DEF QueueTyped, Statuses
<1>11. QueuedAt(s)'
  BY <1>1, <1>5, <1>9, <1>10 DEF QueuedAt
<1>12. Len(tokens[s]) \in Nat /\ Len(tokens[s]) > 0
  BY TableSizes DEF IndInv
<1>13. RequestAt(s)'
  <2>1. /\ inPrefill[s] /\ Len(tokens[s]) <= Len(Prompt[s]) + MaxTokens[s]
        /\ Len(tokens[s]) < Len(Prompt[s]) + MaxTokens[s]
    BY <1>6, <1>9 DEF RequestAt
  <2> QED
    BY <1>1, <1>8, <1>9, <1>10, <1>12, <2>1 DEF RequestAt, WaitingAt
<1>14. CoreInv'
  <2>1. IsInjective(waiting') /\ SameBatch(loop')
    BY <1>1, <1>6, LoopIsSameBatch DEF QueueInv
  <2>2. QueueTyped'
    BY <1>1, <1>6, <1>10 DEF QueueTyped, Prefilling
  <2>3. \A t \in Seqs \ {s} : Untouched(t) /\ SamePlace(t)
    BY <1>1, <1>8, <1>10 DEF SamePlace
  <2>4. Idle(s)' /\ KeysAligned'
    BY <1>5, <1>6, <1>8 DEF Idle, KeysAligned
  <2> QED
    BY <1>1, <1>2, <1>5, <1>10, <1>11, <1>13, <2>1, <2>2, <2>3, <2>4, PrefillTouched
<1>15. Planned(s)'
  <2>1. /\ Retained(s) = NumBlocks(s) /\ s \notin DOMAIN pendingMatches
        /\ h = Len(LookupCachedBlocks(s)) /\ numCached[s] = h * BlockSize
        /\ \A i \in 1..h : blockTable[s][i] = LookupCachedBlocks(s)[i]
    BY <1>1, <1>2, <1>4 DEF SchedInv, CurInv, Reserved
  <2>2. ~compressed[s]
    BY <1>6, <1>9 DEF RequestAt
  <2>3. CanAllocate(s)'
    BY <1>7, <2>1, <2>2, ReleasedFits
  <2>4. LookupCachedBlocks(s)' = LookupCachedBlocks(s)
    BY <1>8, SameMatch
  <2>5. AllocatePlan(s, loop.hit)' = LookupCachedBlocks(s)'
    BY <1>1, <1>8, <2>1 DEF AllocatePlan
  <2>6. loop'.hit = Len(LookupCachedBlocks(s)')
    BY <1>1, <1>4, <2>1, <2>4
  <2> QED
    BY <2>3, <2>5, <2>6 DEF Planned
<1>16. CurInv'
  <2>1. loop.batched < MaxNumBatched /\ Len(loop.scheduled) < MaxNumSeqs
    BY <1>1 DEF SchedInv, CurInv
  <2> QED
    BY <1>1, <1>2, <1>5, <1>8, <1>15, <2>1 DEF CurInv
<1> QED
  BY <1>7, <1>14, <1>16 DEF SchedInv

---------------------------------------------------------------------------
(* The prefill loop: admission *)

LEMMA LesserOf ==
    ASSUME NEW a \in Int, NEW b \in Int
    PROVE  Min({a, b}) = IF a <= b THEN a ELSE b
<1> DEFINE m == IF a <= b THEN a ELSE b
<1>1. m \in {a, b} /\ \A y \in {a, b} : m <= y
  OBVIOUS
<1>2. Min({a, b}) \in {a, b} /\ \A y \in {a, b} : Min({a, b}) <= y
  <2> HIDE DEF m
  <2> QED
    BY <1>1 DEF Min
<1>3. PICK k \in {a, b} : k = Min({a, b}) /\ k <= a /\ k <= b
  BY <1>2
<1> QED
  BY <1>3

\* The request s at hand joins the batch with k tokens, its last ones or all
\* that the budget has left.
LEMMA AdmittedCore ==
    ASSUME SchedInv, pc = "admit", pc' = "prefill", NEW s \in Seqs, s = loop.cur,
           \A t \in Seqs \ {s} : Untouched(t),
           NEW k \in Nat, k > 0, k <= Remaining, numScheduled'[s] = k,
           tokens' = tokens, Len(tokens[s]) \in Nat, numCached'[s] \in Nat,
           numCached'[s] + k <= Len(tokens[s]),
           numCached'[s] + k = Len(tokens[s]) \/ k = Remaining,
           ~compressed'[s], Retained(s)' = NumBlocks(s), NumBlocks(s) \in Nat, KeysAligned',
           Enqueue(s, numCached'[s] + k = Len(tokens[s])),
           UNCHANGED <<pending, attempted, inPrefill>>,
           loop' = [loop EXCEPT !.scheduled = Append(loop.scheduled, s), !.batched = loop.batched + k,
                                !.cur = NoSeq, !.hit = 0]
    PROVE  CoreInv'
<1>1. pc \in Choosing /\ pc \in Prefilling /\ pc' \in Prefilling
  BY DEF Choosing, Prefilling
<1>2. /\ s \in Range(waiting) /\ Idle(s) /\ s \notin Scheduled
      /\ loop.batched \in Nat /\ loop.batched < MaxNumBatched /\ MaxNumBatched \in Nat
      /\ Remaining \in Nat /\ ~loop.isPrefill
  BY <1>1, CurrentIdle
<1>3. QueueTyped /\ QueueInv /\ BatchInv /\ RequestInv /\ NoOrphanPages
  BY DEF SchedInv, CoreInv
<1>4. /\ loop \in Locals /\ loop.scheduled \in Seq(Seqs) /\ Scheduled \subseteq Seqs
      /\ waiting \in Seq(Seqs) /\ running \in Seq(Seqs)
  BY <1>3, LocalTypes DEF QueueTyped
<1>5. /\ pc' \notin {"append", "finish", "run", "failActive", "post"} /\ pc \notin Decoding
      /\ pc' \notin Decoding /\ pc' \notin Outside /\ pc' \notin Executing /\ pc # "finish"
      /\ pc # "failActive"
  BY DEF Decoding, Outside, Executing
<1>6. \A t \in Seqs : /\ ~Finishing(t) /\ ~Finishing(t)' /\ ~Popped(t)' /\ ~Popped(t)
                      /\ ~Aborting(t)' /\ ~Aborting(t)
  BY <1>5 DEF Aborting, Finishing, Popped
<1>7. /\ status[s] = "waiting" /\ s \notin Range(running) /\ s \notin DOMAIN pending
      /\ RequestAt(s) /\ inPrefill[s]
  BY <1>2, <1>3, <1>6 DEF QueueInv, QueuedAt, RequestInv, RequestAt
<1>8. /\ Append(loop.scheduled, s) \in Seq(Seqs) /\ IsInjective(Append(loop.scheduled, s))
      /\ Range(Append(loop.scheduled, s)) = Scheduled \cup {s}
  BY <1>2, <1>3, <1>4, AppendToQueue DEF Scheduled, QueueInv
<1>9. /\ loop' \in Locals /\ loop'.scheduled = Append(loop.scheduled, s)
      /\ loop'.batched = loop.batched + k /\ ~loop'.isPrefill
      /\ Scheduled' = Scheduled \cup {s}
  <2>1. loop.batched + k \in 0..MaxNumBatched
    BY <1>2 DEF Remaining
  <2>2. /\ loop' \in Locals /\ loop'.scheduled = Append(loop.scheduled, s)
        /\ loop'.batched = loop.batched + k /\ ~loop'.isPrefill
    BY <1>2, <1>4, <1>8, <2>1 DEF Locals
  <2> QED
    BY <1>8, <2>2 DEF Scheduled
<1> DEFINE complete == numCached'[s] + k = Len(tokens[s])
<1>10. /\ status' \in [Seqs -> Statuses]
       /\ status'[s] = IF complete THEN "running" ELSE "waiting"
       /\ \A t \in Seqs \ {s} : status'[t] = status[t]
       /\ waiting' \in Seq(Seqs) /\ running' \in Seq(Seqs)
       /\ IsInjective(waiting') /\ IsInjective(running')
       /\ Range(waiting') = IF complete THEN Range(waiting) \ {s} ELSE Range(waiting)
       /\ Range(running') = IF complete THEN Range(running) \cup {s} ELSE Range(running)
  <2>1. status \in [Seqs -> Statuses] /\ IsInjective(waiting) /\ IsInjective(running)
    BY <1>3 DEF QueueTyped, QueueInv
  <2>2. CASE complete
    <3>1. /\ status' = [status EXCEPT ![s] = "running"]
          /\ waiting' = RemoveFirst(waiting, s) /\ running' = Append(running, s)
      BY <2>2 DEF Enqueue
    <3>2. /\ waiting' \in Seq(Seqs) /\ IsInjective(waiting') /\ Range(waiting') = Range(waiting) \ {s}
      BY <1>4, <2>1, <3>1, RemoveFromQueue
    <3>3. /\ running' \in Seq(Seqs) /\ IsInjective(running') /\ Range(running') = Range(running) \cup {s}
      BY <1>4, <1>7, <2>1, <3>1, AppendToQueue
    <3> HIDE DEF complete
    <3> QED
      BY <2>1, <2>2, <3>1, <3>2, <3>3 DEF Statuses
  <2>3. CASE ~complete
    <3>1. UNCHANGED <<status, waiting, running>>
      BY <2>3 DEF Enqueue
    <3> HIDE DEF complete
    <3> QED
      BY <1>4, <1>7, <2>1, <2>3, <3>1
  <2> QED
    BY <2>2, <2>3
<1> HIDE DEF complete
<1>11. QueueTyped'
  BY <1>1, <1>3, <1>9, <1>10 DEF QueueTyped
<1>12. \A t \in Seqs \ {s} : SamePlace(t)
  BY <1>10 DEF SamePlace
<1>13. QueueInv'
  <2>1. QueuedAt(s)'
    <3>1. CASE complete
      BY <1>2, <1>6, <1>7, <1>10, <3>1 DEF QueuedAt
    <3>2. CASE ~complete
      BY <1>2, <1>6, <1>7, <1>10, <3>2 DEF QueuedAt
    <3> QED
      BY <3>1, <3>2
  <2>2. ASSUME NEW t \in Seqs \ {s} PROVE QueuedAt(t)'
    <3>1. QueuedAt(t) /\ (t \in Range(running') <=> t \in Range(running))
      BY <1>3, <1>10 DEF QueueInv
    <3> QED
      BY <1>6, <1>12, <3>1 DEF QueuedAt, SamePlace
  <2>3. \A t \in Seqs : QueuedAt(t)'
    BY <2>1, <2>2
  <2> QED
    BY <1>5, <1>8, <1>9, <1>10, <2>3 DEF QueueInv
<1>14. RequestInv'
  <2>1. RequestAt(s)'
    <3>1. /\ Len(tokens[s]) <= Len(Prompt[s]) + MaxTokens[s]
          /\ Len(tokens[s]) < Len(Prompt[s]) + MaxTokens[s]
      BY <1>7 DEF RequestAt
    <3>2. ~Idle(s)'
      BY DEF Idle
    <3>3. s \in Range(waiting') => WaitingAt(s)'
      <4> SUFFICES ASSUME s \in Range(waiting') PROVE WaitingAt(s)'
        OBVIOUS
      <4>1. ~complete
        BY <1>10
      <4>2. numCached'[s] < Len(tokens[s])
        OBVIOUS
      <4>3. ~(Retained(s)' < NumBlocks(s)')
        BY DEF NumBlocks
      <4> QED
        BY <4>2, <4>3 DEF WaitingAt
    <3> QED
      BY <1>7, <3>1, <3>2, <3>3 DEF RequestAt
  <2>2. \A t \in Seqs \ {s} : RequestAt(t)'
    BY <1>3, <1>6, <1>12, RequestKept DEF RequestInv
  <2> QED
    BY <2>1, <2>2 DEF RequestInv
<1>15. NoOrphanPages'
  <2> SUFFICES ASSUME NEW t \in Seqs, Resident(t)'
               PROVE  status'[t] \in {"waiting", "running", "waiting_for_kv"}
    BY DEF NoOrphanPages
  <2>1. CASE t = s
    BY <1>10, <2>1
  <2>2. CASE t # s
    BY <1>3, <1>5, <1>12, <2>2, SameRequest DEF NoOrphanPages, SamePlace
  <2> QED
    BY <2>1, <2>2
<1>16. BatchInv'
  <2>1. ASSUME NEW t \in Scheduled' PROVE PrefillMember(t)'
    <3>1. CASE t = s
      <4>1. ~Idle(s)' /\ inPrefill'[s]
        BY <1>7 DEF Idle
      <4>2. complete => status'[s] = "running" /\ numCached'[s] + numScheduled'[s] = Len(tokens'[s])
        BY <1>10 DEF complete
      <4>3. ~complete => /\ status'[s] = "waiting" /\ numCached'[s] + numScheduled'[s] < Len(tokens'[s])
                         /\ loop'.batched = MaxNumBatched
        <5> SUFFICES ASSUME ~complete
                     PROVE  /\ status'[s] = "waiting" /\ numCached'[s] + k < Len(tokens[s])
                            /\ loop'.batched = MaxNumBatched
          OBVIOUS
        <5>1. numCached'[s] + k < Len(tokens[s]) /\ k = Remaining
          BY DEF complete
        <5>2. loop.batched + k = MaxNumBatched
          BY <1>2, <5>1 DEF Remaining
        <5> QED
          BY <1>9, <1>10, <5>1, <5>2
      <4> QED
        BY <3>1, <4>1, <4>2, <4>3 DEF PrefillMember
    <3>2. CASE t # s
      <4>1. t \in Scheduled /\ t \in Seqs /\ PrefillMember(t)
        BY <1>1, <1>3, <1>4, <1>9, <3>2 DEF BatchInv
      <4>2. /\ status[t] = "running" /\ numCached[t] + numScheduled[t] = Len(tokens[t])
            /\ ~Idle(t) /\ ~compressed[t] /\ inPrefill[t]
        BY <1>2, <4>1 DEF PrefillMember
      <4>3. status'[t] = status[t] /\ inPrefill'[t] = inPrefill[t] /\ Untouched(t)
        BY <1>10, <3>2, <4>1
      <4> QED
        BY <4>2, <4>3 DEF PrefillMember, Untouched, Idle
    <3> QED
      BY <3>1, <3>2
  <2>2. ASSUME NEW t \in Seqs, ~Idle(t)' PROVE t \in Scheduled'
    <3>1. CASE t = s
      BY <1>9, <3>1
    <3>2. CASE t # s
      BY <1>3, <1>5, <1>9, <2>2, <3>2, SameRequest DEF BatchInv
    <3> QED
      BY <3>1, <3>2
  <2> QED
    BY <1>5, <1>9, <2>1, <2>2 DEF BatchInv
<1>17. RunInv'
  BY <1>5 DEF RunInv
<1> QED
  BY <1>11, <1>13, <1>14, <1>15, <1>16, <1>17 DEF CoreInv

LEMMA AdmitKeeps ==
    ASSUME IndInv, SchedInv, Admit
    PROVE  /\ SchedInv'
           /\ \/ UNCHANGED bmVars
              \/ \E s \in Seqs : \E k \in 1..MaxLen : Schedule(s, k)
              \/ \E s \in Seqs : \E n \in 0..CacheableBlocks(s), k \in 0..MaxLen : Allocate(s, n, k)
<1>1. /\ pc = "admit" /\ pc \in Choosing /\ pc \in Prefilling \ {"abortRestore"}
      /\ UNCHANGED <<pending, attempted, inPrefill>>
  BY DEF Admit, Choosing, Prefilling
<1>2. PICK s \in Seqs : s = loop.cur
  BY <1>1, CurrentIdle
<1>3. PICK h \in Nat : h = loop.hit
  BY LocalTypes DEF SchedInv, CoreInv
<1>4. TypeOK /\ TableInv /\ KeysAligned /\ RequestAt(s)
  BY DEF IndInv, SchedInv, CoreInv, RequestInv
<1>5. /\ s \in Range(waiting) /\ Idle(s) /\ s \notin Scheduled /\ ~compressed[s] /\ WaitingAt(s)
      /\ status[s] = "waiting" /\ Remaining \in Nat /\ Remaining > 0
  <2>1. ~Aborting(s)
    BY <1>1 DEF Aborting
  <2> QED
    BY <1>1, <1>2, <2>1, CurrentIdle, WaitingUncompressed
<1>6. /\ Resident(s) => Retained(s) = NumBlocks(s)
      /\ ~Resident(s) => Planned(s)
  BY <1>1, <1>2 DEF SchedInv, CurInv
<1>7. /\ Len(tokens[s]) \in Nat /\ numCached[s] \in Nat /\ NumBlocks(s) \in Nat
      /\ Len(tokens[s]) <= MaxLen /\ MaxLen \in Nat
  <2>1. Len(tokens[s]) \in Nat /\ numCached[s] \in Nat /\ NumBlocks(s) \in Nat
    BY <1>4, TableSizes, TableAtUse
  <2>2. /\ Len(tokens[s]) <= Len(Prompt[s]) + MaxTokens[s]
        /\ Len(Prompt[s]) + MaxTokens[s] <= MaxLen /\ MaxLen \in Nat
        /\ Len(Prompt[s]) + MaxTokens[s] \in Nat
    <3>1. Len(Prompt[s]) \in Nat /\ MaxTokens[s] \in Nat
      BY PromptAssumption, AdmissionAssumption, LenProperties
    <3> QED
      BY <1>4, <3>1, AdmissionAssumption, MaxLenAssumption DEF RequestAt
  <2> QED
    BY <2>1, <2>2
<1>8. PICK c \in Nat : /\ c = IF Resident(s) THEN numCached[s] ELSE loop.hit * BlockSize
                       /\ c < Len(tokens[s])
  <2>1. CASE Resident(s)
    BY <1>5, <1>7, <2>1 DEF WaitingAt
  <2>2. CASE ~Resident(s)
    BY <1>3, <1>5, <1>6, <2>2, PlannedAllocate
  <2> QED
    BY <2>1, <2>2
<1>9. PICK need \in Nat : need = Len(tokens[s]) - c /\ need > 0
  BY <1>7, <1>8
<1>10. PICK k \in Nat : /\ k = Min({need, Remaining}) /\ k > 0 /\ k <= need /\ k <= Remaining
                        /\ k = need \/ k = Remaining
  <2>1. PICK R \in Nat : R = Remaining /\ R > 0
    BY <1>5
  <2>2. Min({need, R}) = IF need <= R THEN need ELSE R
    BY LesserOf
  <2>3. PICK k \in Nat : k = Min({need, R}) /\ k > 0 /\ k <= need /\ k <= R /\ (k = need \/ k = R)
    BY <1>9, <2>1, <2>2
  <2> QED
    BY <2>1, <2>3
<1>11. \/ /\ Break(loop)
          /\ UNCHANGED <<bmVars, status, waiting, running>>
       \/ /\ ~Resident(s) /\ Len(AllocatePlan(s, loop.hit)) # loop.hit
       \/ /\ IF Resident(s) THEN ScheduleOp(s, k) ELSE AllocateOp(s, loop.hit, k)
          /\ Enqueue(s, k = need)
          /\ Continue([loop EXCEPT !.scheduled = Append(@, s), !.batched = @ + k])
  BY <1>2, <1>8, <1>9, <1>10 DEF Admit
<1>12. CASE /\ Break(loop)
            /\ UNCHANGED <<bmVars, status, waiting, running>>
  <2>1. UNCHANGED <<bmVars, schedVars>>
    BY <1>1, <1>12 DEF schedVars
  <2> QED
    BY <1>1, <1>12, <2>1, NothingTouched, BreakMove, LoopIsSameBatch
<1>13. CASE ~Resident(s) /\ Len(AllocatePlan(s, loop.hit)) # loop.hit
  BY <1>6, <1>13 DEF Planned
<1>14. CASE /\ IF Resident(s) THEN ScheduleOp(s, k) ELSE AllocateOp(s, loop.hit, k)
            /\ Enqueue(s, k = need)
            /\ Continue([loop EXCEPT !.scheduled = Append(@, s), !.batched = @ + k])
  <2>1. /\ \A t \in Seqs \ {s} : Untouched(t)
        /\ tokens' = tokens /\ ~compressed'[s] /\ numScheduled'[s] = k
        /\ Retained(s)' = NumBlocks(s) /\ numCached'[s] = c /\ KeysAligned'
        /\ Schedule(s, k) \/ \E n \in 0..CacheableBlocks(s) : Allocate(s, n, k)
    <3>1. CASE Resident(s)
      <4>1. ScheduleOp(s, k) /\ c = numCached[s]
        BY <1>8, <1>14, <3>1
      <4>2. k \in 1..(Len(tokens[s]) - numCached[s])
        BY <1>7, <1>9, <1>10, <4>1
      <4>3. Schedule(s, k)
        BY <1>5, <1>6, <3>1, <4>1, <4>2 DEF Schedule
      <4>4. /\ numScheduled' = [numScheduled EXCEPT ![s] = k]
            /\ UNCHANGED <<tokens, blockTable, numCached, numPhysical, logical, compressed, index>>
        BY <4>1 DEF ScheduleOp, poolVars
      <4>5. /\ \A t \in Seqs \ {s} : Untouched(t)
            /\ numScheduled'[s] = k
        BY <1>4, <4>4 DEF Untouched, TypeOK
      <4>6. Retained(s)' = NumBlocks(s) /\ KeysAligned'
        BY <1>4, <1>6, <3>1, <4>4 DEF Retained, KeysAligned
      <4> QED
        BY <1>5, <4>1, <4>3, <4>4, <4>5, <4>6
    <3>2. CASE ~Resident(s)
      <4>1. AllocateOp(s, h, k) /\ c = h * BlockSize
        BY <1>3, <1>8, <1>14, <3>2
      <4>2. k \in 0..(Len(tokens[s]) - h * BlockSize)
        BY <1>7, <1>9, <1>10, <4>1
      <4>3. h \in 0..CacheableBlocks(s) /\ Allocate(s, h, k)
        BY <1>3, <1>5, <1>6, <3>2, <4>1, <4>2, PlannedAllocate
      <4> QED
        BY <1>4, <1>5, <4>1, <4>3, AllocateEffect
    <3> QED
      BY <3>1, <3>2
  <2>2. /\ pc' = "prefill"
        /\ loop' = [loop EXCEPT !.scheduled = Append(loop.scheduled, s),
                                !.batched = loop.batched + k, !.cur = NoSeq, !.hit = 0]
    BY <1>14 DEF Continue
  <2>3. /\ c + k <= Len(tokens[s]) /\ (k = need <=> c + k = Len(tokens[s]))
        /\ c + k = Len(tokens[s]) \/ k = Remaining
    BY <1>7, <1>9, <1>10
  <2>4. Enqueue(s, numCached'[s] + k = Len(tokens[s]))
    BY <1>14, <2>1, <2>3 DEF Enqueue
  <2>5. /\ numCached'[s] \in Nat /\ numCached'[s] + k <= Len(tokens[s])
        /\ numCached'[s] + k = Len(tokens[s]) \/ k = Remaining
    BY <2>1, <2>3
  <2>6. CoreInv'
    BY <1>1, <1>2, <1>7, <1>10, <2>1, <2>2, <2>4, <2>5, AdmittedCore
  <2>7. CurInv'
    BY <2>2 DEF CurInv, Choosing
  <2>8. k \in 1..MaxLen /\ k \in 0..MaxLen
    BY <1>7, <1>8, <1>9, <1>10
  <2> QED
    BY <2>1, <2>6, <2>7, <2>8 DEF SchedInv
<1> QED
  BY <1>11, <1>12, <1>13, <1>14

---------------------------------------------------------------------------
(* The decode loop *)

\* The decode loop changes the pages, the queue or the status of v alone.
LEMMA DecodeTouched ==
    ASSUME SchedInv, pc \in Decoding, pc' \in Decoding, NEW v \in Seqs, QueueTyped',
           \A t \in Seqs \ {v} : /\ Untouched(t) /\ SamePlace(t) /\ (Popped(t)' <=> Popped(t))
                                 /\ (t \in Range(running') <=> t \in Range(running)),
           IsInjective(waiting'), IsInjective(running'), IsInjective(loop'.scheduled),
           pc' = "append" => loop'.cur \notin Scheduled', ~loop'.isPrefill,
           Scheduled \subseteq Scheduled', Scheduled' \subseteq Scheduled \cup {v},
           QueuedAt(v)', RequestAt(v)', KeysAligned',
           status'[v] \in {"waiting", "running"},
           ~Idle(v)' => v \in Scheduled', v \in Scheduled' => DecodeMember(v)'
    PROVE  CoreInv'
<1>1. QueueTyped /\ QueueInv /\ BatchInv /\ RequestInv /\ NoOrphanPages /\ Scheduled \subseteq Seqs
  BY LocalTypes DEF SchedInv, CoreInv
<1>2. /\ pc \notin Prefilling /\ pc' \notin Prefilling /\ pc \notin Executing /\ pc' \notin Executing
      /\ pc \notin Outside /\ pc' \notin Outside /\ pc # "failActive" /\ pc' # "failActive"
      /\ pc # "finish" /\ pc' # "finish" /\ pc' \notin {"run", "post"}
      /\ pc # "abortRestore" /\ pc' # "abortRestore"
  BY DEF Decoding, Prefilling, Choosing, Executing, Outside
<1>3. \A t \in Seqs : ~Finishing(t) /\ ~Finishing(t)' /\ ~Aborting(t) /\ ~Aborting(t)'
  BY <1>2 DEF Finishing, Aborting
<1>4. QueueInv'
  <2>1. \A t \in Seqs \ {v} : QueuedAt(t)'
    BY <1>1, <1>3 DEF QueueInv, QueuedAt, SamePlace
  <2>2. \A t \in Seqs : QueuedAt(t)'
    BY <2>1
  <2> QED
    BY <2>2 DEF QueueInv
<1>5. RequestInv'
  <2>1. \A t \in Seqs \ {v} : RequestAt(t)'
    BY <1>1, <1>3, RequestKept DEF RequestInv
  <2> QED
    BY <2>1 DEF RequestInv
<1>6. NoOrphanPages'
  <2> SUFFICES ASSUME NEW t \in Seqs, Resident(t)'
               PROVE  status'[t] \in {"waiting", "running", "waiting_for_kv"}
    BY DEF NoOrphanPages
  <2>1. CASE t = v
    BY <2>1
  <2>2. CASE t # v
    BY <1>1, <1>2, <2>2, SameRequest DEF NoOrphanPages, SamePlace
  <2> QED
    BY <2>1, <2>2
<1>7. BatchInv'
  <2>1. ASSUME NEW t \in Scheduled' PROVE DecodeMember(t)'
    <3>1. CASE t = v
      BY <3>1
    <3>2. CASE t # v
      <4>1. t \in Scheduled /\ t \in Seqs /\ DecodeMember(t)
        BY <1>1, <3>2 DEF BatchInv
      <4> QED
        BY <3>2, <4>1, MemberKept DEF SamePlace
    <3> QED
      BY <3>1, <3>2
  <2>2. ASSUME NEW t \in Seqs, ~Idle(t)' PROVE t \in Scheduled'
    <3>1. CASE t = v
      BY <2>2, <3>1
    <3>2. CASE t # v
      BY <1>1, <1>2, <2>2, <3>2, SameRequest DEF BatchInv
    <3> QED
      BY <3>1, <3>2
  <2> QED
    BY <1>2, <2>1, <2>2 DEF BatchInv
<1>8. RunInv'
  BY <1>2 DEF RunInv, Executing
<1> QED
  BY <1>4, <1>5, <1>6, <1>7, <1>8 DEF CoreInv

\* A request in the running queue of the decode loop is ready to decode.
LEMMA RunningReady ==
    ASSUME SchedInv, pc \in Decoding, NEW s \in Seqs, s \notin Scheduled,
           s \in Range(running) \/ Popped(s)
    PROVE  /\ status[s] = "running" /\ Idle(s) /\ DecodeReady(s) /\ RequestAt(s)
           /\ ~Finishing(s) /\ ~Aborting(s) /\ s \notin Range(waiting) /\ s \notin DOMAIN pending
<1>1. QueuedAt(s) /\ BatchInv /\ RequestAt(s)
  BY DEF SchedInv, CoreInv, QueueInv, RequestInv
<1>2. ~Finishing(s) /\ ~Aborting(s) /\ pc # "failActive"
  BY DEF Finishing, Aborting, Decoding
<1>3. status[s] = "running" /\ s \notin Range(waiting) /\ s \notin DOMAIN pending
  BY <1>1, <1>2 DEF QueuedAt
<1>4. Idle(s)
  BY <1>1, <1>2 DEF BatchInv
<1> QED
  BY <1>1, <1>2, <1>3, <1>4 DEF RequestAt

\* The compressions keep the page being filled.
LEMMA CompressionAllowed ==
    ASSUME IndInv, NEW s \in Seqs, Idle(s), DecodeReady(s),
           NEW keep \in CompressionKeeps(s), CompressOp(s, keep)
    PROVE  /\ keep \in KeepLists(Retained(s)) /\ Compress(s, keep)
<1>1. PICK n \in Nat : n = Retained(s)
  BY TableSizes DEF IndInv
<1>2. /\ keep \in KeepLists(n)
      /\ (n - RecentBlocks + 1)..n \subseteq Range(keep)
  BY <1>1 DEF CompressionKeeps
<1>3. PICK m \in 1..(n - 1) : /\ keep \in [1..m -> 1..n]
                              /\ \A i, j \in 1..m : i < j => keep[i] < keep[j]
  BY <1>1, <1>2 DEF KeepLists
<1>4. n \in (n - RecentBlocks + 1)..n
  BY <1>1, LimitsAssumption
<1>5. PICK i \in 1..m : keep[i] = n
  BY <1>2, <1>3, <1>4 DEF Range
<1>6. keep[m] = n
  <2>1. m \in 1..m /\ keep[m] \in 1..n /\ m \in Nat
    BY <1>1, <1>3
  <2>2. i < m => keep[i] < keep[m]
    BY <1>3, <2>1
  <2> QED
    BY <1>1, <1>3, <1>5, <2>1, <2>2
<1>7. Len(keep) = m
  <2>1. m \in Nat
    BY <1>1, <1>3
  <2> QED
    BY <1>3, <2>1, FunctionIsSeq
<1> QED
  BY <1>1, <1>2, <1>6, <1>7 DEF Compress

LEMMA CompressEffect ==
    ASSUME IndInv, NEW s \in Seqs, NEW keep \in KeepLists(Retained(s)), Compress(s, keep)
    PROVE  /\ \A t \in Seqs \ {s} : Untouched(t)
           /\ tokens' = tokens /\ numCached' = numCached /\ numScheduled' = numScheduled
           /\ index' = index /\ compressed'[s] /\ Idle(s)' /\ DecodeReady(s)'
<1>1. IndInv'
  BY CompressStep
<1>2. TypeOK /\ DecodeReady(s) /\ Idle(s)
  BY DEF IndInv, Compress
<1>3. CompressOp(s, keep)
  BY DEF Compress
<1>4. /\ UNCHANGED <<tokens, numCached, numScheduled>> /\ index' = index
      /\ compressed' = [compressed EXCEPT ![s] = TRUE]
      /\ \A t \in Seqs \ {s} : Untouched(t)
  BY <1>2, <1>3 DEF CompressOp, DropPages, Untouched, TypeOK
<1>5. compressed'[s] /\ numScheduled'[s] = 0
  BY <1>2, <1>4 DEF TypeOK, Idle
<1>6. Thinned(s)' /\ TypeOK'
  BY <1>1, <1>5 DEF IndInv, TableInv, TableAt
<1>7. PICK x \in Nat : x = numPhysical'[s]
  BY <1>6 DEF TypeOK
<1>8. Retained(s)' = Pages(numPhysical'[s]) /\ Retained(s)' > 0
  <2>1. x + 0 = x
    OBVIOUS
  <2> QED
    BY <1>5, <1>6, <1>7, <2>1 DEF Thinned
<1>9. blockTable'[s] # <<>>
  BY <1>8 DEF Retained
<1>10. NewestMissing(s)'
  BY <1>2, <1>4 DEF DecodeReady, NewestMissing
<1> QED
  BY <1>4, <1>5, <1>8, <1>9, <1>10 DEF DecodeReady, Idle

LEMMA SelectDecodeKeeps ==
    ASSUME IndInv, SchedInv, SelectDecode
    PROVE  /\ SchedInv'
           /\ \/ UNCHANGED bmVars
              \/ \E s \in Seqs : \E keep \in KeepLists(Retained(s)) : Compress(s, keep)
<1>1. /\ pc = "decode" /\ pc' = "append" /\ pc \in Decoding /\ pc' \in Decoding
      /\ Len(loop.scheduled) < MaxNumSeqs
      /\ UNCHANGED <<status, waiting, pending, attempted, inPrefill>>
  BY DEF SelectDecode, Decoding
<1>2. PICK s \in SelectFirst(running, Range(running)) :
         /\ running' = RemoveFirst(running, s)
         /\ IF CompressionKeeps(s) = {}
            THEN UNCHANGED bmVars
            ELSE \E keep \in CompressionKeeps(s) : CompressOp(s, keep)
         /\ loop' = [loop EXCEPT !.cur = s]
  BY DEF SelectDecode
<1>3. QueueTyped /\ QueueInv /\ BatchInv /\ KeysAligned /\ TypeOK /\ loop \in Locals
  BY DEF SchedInv, CoreInv, IndInv, QueueTyped
<1>4. s \in Seqs /\ s \in Range(running)
  <2>1. s \in Range(running)
    BY DEF SelectFirst
  <2> QED
    BY <1>3, <2>1, LocalTypes
<1>5. s \notin Scheduled
  BY <1>1, <1>3, <1>4 DEF QueueInv, QueuedAt, Popped
<1>6. /\ status[s] = "running" /\ Idle(s) /\ DecodeReady(s) /\ RequestAt(s)
      /\ ~Finishing(s) /\ ~Aborting(s) /\ s \notin Range(waiting) /\ s \notin DOMAIN pending
  BY <1>1, <1>4, <1>5, RunningReady
<1>7. /\ \A t \in Seqs \ {s} : Untouched(t)
      /\ tokens' = tokens /\ numCached' = numCached /\ Idle(s)' /\ DecodeReady(s)' /\ KeysAligned'
      /\ \/ UNCHANGED bmVars
         \/ \E keep \in KeepLists(Retained(s)) : Compress(s, keep)
  <2>1. CASE CompressionKeeps(s) = {}
    <3>1. UNCHANGED bmVars
      BY <1>2, <2>1
    <3>2. /\ \A t \in Seqs : Untouched(t)
          /\ UNCHANGED <<tokens, numCached, numScheduled, blockTable, numPhysical, index>>
      BY <3>1 DEF bmVars, seqVars, poolVars, Untouched
    <3>3. Idle(s)' /\ DecodeReady(s)'
      BY <1>4, <1>6, <3>2, SameRequest
    <3> QED
      BY <1>3, <3>1, <3>2, <3>3 DEF KeysAligned
  <2>2. CASE CompressionKeeps(s) # {}
    <3>1. PICK keep \in CompressionKeeps(s) : CompressOp(s, keep)
      BY <1>2, <2>2
    <3>2. keep \in KeepLists(Retained(s)) /\ Compress(s, keep)
      BY <1>4, <1>6, <3>1, CompressionAllowed
    <3>3. /\ \A t \in Seqs \ {s} : Untouched(t)
          /\ tokens' = tokens /\ numCached' = numCached /\ index' = index
          /\ Idle(s)' /\ DecodeReady(s)'
      BY <1>4, <3>2, CompressEffect
    <3> QED
      BY <1>3, <3>2, <3>3 DEF KeysAligned
  <2> QED
    BY <2>1, <2>2
<1>8. /\ loop' \in Locals /\ loop'.scheduled = loop.scheduled /\ loop'.isPrefill = loop.isPrefill
      /\ loop'.cur = s /\ Scheduled' = Scheduled
  <2>1. /\ loop' \in Locals /\ loop'.scheduled = loop.scheduled /\ loop'.isPrefill = loop.isPrefill
        /\ loop'.cur = s
    BY <1>2, <1>3, <1>4 DEF Locals
  <2> QED
    BY <2>1 DEF Scheduled
<1>9. /\ running' \in Seq(Seqs) /\ IsInjective(running') /\ Range(running') = Range(running) \ {s}
  BY <1>2, <1>3, RemoveFromQueue DEF QueueTyped, QueueInv
<1>10. QueueTyped'
  BY <1>1, <1>3, <1>8, <1>9 DEF QueueTyped
<1>11. /\ \A t \in Seqs \ {s} : SamePlace(t) /\ (t \in Range(running') <=> t \in Range(running))
       /\ \A t \in Seqs \ {s} : Popped(t)' <=> Popped(t)
  BY <1>1, <1>8, <1>9 DEF SamePlace, Popped
<1>12. QueuedAt(s)'
  <2>1. Popped(s)' /\ ~Finishing(s)' /\ ~Aborting(s)'
    BY <1>1, <1>8 DEF Popped, Finishing, Aborting
  <2> QED
    BY <1>1, <1>6, <1>9, <2>1 DEF QueuedAt
<1>13. RequestAt(s)'
  BY <1>1, <1>6, <1>7 DEF RequestAt
<1>14. CoreInv'
  <2>1. /\ IsInjective(waiting') /\ IsInjective(loop'.scheduled) /\ ~loop'.isPrefill
        /\ loop'.cur \notin Scheduled'
    BY <1>1, <1>3, <1>5, <1>8 DEF QueueInv, BatchInv
  <2>2. status'[s] \in {"waiting", "running"}
    BY <1>1, <1>6
  <2> QED
    BY <1>1, <1>4, <1>5, <1>7, <1>8, <1>9, <1>10, <1>11, <1>12, <1>13, <2>1, <2>2, DecodeTouched
<1>15. CurInv'
  BY <1>1, <1>4, <1>8 DEF CurInv, Choosing
<1> QED
  BY <1>4, <1>7, <1>14, <1>15 DEF SchedInv

\* may_append, with its page if one is needed.
LEMMA MayAppendEffect ==
    ASSUME IndInv, NEW s \in Seqs, MayAppend(s), KeysAligned
    PROVE  /\ \A t \in Seqs \ {s} : Untouched(t)
           /\ tokens' = tokens /\ numCached' = numCached /\ compressed' = compressed
           /\ numScheduled'[s] = 1 /\ KeysAligned'
<1>1. TypeOK
  BY DEF IndInv
<1>2. /\ numScheduled' = [numScheduled EXCEPT ![s] = 1]
      /\ UNCHANGED <<tokens, numCached, numPhysical, compressed>>
  BY DEF MayAppend, MayAppendOp
<1>3. numScheduled'[s] = 1 /\ \A t \in Seqs \ {s} : numScheduled'[t] = numScheduled[t]
  BY <1>1, <1>2 DEF TypeOK
<1>4. KeysAligned' /\ \A t \in Seqs \ {s} : blockTable'[t] = blockTable[t] /\ logical'[t] = logical[t]
  <2>1. CASE NeedsPage(s)
    <3>1. PICK fresh : TakePages(s, <<>>, fresh)
      BY <2>1 DEF MayAppend, MayAppendOp
    <3>2. \A t \in Seqs \ {s} : blockTable'[t] = blockTable[t]
      BY <1>1, <3>1 DEF TakePages, TypeOK
    <3>3. \A t \in Seqs \ {s} : logical'[t] = logical[t]
      BY <1>1, <2>1 DEF MayAppend, MayAppendOp, TypeOK
    <3> QED
      BY <3>1, <3>2, <3>3, TakeKeepsKeys
  <2>2. CASE ~NeedsPage(s)
    <3>1. UNCHANGED <<blockTable, logical, index>>
      BY <2>2 DEF MayAppend, MayAppendOp, poolVars
    <3> QED
      BY <3>1 DEF KeysAligned
  <2> QED
    BY <2>1, <2>2
<1> QED
  BY <1>2, <1>3, <1>4 DEF Untouched

LEMMA AppendKeeps ==
    ASSUME IndInv, SchedInv, Append_
    PROVE  SchedInv' /\ \E s \in Seqs : MayAppend(s)
<1>1. /\ pc = "append" /\ pc' = "decode" /\ pc \in Decoding /\ pc' \in Decoding
      /\ UNCHANGED <<status, waiting, running, pending, attempted>>
  BY DEF Append_, Decoding
<1>2. PICK s \in Seqs : s = loop.cur
  BY <1>1 DEF SchedInv, CurInv
<1>3. /\ CanAppend(s) /\ MayAppendOp(s)
      /\ loop' = [loop EXCEPT !.scheduled = Append(loop.scheduled, s), !.cur = NoSeq]
      /\ inPrefill' = [inPrefill EXCEPT ![s] = FALSE]
  BY <1>2 DEF Append_
<1>4. QueueTyped /\ QueueInv /\ BatchInv /\ KeysAligned /\ TypeOK /\ loop \in Locals
  BY DEF SchedInv, CoreInv, IndInv, QueueTyped
<1>5. s \notin Scheduled /\ Popped(s)
  BY <1>1, <1>2, <1>4 DEF QueueInv, Popped
<1>6. /\ status[s] = "running" /\ Idle(s) /\ DecodeReady(s) /\ RequestAt(s)
      /\ ~Finishing(s) /\ ~Aborting(s) /\ s \notin Range(waiting) /\ s \notin DOMAIN pending
  BY <1>1, <1>5, RunningReady
<1>7. MayAppend(s)
  BY <1>3, <1>6 DEF MayAppend
<1>8. /\ \A t \in Seqs \ {s} : Untouched(t)
      /\ tokens' = tokens /\ numCached' = numCached /\ compressed' = compressed
      /\ numScheduled'[s] = 1 /\ KeysAligned'
  BY <1>4, <1>7, MayAppendEffect
<1>9. /\ Append(loop.scheduled, s) \in Seq(Seqs) /\ IsInjective(Append(loop.scheduled, s))
      /\ Range(Append(loop.scheduled, s)) = Scheduled \cup {s}
  BY <1>4, <1>5, LocalTypes, AppendToQueue DEF Scheduled, QueueInv
<1>10. /\ loop' \in Locals /\ loop'.scheduled = Append(loop.scheduled, s)
       /\ loop'.isPrefill = loop.isPrefill /\ Scheduled' = Scheduled \cup {s}
  <2>1. /\ loop' \in Locals /\ loop'.scheduled = Append(loop.scheduled, s)
        /\ loop'.isPrefill = loop.isPrefill
    BY <1>3, <1>4, <1>9 DEF Locals
  <2> QED
    BY <1>9, <2>1 DEF Scheduled
<1>11. inPrefill' \in [Seqs -> BOOLEAN] /\ \A t \in Seqs \ {s} : inPrefill'[t] = inPrefill[t]
  BY <1>3, <1>4 DEF QueueTyped
<1>12. QueueTyped'
  BY <1>1, <1>4, <1>10, <1>11 DEF QueueTyped
<1>13. /\ \A t \in Seqs \ {s} : SamePlace(t) /\ (t \in Range(running') <=> t \in Range(running))
       /\ \A t \in Seqs \ {s} : Popped(t)' <=> Popped(t)
  <2>1. \A t \in Seqs \ {s} : SamePlace(t) /\ (t \in Range(running') <=> t \in Range(running))
    BY <1>1, <1>11 DEF SamePlace
  <2>2. \A t \in Seqs \ {s} : Popped(t)' <=> Popped(t)
    BY <1>1, <1>2, <1>10 DEF Popped
  <2> QED
    BY <2>1, <2>2
<1>14. QueuedAt(s)'
  <2>1. Popped(s)' /\ ~Finishing(s)' /\ ~Aborting(s)'
    BY <1>1, <1>10 DEF Popped, Finishing, Aborting
  <2>2. s \notin Range(running)
    BY <1>4, <1>5 DEF QueueInv, QueuedAt
  <2> QED
    BY <1>1, <1>6, <2>1, <2>2 DEF QueuedAt
<1>15. ~Idle(s)' /\ DecodeMember(s)'
  BY <1>1, <1>6, <1>8 DEF Idle, DecodeMember, DecodeReady, NewestMissing
<1>16. RequestAt(s)'
  BY <1>1, <1>6, <1>8, <1>15 DEF RequestAt
<1>17. CoreInv'
  <2>1. /\ IsInjective(waiting') /\ IsInjective(running') /\ IsInjective(loop'.scheduled)
        /\ ~loop'.isPrefill /\ pc' # "append"
    BY <1>1, <1>4, <1>9, <1>10 DEF QueueInv, BatchInv
  <2>2. status'[s] \in {"waiting", "running"}
    BY <1>1, <1>6
  <2>3. Scheduled \subseteq Scheduled' /\ Scheduled' \subseteq Scheduled \cup {s} /\ s \in Scheduled'
    BY <1>10
  <2> QED
    BY <1>1, <1>8, <1>12, <1>13, <1>14, <1>15, <1>16, <2>1, <2>2, <2>3, DecodeTouched
<1>18. CurInv'
  BY <1>1 DEF CurInv, Choosing
<1> QED
  BY <1>7, <1>17, <1>18 DEF SchedInv

LEMMA ExtremesOf ==
    ASSUME NEW a \in Int, NEW b \in Int
    PROVE  /\ Min({a, b}) \in {a, b} /\ Min({a, b}) <= a /\ Min({a, b}) <= b
           /\ Max({a, b}) \in {a, b} /\ Max({a, b}) >= a /\ Max({a, b}) >= b
<1>1. \E m \in {a, b} : \A y \in {a, b} : m <= y
  <2>1. CASE a <= b
    BY <2>1
  <2>2. CASE b <= a
    BY <2>2
  <2> QED
    BY <2>1, <2>2
<1>2. Min({a, b}) \in {a, b} /\ \A y \in {a, b} : Min({a, b}) <= y
  BY <1>1 DEF Min
<1>3. \E m \in {a, b} : \A y \in {a, b} : m >= y
  <2>1. CASE a <= b
    BY <2>1
  <2>2. CASE b <= a
    BY <2>2
  <2> QED
    BY <2>1, <2>2
<1>4. Max({a, b}) \in {a, b} /\ \A y \in {a, b} : Max({a, b}) >= y
  BY <1>3 DEF Max
<1> QED
  BY <1>2, <1>4

\* What a reclaim policy keeps is computed and in the table.
LEMMA KeptIsCached ==
    ASSUME IndInv, NEW v \in Seqs, NEW keep \in KeepBlocks(v)
    PROVE  keep \in 0..Retained(v) /\ keep * BlockSize <= numCached[v]
<1>1. Retained(v) \in Nat /\ numCached[v] \in Nat
  BY TableSizes, TableAtUse DEF IndInv
<1>2. CASE ReclaimPolicy = "recompute"
  <2>1. keep = 0
    BY <1>2 DEF KeepBlocks
  <2>2. 0 * BlockSize = 0
    BY BlockSizeAssumption
  <2> QED
    BY <1>1, <2>1, <2>2
<1>3. CASE ReclaimPolicy # "recompute"
  <2>1. PICK free \in Nat : free = Cardinality(freeBlocks)
    <3>1. freeBlocks \in SUBSET Blocks
      BY DEF IndInv, TypeOK
    <3>2. IsFiniteSet(freeBlocks)
      BY <3>1, FS_Subset, BlocksAssumption
    <3> QED
      BY <3>2, FS_CardinalityType
  <2>2. PICK r \in Int : r = Max({1, TargetFree - free}) /\ r >= 1
    <3>1. TargetFree - free \in Int /\ 1 \in Int
      BY LimitsAssumption
    <3>2. PICK x \in Int : x = TargetFree - free
      BY <3>1
    <3>3. Max({1, x}) \in {1, x} /\ Max({1, x}) >= 1
      BY ExtremesOf
    <3>4. PICK r \in {1, x} : r = Max({1, x}) /\ r >= 1
      BY <3>3
    <3> QED
      BY <3>2, <3>4
  <2>3. PICK m \in Int : m = Max({0, Retained(v) - r}) /\ m <= Retained(v)
    <3>1. PICK x \in Int : x = Retained(v) - r /\ x <= Retained(v)
      BY <1>1, <2>2
    <3>2. Max({0, x}) \in {0, x}
      BY ExtremesOf
    <3>3. PICK m \in {0, x} : m = Max({0, x})
      BY <3>2
    <3> QED
      BY <1>1, <3>1, <3>3
  <2>4. PICK d \in Nat : d = numCached[v] \div BlockSize /\ d * BlockSize <= numCached[v]
    BY <1>1, DivPage
  <2>5. keep \in 0..Min({d, m})
    BY <1>3, <2>1, <2>2, <2>3, <2>4 DEF KeepBlocks
  <2>6. keep \in Nat /\ keep <= d /\ keep <= m
    <3>1. Min({d, m}) \in {d, m} /\ Min({d, m}) <= d /\ Min({d, m}) <= m
      BY ExtremesOf
    <3>2. PICK x \in {d, m} : x = Min({d, m}) /\ x <= d /\ x <= m
      BY <3>1
    <3> QED
      BY <2>5, <3>2
  <2>7. keep * BlockSize <= d * BlockSize /\ keep * BlockSize \in Nat /\ d * BlockSize \in Nat
    BY <2>6, PageOrder
  <2> QED
    BY <1>1, <2>3, <2>4, <2>6, <2>7
<1> QED
  BY <1>2, <1>3

LEMMA PreemptEffect ==
    ASSUME IndInv, KeysAligned, NEW v \in Seqs, Idle(v), DecodeReady(v),
           IF compressed[v] THEN DeallocateOp(v)
                            ELSE \E keep \in KeepBlocks(v) : ReclaimSuffixOp(v, keep)
    PROVE  /\ Deallocate(v) \/ \E keep \in 0..Retained(v) : ReclaimSuffix(v, keep)
           /\ \A t \in Seqs \ {v} : Untouched(t)
           /\ tokens' = tokens /\ ~compressed'[v] /\ Idle(v)' /\ WaitingAt(v)' /\ KeysAligned'
<1>1. TypeOK /\ TableInv
  BY DEF IndInv
<1>2. /\ Len(tokens[v]) \in Nat /\ Len(tokens[v]) > 0 /\ numCached[v] \in Nat
      /\ numCached[v] < Len(tokens[v]) /\ Retained(v) \in Nat
  BY <1>1, TableSizes, TableAtUse DEF DecodeReady, NewestMissing
<1>3. CASE compressed[v]
  <2>1. ReleaseAll(v) /\ numScheduled' = numScheduled /\ DeallocateOp(v)
    BY <1>3 DEF DeallocateOp
  <2>2. /\ \A t \in Seqs \ {v} : Untouched(t)
        /\ tokens' = tokens /\ ~compressed'[v] /\ ~Resident(v)' /\ numCached'[v] = 0 /\ index' = index
    <3>1. numScheduled' \in [Seqs -> Nat]
      BY <1>1, <2>1 DEF TypeOK
    <3> QED
      BY <1>1, <2>1, <3>1, ReleaseEffect
  <2>3. Deallocate(v) /\ Idle(v)' /\ WaitingAt(v)' /\ KeysAligned'
    BY <1>2, <2>1, <2>2 DEF Deallocate, Idle, WaitingAt, KeysAligned
  <2> QED
    BY <2>2, <2>3
<1>4. CASE ~compressed[v]
  <2>1. PICK keep \in KeepBlocks(v) : ReclaimSuffixOp(v, keep)
    BY <1>4
  <2>2. keep \in 0..Retained(v) /\ keep * BlockSize <= numCached[v]
    BY KeptIsCached
  <2>3. ReclaimSuffix(v, keep)
    BY <1>2, <1>4, <2>1, <2>2 DEF ReclaimSuffix
  <2>4. /\ \A t \in Seqs \ {v} : Untouched(t)
        /\ tokens' = tokens /\ numScheduled' = numScheduled /\ compressed' = compressed
        /\ Retained(v)' = keep /\ numCached'[v] = keep * BlockSize /\ index' = index
    BY <1>1, <2>1, <2>2, ReclaimEffect
  <2>5. Idle(v)' /\ KeysAligned'
    BY <2>4 DEF Idle, KeysAligned
  <2>6. WaitingAt(v)'
    <3>1. keep * BlockSize \in Nat
      BY <1>2, <2>2, PageOrder
    <3>2. keep * BlockSize < Len(tokens[v])
      BY <1>2, <2>2, <3>1
    <3> QED
      BY <2>4, <3>2 DEF WaitingAt
  <2> QED
    BY <1>4, <2>2, <2>3, <2>4, <2>5, <2>6
<1> QED
  BY <1>3, <1>4

\* preempt moves v, which was decoding, to the head of the waiting queue.
LEMMA PreemptKeeps ==
    ASSUME IndInv, SchedInv, pc = "append", pc' \in Decoding, NEW v \in Seqs, v \notin Scheduled,
           v \in Range(running) \/ Popped(v), Preempt(v), UNCHANGED <<pending, attempted>>,
           running' \in Seq(Seqs), IsInjective(running'), Range(running') = Range(running) \ {v},
           loop' \in Locals, loop'.scheduled = loop.scheduled, loop'.isPrefill = loop.isPrefill,
           pc' = "append" => loop'.cur = loop.cur,
           ~Popped(v)', \A t \in Seqs \ {v} : Popped(t)' <=> Popped(t)
    PROVE  /\ CoreInv'
           /\ Deallocate(v) \/ \E keep \in 0..Retained(v) : ReclaimSuffix(v, keep)
<1>1. pc \in Decoding /\ ~Finishing(v)' /\ ~Aborting(v)'
  BY DEF Decoding, Finishing, Aborting
<1>2. QueueTyped /\ QueueInv /\ BatchInv /\ KeysAligned
  BY DEF SchedInv, CoreInv
<1>3. /\ status[v] = "running" /\ Idle(v) /\ DecodeReady(v) /\ RequestAt(v)
      /\ v \notin Range(waiting) /\ v \notin DOMAIN pending
  BY <1>1, RunningReady
<1>4. /\ IF compressed[v] THEN DeallocateOp(v)
                          ELSE \E keep \in KeepBlocks(v) : ReclaimSuffixOp(v, keep)
      /\ status' = [status EXCEPT ![v] = "waiting"]
      /\ inPrefill' = [inPrefill EXCEPT ![v] = TRUE]
      /\ waiting' = <<v>> \o waiting
  BY DEF Preempt
<1>5. /\ Deallocate(v) \/ \E keep \in 0..Retained(v) : ReclaimSuffix(v, keep)
      /\ \A t \in Seqs \ {v} : Untouched(t)
      /\ tokens' = tokens /\ ~compressed'[v] /\ Idle(v)' /\ WaitingAt(v)' /\ KeysAligned'
  BY <1>2, <1>3, <1>4, PreemptEffect
<1>6. /\ waiting' \in Seq(Seqs) /\ IsInjective(waiting') /\ Range(waiting') = Range(waiting) \cup {v}
  BY <1>2, <1>3, <1>4, PushToQueue DEF QueueTyped, QueueInv
<1>7. /\ status' \in [Seqs -> Statuses] /\ status'[v] = "waiting"
      /\ inPrefill' \in [Seqs -> BOOLEAN] /\ inPrefill'[v]
      /\ \A t \in Seqs \ {v} : status'[t] = status[t] /\ inPrefill'[t] = inPrefill[t]
  BY <1>2, <1>4 DEF QueueTyped, Statuses
<1>8. QueueTyped'
  BY <1>2, <1>6, <1>7 DEF QueueTyped
<1>9. \A t \in Seqs \ {v} : SamePlace(t) /\ (t \in Range(running') <=> t \in Range(running))
  BY <1>6, <1>7 DEF SamePlace
<1>10. QueuedAt(v)'
  BY <1>1, <1>3, <1>6, <1>7 DEF QueuedAt
<1>11. RequestAt(v)'
  <2>1. /\ Len(tokens[v]) <= Len(Prompt[v]) + MaxTokens[v]
        /\ Len(tokens[v]) < Len(Prompt[v]) + MaxTokens[v]
    BY <1>3 DEF RequestAt
  <2> QED
    BY <1>3, <1>5, <1>7, <2>1 DEF RequestAt
<1>12. /\ Scheduled' = Scheduled /\ IsInjective(loop'.scheduled) /\ ~loop'.isPrefill
       /\ pc' = "append" => loop'.cur \notin Scheduled'
  BY <1>1, <1>2 DEF Scheduled, QueueInv, BatchInv
<1> QED
  BY <1>1, <1>5, <1>6, <1>7, <1>8, <1>9, <1>10, <1>11, <1>12, DecodeTouched

LEMMA AppendPressureKeeps ==
    ASSUME IndInv, SchedInv, AppendPressure
    PROVE  /\ SchedInv'
           /\ \E v \in Seqs : Deallocate(v) \/ \E keep \in 0..Retained(v) : ReclaimSuffix(v, keep)
<1>1. /\ pc = "append" /\ pc \in Decoding /\ UNCHANGED <<pending, attempted>>
  BY DEF AppendPressure, Decoding
<1>2. PICK s \in Seqs : s = loop.cur
  BY <1>1 DEF SchedInv, CurInv
<1>3. QueueTyped /\ QueueInv /\ loop \in Locals /\ Len(loop.scheduled) < MaxNumSeqs
  BY <1>1 DEF SchedInv, CoreInv, QueueTyped, CurInv
<1>4. s \notin Scheduled /\ Popped(s) /\ s \notin Range(running)
  <2>1. s \notin Scheduled /\ Popped(s)
    BY <1>1, <1>2, <1>3 DEF QueueInv, Popped
  <2> QED
    BY <1>3, <2>1 DEF QueueInv, QueuedAt
<1>5. CASE running # <<>>
  <2>1. PICK v \in SelectVictim(running) :
           Preempt(v) /\ running' = RemoveFirst(running, v) /\ UNCHANGED <<pc, loop>>
    BY <1>5 DEF AppendPressure
  <2>2. v \in Range(running) /\ v \in Seqs
    <3>1. CASE Policy = "fcfs"
      <4>1. v = running[Len(running)]
        BY <3>1 DEF SelectVictim, Last
      <4>2. Len(running) \in 1..Len(running) /\ DOMAIN running = 1..Len(running)
        <5>1. Len(running) \in Nat /\ Len(running) # 0 /\ DOMAIN running = 1..Len(running)
          BY <1>3, <1>5, LenProperties, EmptySeq DEF QueueTyped
        <5> QED
          BY <5>1
      <4> QED
        BY <1>3, <4>1, <4>2, LocalTypes DEF Range
    <3>2. CASE Policy # "fcfs"
      BY <1>3, <3>2, LocalTypes DEF SelectVictim
    <3> QED
      BY <3>1, <3>2
  <2>3. v \notin Scheduled /\ v # s
    <3>1. ~Popped(v)
      BY <1>3, <2>2 DEF QueueInv, QueuedAt
    <3> QED
      BY <1>1, <1>4, <2>2, <3>1 DEF Popped
  <2>4. /\ running' \in Seq(Seqs) /\ IsInjective(running') /\ Range(running') = Range(running) \ {v}
    BY <1>3, <2>1, RemoveFromQueue DEF QueueTyped, QueueInv
  <2>5. ~Popped(v)' /\ \A t \in Seqs \ {v} : Popped(t)' <=> Popped(t)
    BY <1>2, <2>1, <2>3 DEF Popped, Scheduled
  <2>6. /\ CoreInv'
        /\ Deallocate(v) \/ \E keep \in 0..Retained(v) : ReclaimSuffix(v, keep)
    BY <1>1, <1>3, <2>1, <2>2, <2>3, <2>4, <2>5, PreemptKeeps
  <2>7. CurInv'
    BY <1>1, <1>2, <1>3, <2>1 DEF CurInv, Choosing
  <2> QED
    BY <2>2, <2>6, <2>7 DEF SchedInv
<1>6. CASE running = <<>>
  <2>1. /\ Preempt(s) /\ loop' = [loop EXCEPT !.retryPrefill = TRUE, !.cur = NoSeq]
        /\ pc' = "decode" /\ running' = running
    BY <1>2, <1>6 DEF AppendPressure
  <2>2. /\ loop' \in Locals /\ loop'.scheduled = loop.scheduled /\ loop'.isPrefill = loop.isPrefill
    BY <1>3, <2>1 DEF Locals
  <2>3. /\ running' \in Seq(Seqs) /\ IsInjective(running') /\ Range(running') = Range(running) \ {s}
    BY <1>3, <1>4, <2>1 DEF QueueTyped, QueueInv
  <2>4. ~Popped(s)' /\ \A t \in Seqs \ {s} : Popped(t)' <=> Popped(t)
    <3>1. Scheduled' = Scheduled
      BY <2>2 DEF Scheduled
    <3> QED
      BY <1>1, <1>2, <1>4, <2>1, <3>1 DEF Popped, Decoding
  <2>5. /\ CoreInv'
        /\ Deallocate(s) \/ \E keep \in 0..Retained(s) : ReclaimSuffix(s, keep)
    <3>1. pc' \in Decoding /\ pc' # "append"
      BY <2>1 DEF Decoding
    <3> QED
      BY <1>1, <1>4, <2>1, <2>2, <2>3, <2>4, <3>1, PreemptKeeps
  <2>6. CurInv'
    BY <2>1 DEF CurInv, Choosing
  <2> QED
    BY <2>5, <2>6 DEF SchedInv
<1> QED
  BY <1>5, <1>6

---------------------------------------------------------------------------
(* Execution *)

\* Two writes of a batch to the same slot are the same write.
LEMMA WritesAgree ==
    ASSUME IndInv, NEW S \in SUBSET Seqs, NEW isPrefill \in BOOLEAN,
           \A s \in S : InMode(s, isPrefill),
           NEW w \in KVWrites(S, isPrefill), NEW u \in KVWrites(S, isPrefill),
           u.block = w.block, u.slot = w.slot
    PROVE  /\ u.prefix = w.prefix /\ w.block \in Blocks /\ w.slot \in 1..BlockSize
<1>1. TypeOK /\ PoolConsistent /\ TableInv /\ \A q \in Seqs : PrivateAt(q)
  BY DEF IndInv, OpenPagesPrivate
<1>0. \A x \in KVWrites(S, isPrefill) : \E s \in Seqs, p \in Nat : \E i \in 1..Retained(s) :
              /\ x.prefix = SubSeq(tokens[s], 1, p) /\ x.block = blockTable[s][i]
              /\ x.slot \in 1..BlockSize /\ p > numCached[s]
              /\ p = (logical[s][i] - 1) * BlockSize + x.slot
  BY <1>1, WriteLocated, ZenonT(40)
<1>2. PICK s \in Seqs, p \in Nat : \E i \in 1..Retained(s) :
              /\ w.prefix = SubSeq(tokens[s], 1, p) /\ w.block = blockTable[s][i]
              /\ w.slot \in 1..BlockSize /\ p > numCached[s]
              /\ p = (logical[s][i] - 1) * BlockSize + w.slot
  BY <1>0
<1>3. PICK i \in 1..Retained(s) :
              /\ w.prefix = SubSeq(tokens[s], 1, p) /\ w.block = blockTable[s][i]
              /\ w.slot \in 1..BlockSize /\ p > numCached[s]
              /\ p = (logical[s][i] - 1) * BlockSize + w.slot
  BY <1>2
<1>4. PICK t \in Seqs, r \in Nat : \E k \in 1..Retained(t) :
              /\ u.prefix = SubSeq(tokens[t], 1, r) /\ u.block = blockTable[t][k]
              /\ u.slot \in 1..BlockSize /\ r > numCached[t]
              /\ r = (logical[t][k] - 1) * BlockSize + u.slot
  BY <1>0
<1>5. PICK k \in 1..Retained(t) :
              /\ u.prefix = SubSeq(tokens[t], 1, r) /\ u.block = blockTable[t][k]
              /\ r = (logical[t][k] - 1) * BlockSize + u.slot
  BY <1>4
<1>6. HeldBy(blockTable, blockTable[s][i]) = {s}
  BY <1>1, <1>3, WritePrivate
<1>7. t = s
  <2>1. blockTable[t][k] \in Range(blockTable[t])
    BY <1>1, <1>5, TableSizes DEF Range
  <2> QED
    BY <1>3, <1>5, <1>6, <2>1 DEF HeldBy
<1>8. i = k
  BY <1>1, <1>3, <1>5, <1>7, TableSizes, SMTT(30) DEF PoolConsistent, IsInjective
<1>9. blockTable[s][i] \in Blocks
  BY <1>1, TableSizes
<1> QED
  BY <1>3, <1>5, <1>7, <1>8, <1>9

LEMMA RanInPlace ==
    ASSUME IndInv, NEW S \in SUBSET Seqs, NEW isPrefill \in BOOLEAN,
           \A s \in S : InMode(s, isPrefill), RunOp(S, isPrefill), NEW s \in S,
           NEW w \in KVWrites({s}, isPrefill)
    PROVE  kv'[w.block][w.slot] = w.prefix
<1> DEFINE W == KVWrites(S, isPrefill)
           Same(u) == u.block = w.block /\ u.slot = w.slot
           hit == CHOOSE u \in W : Same(u)
<1>1. w \in W
  BY DEF KVWrites
<1>2. w.block \in Blocks /\ w.slot \in 1..BlockSize
  BY <1>1, WritesAgree
<1>3. kv'[w.block][w.slot] = hit.prefix
  <2>1. kv' = [b \in Blocks |-> [j \in 1..BlockSize |->
              IF \E u \in W : u.block = b /\ u.slot = j
              THEN (CHOOSE u \in W : u.block = b /\ u.slot = j).prefix
              ELSE kv[b][j]]]
    BY DEF RunOp
  <2>2. \E u \in W : u.block = w.block /\ u.slot = w.slot
    BY <1>1
  <2> HIDE DEF W
  <2> QED
    BY <1>2, <2>1, <2>2
<1>4. hit \in W /\ Same(hit)
  <2>1. \E u \in W : Same(u)
    BY <1>1
  <2> HIDE DEF Same, W
  <2> QED
    BY <2>1, Zenon
<1>5. PICK u \in W : u = hit
  BY <1>4
<1> HIDE DEF hit
<1>6. u.prefix = w.prefix
  BY <1>1, <1>4, <1>5, WritesAgree
<1> QED
  BY <1>3, <1>5, <1>6

LEMMA RunModelKeeps ==
    ASSUME IndInv, SchedInv, RunModel
    PROVE  SchedInv' /\ \E S \in SUBSET Seqs, p \in BOOLEAN : Run(S, p)
<1>1. /\ pc = "run" /\ pc' = "post" /\ loop' = loop /\ UNCHANGED schedVars
      /\ pc \in Executing /\ pc' \in Executing
  BY DEF RunModel, Executing
<1>2. QueueTyped /\ QueueInv /\ BatchInv /\ loop \in Locals /\ Scheduled \subseteq Seqs
      /\ loop.isPrefill \in BOOLEAN /\ CoreInv
  BY LocalTypes DEF SchedInv, CoreInv, QueueTyped
<1>3. PICK p \in BOOLEAN : p = loop.isPrefill
  BY <1>2
<1>4. PICK S \in SUBSET Seqs : S = Scheduled
  BY <1>2
<1>5. RunOp(S, p)
  BY <1>3, <1>4 DEF RunModel, Scheduled
<1>6. S # {}
  <2>1. loop.scheduled # <<>> /\ loop.scheduled \in Seq(Seqs)
    BY <1>1, <1>2, LocalTypes DEF BatchInv
  <2> QED
    BY <1>4, <2>1, QueueRange DEF Scheduled
<1>7. \A s \in S : ~Idle(s) /\ InMode(s, p)
  <2>1. CASE p
    BY <1>1, <1>2, <1>3, <1>4, <2>1 DEF BatchInv, PrefillMember, InMode
  <2>2. CASE ~p
    BY <1>1, <1>2, <1>3, <1>4, <2>2 DEF BatchInv, DecodeMember, InMode, Idle
  <2> QED
    BY <2>1, <2>2
<1>8. Run(S, p)
  BY <1>5, <1>6, <1>7 DEF Run, InMode
<1>9. Still
  <2>1. UNCHANGED <<seqVars, poolVars>>
    BY <1>5 DEF RunOp
  <2>2. index' = index /\ \A t \in Seqs : Untouched(t)
    BY <2>1 DEF seqVars, poolVars, Untouched
  <2> QED
    BY <1>1, <2>2 DEF Still
<1>10. Scheduled' = Scheduled
  BY <1>1 DEF Scheduled
<1>11. QueueTyped' /\ QueueInv' /\ RequestInv' /\ NoOrphanPages' /\ KeysAligned'
  <2>1. \A t \in Seqs : /\ Aborting(t)' <=> Aborting(t)
                        /\ ~Finishing(t) /\ ~Finishing(t)'
                        /\ Popped(t)' <=> Popped(t)
    BY <1>1 DEF Aborting, Finishing, Popped, Decoding
  <2> QED
    BY <1>1, <1>2, <1>9, <2>1, StillCore DEF QueueInv
<1>12. BatchInv'
  <2>1. /\ pc' \notin Outside /\ pc' \notin Prefilling /\ pc' \notin Decoding /\ pc' # "failActive"
        /\ pc' # "run" /\ pc # "failActive"
    BY <1>1 DEF Outside, Prefilling, Choosing, Decoding
  <2>2. ASSUME NEW t \in Scheduled'
        PROVE  /\ loop'.isPrefill => PrefillMember(t)'
               /\ ~loop'.isPrefill => DecodeMember(t)'
    <3>1. t \in Scheduled /\ t \in Seqs /\ Untouched(t) /\ status' = status /\ inPrefill' = inPrefill
      BY <1>2, <1>9, <1>10 DEF Still, schedVars
    <3>2. /\ loop.isPrefill => PrefillMember(t)
          /\ ~loop.isPrefill => DecodeMember(t)
      BY <1>1, <1>2, <3>1 DEF BatchInv
    <3> QED
      BY <1>1, <3>1, <3>2, MemberKept
  <2>3. ASSUME NEW t \in Seqs, ~Idle(t)' PROVE t \in Scheduled'
    BY <1>2, <1>9, <1>10, <2>1, <2>3, SameRequest DEF BatchInv, Still
  <2> QED
    BY <2>1, <2>2, <2>3 DEF BatchInv
<1>13. RunInv'
  <2> SUFFICES ASSUME NEW s \in Scheduled', NEW w \in KVWrites({s}, loop.isPrefill)'
               PROVE  kv'[w.block][w.slot] = w.prefix
    BY DEF RunInv
  <2>1. s \in S /\ s \in Seqs /\ loop'.isPrefill = p
    BY <1>1, <1>3, <1>4, <1>10
  <2>2. w \in KVWrites({s}, p)
    <3>1. KVWrites({s}, p)' = KVWrites({s}, p)
      BY <1>9, <2>1, SameWrites DEF Still
    <3>2. KVWrites({s}, loop.isPrefill)' = KVWrites({s}, p)'
      BY <1>3, <2>1 DEF KVWrites, PageFor
    <3> QED
      BY <3>1, <3>2
  <2> QED
    BY <1>5, <1>7, <2>1, <2>2, RanInPlace
<1>14. CoreInv'
  BY <1>11, <1>12, <1>13 DEF CoreInv
<1>15. CurInv'
  BY <1>1 DEF CurInv, Choosing
<1> QED
  BY <1>8, <1>14, <1>15 DEF SchedInv

\* Publishing pages adds keys of whole pages.
LEMMA PublishedKeys ==
    ASSUME TypeOK, KeysAligned, NEW s \in Seqs, NEW lo, NEW hi \in Nat, Published(s, lo, hi),
           \A i \in 1..hi : i * BlockSize <= Len(tokens[s])
    PROVE  KeysAligned'
<1> SUFFICES ASSUME Backend = "radix", NEW key \in DOMAIN index'
             PROVE  key # <<>> /\ Len(key) % BlockSize = 0
  BY DEF KeysAligned
<1>1. CASE key \in DOMAIN index
  BY <1>1 DEF KeysAligned
<1>2. CASE key \notin DOMAIN index
  <2>1. PICK i \in 1..hi : key = ChainKey(s, i)
    BY <1>2 DEF Published
  <2>2. i \in Nat /\ i >= 1
    OBVIOUS
  <2>3. Len(key) = i * BlockSize
    BY <2>1, <2>2, KeyType
  <2>4. (i * BlockSize) % BlockSize = 0 /\ i * BlockSize # 0
    BY <2>2, MulDiv, BlockSizeAssumption
  <2>5. Len(<<>>) = 0
    OBVIOUS
  <2> QED
    BY <2>3, <2>4, <2>5
<1> QED
  BY <1>1, <1>2

LEMMA PostprocessEffect ==
    ASSUME IndInv, KeysAligned, NEW s \in Seqs, NEW p \in BOOLEAN, NEW x \in Token,
           Postprocess(s, p, x), ~p => numScheduled[s] = 1
    PROVE  /\ \A t \in Seqs \ {s} : Untouched(t)
           /\ Idle(s)' /\ KeysAligned' /\ kv' = kv /\ compressed'[s] = compressed[s]
           /\ Len(tokens[s]) \in Nat
           /\ IF p /\ numCached[s] + numScheduled[s] < Len(tokens[s])
              THEN ~compressed[s] /\ tokens'[s] = tokens[s] /\ WaitingAt(s)'
              ELSE Len(tokens'[s]) = Len(tokens[s]) + 1 /\ DecodeReady(s)'
<1>1. TypeOK /\ TableInv /\ PoolConsistent
  BY DEF IndInv
<1>2. /\ numCached[s] \in Nat /\ numScheduled[s] \in Nat /\ numScheduled[s] > 0
      /\ numCached[s] + numScheduled[s] <= Len(tokens[s]) /\ Len(tokens[s]) \in Nat
      /\ numCached'[s] = numCached[s] + numScheduled[s]
      /\ numPhysical'[s] = numPhysical[s] + numScheduled[s] /\ numScheduled'[s] = 0
      /\ compressed[s] => NewestMissing(s) /\ numScheduled[s] = 1
      /\ tokens[s] \in Seq(Token)
      /\ \A q \in Seqs \ {s} : Untouched(q)
  BY <1>1, PostprocessCounters DEF TypeOK
<1>3. /\ PostprocessOp(s, p, x) /\ blockTable' = blockTable /\ compressed' = compressed /\ kv' = kv
      /\ tokens' = IF p /\ numCached[s] + numScheduled[s] < Len(tokens[s])
                   THEN tokens ELSE [tokens EXCEPT ![s] = Append(@, x)]
      /\ HashBlocks(s)
  BY DEF Postprocess, PostprocessOp
<1>4. /\ numPhysical[s] \in Nat /\ Retained(s) \in Nat /\ NumBlocks(s) \in Nat
      /\ ~compressed[s] => numPhysical[s] = numCached[s] /\ Retained(s) = NumBlocks(s)
      /\ compressed[s] => Thinned(s)
  BY <1>1, <1>2, TableAtUse, TableSizes
<1>5. Retained(s)' = Retained(s)
  BY <1>3 DEF Retained
<1>6. KeysAligned'
  <2>1. CASE compressed[s]
    <3>1. index' = index
      BY <1>3, <2>1 DEF HashBlocks
    <3> QED
      BY <3>1 DEF KeysAligned
  <2>2. CASE ~compressed[s]
    <3>1. Published(s, (numCached[s] \div BlockSize) + 1,
                       (numCached[s] + numScheduled[s]) \div BlockSize)
      BY <1>2, <1>3, <2>2, HashPublishes
    <3>2. PICK hi \in Nat : /\ hi = (numCached[s] + numScheduled[s]) \div BlockSize
                            /\ \A i \in 1..hi : i * BlockSize <= Len(tokens[s])
      <4>1. PICK d : d = numCached[s] \div BlockSize
        OBVIOUS
      <4>2. PICK hi : hi = (numCached[s] + numScheduled[s]) \div BlockSize
        OBVIOUS
      <4>3. hi \in Nat /\ \A i \in 1..hi : i * BlockSize <= Len(tokens[s])
        BY <1>1, <1>2, <2>2, <4>1, <4>2, CompletedPages
      <4> QED
        BY <4>2, <4>3
    <3> QED
      BY <1>1, <3>1, <3>2, PublishedKeys
  <2> QED
    BY <2>1, <2>2
<1>7. CASE p /\ numCached[s] + numScheduled[s] < Len(tokens[s])
  <2>1. ~compressed[s]
    BY <1>7 DEF Postprocess
  <2>2. tokens' = tokens /\ NumBlocks(s)' = NumBlocks(s)
    BY <1>3, <1>7 DEF NumBlocks
  <2>3. WaitingAt(s)'
    BY <1>2, <1>4, <1>5, <1>7, <2>1, <2>2 DEF WaitingAt
  <2> QED
    BY <1>2, <1>3, <1>6, <1>7, <2>1, <2>2, <2>3 DEF Idle
<1>8. CASE ~(p /\ numCached[s] + numScheduled[s] < Len(tokens[s]))
  <2>1. numCached[s] + numScheduled[s] = Len(tokens[s])
    <3>1. CASE p
      BY <1>2, <1>8, <3>1, SMTT(30)
    <3>2. CASE ~p
      BY <1>2, <3>2 DEF Postprocess, NewestMissing
    <3> QED
      BY <3>1, <3>2
  <2>2. tokens'[s] = Append(tokens[s], x)
    BY <1>1, <1>3, <1>8 DEF TypeOK
  <2>3. Len(tokens'[s]) = Len(tokens[s]) + 1
    BY <1>2, <2>2, AppendProperties
  <2>4. NewestMissing(s)'
    BY <1>2, <2>1, <2>3 DEF NewestMissing
  <2>5. PICK y \in Nat : y = numPhysical'[s] /\ y = numPhysical[s] + numScheduled[s]
    BY <1>2, <1>4
  <2>6. Retained(s)' = Pages(y)
    <3>1. CASE compressed[s]
      BY <1>4, <1>5, <2>5, <3>1 DEF Thinned
    <3>2. CASE ~compressed[s]
      BY <1>4, <1>5, <2>1, <2>5, <3>2 DEF NumBlocks
    <3> QED
      BY <3>1, <3>2
  <2>7. blockTable'[s] # <<>>
    <3>1. NumBlocks(s) > 0
      <4>1. CacheableBlocks(s) \in Nat /\ NumBlocks(s) = CacheableBlocks(s) + 1
        BY <1>1, TableSizes
      <4> QED
        BY <4>1
    <3>2. Retained(s) > 0
      BY <1>4, <3>1 DEF Thinned
    <3> QED
      BY <1>3, <3>2 DEF Retained
  <2>8. DecodeReady(s)'
    BY <2>4, <2>5, <2>6, <2>7 DEF DecodeReady
  <2> QED
    BY <1>2, <1>3, <1>6, <1>8, <2>3, <2>8 DEF Idle
<1> QED
  BY <1>7, <1>8

LEMMA PostprocessOneKeeps ==
    ASSUME IndInv, SchedInv, PostprocessOne
    PROVE  SchedInv' /\ \E s \in Seqs : \E p \in BOOLEAN, x \in Sampled : Postprocess(s, p, x)
<1>1. /\ pc = "post" /\ loop.scheduled # <<>> /\ pc \in Executing
      /\ UNCHANGED <<waiting, running, pending, attempted, inPrefill>>
  BY DEF PostprocessOne, Executing
<1>2. /\ QueueTyped /\ QueueInv /\ BatchInv /\ RunInv /\ RequestInv /\ NoOrphanPages /\ KeysAligned
      /\ loop \in Locals /\ loop.scheduled \in Seq(Seqs) /\ loop.isPrefill \in BOOLEAN
      /\ Scheduled \subseteq Seqs
  BY LocalTypes DEF SchedInv, CoreInv, QueueTyped
<1>3. PICK s \in Seqs : s = Head(loop.scheduled) /\ s \in Scheduled
  BY <1>1, <1>2, TailOfQueue DEF Scheduled
<1>4. PICK p \in BOOLEAN : p = loop.isPrefill
  BY <1>2
<1>5. /\ Tail(loop.scheduled) \in Seq(Seqs) /\ IsInjective(Tail(loop.scheduled))
      /\ Range(Tail(loop.scheduled)) = Scheduled \ {s}
  BY <1>1, <1>2, <1>3, TailOfQueue DEF Scheduled, QueueInv
<1> DEFINE chunk == p /\ numCached[s] + numScheduled[s] < Len(tokens[s])
<1>6. PICK x \in Sampled :
         /\ PostprocessOp(s, p, x)
         /\ IF ~chunk /\ Stops(s, x)
            THEN status' = [status EXCEPT ![s] = "finished"] /\ pc' = "finish"
            ELSE UNCHANGED <<status, pc>>
  BY <1>3, <1>4 DEF PostprocessOne
<1>7. /\ loop' \in Locals /\ loop'.scheduled = Tail(loop.scheduled) /\ loop'.cur = s
      /\ loop'.isPrefill = p /\ loop'.batched = loop.batched /\ Scheduled' = Scheduled \ {s}
  <2>1. loop' = [loop EXCEPT !.scheduled = Tail(loop.scheduled), !.cur = s]
    BY <1>3 DEF PostprocessOne
  <2>2. /\ loop' \in Locals /\ loop'.scheduled = Tail(loop.scheduled) /\ loop'.cur = s
        /\ loop'.isPrefill = p /\ loop'.batched = loop.batched
    BY <1>2, <1>4, <1>5, <2>1 DEF Locals
  <2> QED
    BY <1>5, <2>2 DEF Scheduled
<1>8. /\ pc # "failActive" /\ pc # "finish" /\ pc \notin Decoding /\ pc # "abortRestore"
      /\ pc' \in {"post", "finish"} /\ pc' \in Executing
      /\ pc' \notin Outside /\ pc' \notin Prefilling /\ pc' \notin Decoding /\ pc' # "failActive"
      /\ pc' # "run" /\ pc' # "append" /\ pc' # "abortRestore"
  <2>1. pc' \in {"post", "finish"}
    BY <1>1, <1>6
  <2> QED
    BY <1>1, <2>1 DEF Outside, Prefilling, Choosing, Decoding, Executing
<1>9. /\ p => PrefillMember(s)
      /\ ~p => DecodeMember(s)
  BY <1>1, <1>2, <1>3, <1>4 DEF BatchInv
<1>10. ~Idle(s) /\ InMode(s, p) /\ (~p => numScheduled[s] = 1) /\ status[s] \in {"waiting", "running"}
  BY <1>9 DEF PrefillMember, DecodeMember, InMode, Idle
<1>11. /\ Len(tokens[s]) \in Nat /\ Len(Prompt[s]) + MaxTokens[s] \in Nat /\ MaxLen \in Nat
       /\ Len(tokens[s]) < Len(Prompt[s]) + MaxTokens[s]
       /\ Len(tokens[s]) < MaxLen
  <2>1. Len(tokens[s]) \in Nat
    BY TableSizes DEF IndInv
  <2>2. Len(Prompt[s]) \in Nat /\ MaxTokens[s] \in Nat
    BY PromptAssumption, AdmissionAssumption, LenProperties
  <2>3. /\ Len(tokens[s]) < Len(Prompt[s]) + MaxTokens[s]
        /\ Len(Prompt[s]) + MaxTokens[s] <= MaxLen
    BY <1>2, <1>10, AdmissionAssumption DEF RequestInv, RequestAt
  <2> QED
    BY <2>1, <2>2, <2>3, MaxLenAssumption
<1>12. x \in Token /\ Postprocess(s, p, x)
  <2>1. \A w \in KVWrites({s}, p) : kv[w.block][w.slot] = w.prefix
    BY <1>1, <1>2, <1>3, <1>4 DEF RunInv
  <2> QED
    BY <1>6, <1>10, <1>11, <2>1, SampledAssumption DEF Postprocess, InMode
<1>13. /\ \A t \in Seqs \ {s} : Untouched(t)
       /\ Idle(s)' /\ KeysAligned' /\ kv' = kv /\ compressed'[s] = compressed[s]
       /\ IF chunk THEN ~compressed[s] /\ tokens'[s] = tokens[s] /\ WaitingAt(s)'
                   ELSE Len(tokens'[s]) = Len(tokens[s]) + 1 /\ DecodeReady(s)'
  BY <1>2, <1>10, <1>12, PostprocessEffect
<1>14. IF chunk THEN status[s] = "waiting" ELSE status[s] = "running"
  <2>1. Len(tokens[s]) \in Nat /\ numCached[s] \in Nat /\ numScheduled[s] \in Nat
    BY TableSizes, TableAtUse DEF IndInv
  <2> QED
    BY <1>9, <2>1 DEF PrefillMember, DecodeMember
<1> HIDE DEF chunk
<1>15. /\ \A t \in Seqs : ~Finishing(t) /\ ~Popped(t) /\ ~Aborting(t) /\ ~Popped(t)' /\ ~Aborting(t)'
       /\ \A t \in Seqs \ {s} : ~Finishing(t)'
       /\ Finishing(s)' <=> pc' = "finish"
  BY <1>7, <1>8 DEF Finishing, Popped, Aborting
<1>16. /\ status' \in [Seqs -> Statuses]
       /\ \A t \in Seqs \ {s} : status'[t] = status[t]
       /\ pc' = "finish" => ~chunk /\ Stops(s, x) /\ status'[s] = "finished"
       /\ pc' # "finish" => (chunk \/ ~Stops(s, x)) /\ status'[s] = status[s]
  BY <1>2, <1>6, <1>8 DEF QueueTyped, Statuses
<1>17. QueueTyped'
  BY <1>1, <1>2, <1>7, <1>8, <1>16 DEF QueueTyped
<1>18. \A t \in Seqs \ {s} : SamePlace(t)
  BY <1>1, <1>16 DEF SamePlace
<1>19. QueuedAt(s)'
  <2>1. QueuedAt(s)
    BY <1>2 DEF QueueInv
  <2>2. CASE pc' = "finish"
    BY <1>1, <1>14, <1>15, <1>16, <2>1, <2>2 DEF QueuedAt
  <2>3. CASE pc' # "finish"
    BY <1>1, <1>15, <1>16, <2>1, <2>3 DEF QueuedAt
  <2> QED
    BY <2>2, <2>3
<1>20. QueueInv'
  <2>1. \A t \in Seqs \ {s} : QueuedAt(t)'
    BY <1>1, <1>2, <1>15, <1>18 DEF QueueInv, QueuedAt, SamePlace
  <2>2. \A t \in Seqs : QueuedAt(t)'
    BY <1>19, <2>1
  <2> QED
    BY <1>1, <1>2, <1>5, <1>7, <1>8, <2>2 DEF QueueInv
<1>21. RequestAt(s)'
  <2>1. RequestAt(s) /\ QueuedAt(s)'
    BY <1>2, <1>19 DEF RequestInv
  <2>2. CASE chunk
    <3>1. status'[s] = "waiting" /\ pc' # "finish" /\ ~compressed'[s]
      BY <1>13, <1>14, <1>16, <2>2
    <3>2. s \notin DOMAIN pending'
      BY <1>15, <2>1, <3>1 DEF QueuedAt
    <3>3. /\ inPrefill[s] /\ Len(tokens[s]) <= Len(Prompt[s]) + MaxTokens[s]
      BY <1>14, <2>1, <2>2 DEF RequestAt
    <3> QED
      BY <1>1, <1>11, <1>13, <2>2, <3>1, <3>2, <3>3 DEF RequestAt
  <2>3. CASE ~chunk
    <3>1. s \notin DOMAIN pending' /\ s \notin Range(waiting')
      BY <1>14, <1>15, <1>16, <2>1, <2>3 DEF QueuedAt
    <3>2. status'[s] = "running" \/ (status'[s] = "finished" /\ Finishing(s)')
      BY <1>14, <1>15, <1>16, <2>3
    <3>3. /\ Len(tokens'[s]) <= Len(Prompt[s]) + MaxTokens[s]
          /\ status'[s] = "running" => Len(tokens'[s]) < Len(Prompt[s]) + MaxTokens[s]
      <4>1. status'[s] = "running" => Len(tokens[s]) + 1 # Len(Prompt[s]) + MaxTokens[s]
        BY <1>16, <2>3 DEF Stops
      <4> QED
        BY <1>11, <1>13, <2>3, <4>1
    <3> QED
      BY <1>13, <2>3, <3>1, <3>2, <3>3 DEF RequestAt
  <2> QED
    BY <2>2, <2>3
<1>22. RequestInv'
  <2>1. \A t \in Seqs \ {s} : RequestAt(t)'
    BY <1>2, <1>13, <1>15, <1>18, RequestKept DEF RequestInv
  <2> QED
    BY <1>21, <2>1 DEF RequestInv
<1>23. NoOrphanPages'
  <2> SUFFICES ASSUME NEW t \in Seqs, Resident(t)'
               PROVE  \/ status'[t] \in {"waiting", "running", "waiting_for_kv"}
                      \/ pc' = "finish" /\ loop'.cur = t
    BY DEF NoOrphanPages
  <2>1. CASE t = s
    BY <1>7, <1>10, <1>16, <2>1
  <2>2. CASE t # s
    BY <1>2, <1>8, <1>13, <1>18, <2>2, SameRequest DEF NoOrphanPages, SamePlace
  <2> QED
    BY <2>1, <2>2
<1>24. BatchInv'
  <2>1. ASSUME NEW t \in Scheduled'
        PROVE  /\ loop'.isPrefill => PrefillMember(t)'
               /\ ~loop'.isPrefill => DecodeMember(t)'
    <3>1. t \in Scheduled /\ t \in Seqs \ {s} /\ Untouched(t)
      BY <1>2, <1>7, <1>13
    <3>2. /\ p => PrefillMember(t)
          /\ ~p => DecodeMember(t)
      BY <1>1, <1>2, <1>4, <3>1 DEF BatchInv
    <3> QED
      BY <1>1, <1>7, <1>16, <3>1, <3>2, MemberKept
  <2>2. ASSUME NEW t \in Seqs, ~Idle(t)' PROVE t \in Scheduled'
    <3>1. t # s
      BY <1>13, <2>2
    <3>2. ~Idle(t)
      BY <1>13, <2>2, <3>1, SameRequest
    <3> QED
      BY <1>2, <1>7, <1>8, <3>1, <3>2 DEF BatchInv
  <2> QED
    BY <1>8, <2>1, <2>2 DEF BatchInv
<1>25. RunInv'
  <2> SUFFICES ASSUME NEW t \in Scheduled', NEW w \in KVWrites({t}, loop.isPrefill)'
               PROVE  kv'[w.block][w.slot] = w.prefix
    BY DEF RunInv
  <2>1. t \in Scheduled /\ t \in Seqs \ {s} /\ Untouched(t)
    BY <1>2, <1>7, <1>13
  <2>2. w \in KVWrites({t}, p)
    <3>1. KVWrites({t}, p)' = KVWrites({t}, p)
      BY <2>1, SameWrites
    <3>2. KVWrites({t}, loop.isPrefill)' = KVWrites({t}, p)'
      BY <1>4, <1>7 DEF KVWrites, PageFor
    <3> QED
      BY <3>1, <3>2
  <2> QED
    BY <1>1, <1>2, <1>4, <1>13, <2>1, <2>2 DEF RunInv
<1>26. CoreInv'
  BY <1>13, <1>17, <1>20, <1>22, <1>23, <1>24, <1>25 DEF CoreInv
<1>27. CurInv'
  <2>1. pc' \notin Choosing
    BY <1>8 DEF Prefilling
  <2> QED
    BY <1>7, <1>8, <2>1 DEF CurInv
<1> QED
  BY <1>12, <1>26, <1>27 DEF SchedInv

---------------------------------------------------------------------------
(* Between the handlers, and retiring a request *)

\* One request is moved where no batch is being built or executed.
LEMMA OuterTouched ==
    ASSUME SchedInv, NEW s \in Seqs, loop' = loop,
           (pc \in Outside /\ pc' \in Outside) \/ (pc = "failActive" /\ pc' = "failActive"),
           \A t \in Seqs \ {s} : /\ Untouched(t) /\ SamePlace(t)
                                 /\ t \in Range(running') <=> t \in Range(running),
           QueueTyped', IsInjective(waiting'), IsInjective(running'), Idle(s)', QueuedAt(s)',
           RequestAt(s)', KeysAligned',
           Resident(s)' => status'[s] \in {"waiting", "running", "waiting_for_kv"}
    PROVE  SchedInv'
<1>1. QueueTyped /\ QueueInv /\ BatchInv /\ RequestInv /\ NoOrphanPages
  BY DEF SchedInv, CoreInv
<1>2. /\ pc \notin {"abortRestore", "finish", "append"} /\ pc \notin Decoding
      /\ pc' \notin {"abortRestore", "finish", "append", "run", "post"} /\ pc' \notin Decoding
      /\ pc' \notin Prefilling /\ pc' \notin Executing /\ pc' \notin Choosing
      /\ pc' \in Outside => pc' # "failActive"
      /\ pc = "failActive" => pc \notin Outside
  BY DEF Outside, Prefilling, Choosing, Decoding, Executing
<1>3. \A t \in Seqs : /\ ~Aborting(t) /\ ~Finishing(t) /\ ~Popped(t)
                      /\ ~Aborting(t)' /\ ~Finishing(t)' /\ ~Popped(t)'
  BY <1>2 DEF Aborting, Finishing, Popped
<1>4. QueueInv'
  <2>1. \A t \in Seqs \ {s} : QueuedAt(t)'
    BY <1>1, <1>3 DEF QueueInv, QueuedAt, SamePlace
  <2>2. \A t \in Seqs : QueuedAt(t)'
    BY <2>1
  <2> QED
    BY <1>1, <1>2, <2>2 DEF QueueInv
<1>5. RequestInv'
  <2>1. \A t \in Seqs \ {s} : RequestAt(t)'
    BY <1>1, <1>3, RequestKept DEF RequestInv
  <2> QED
    BY <2>1 DEF RequestInv
<1>6. NoOrphanPages'
  <2> SUFFICES ASSUME NEW t \in Seqs, Resident(t)'
               PROVE  status'[t] \in {"waiting", "running", "waiting_for_kv"}
    BY DEF NoOrphanPages
  <2>1. CASE t = s
    BY <2>1
  <2>2. CASE t # s
    BY <1>1, <1>2, <2>2, SameRequest DEF NoOrphanPages, SamePlace
  <2> QED
    BY <2>1, <2>2
<1>7. BatchInv'
  <2>1. ASSUME pc \in Outside, NEW t \in Seqs PROVE Idle(t)'
    <3>1. Idle(t)
      BY <2>1, OutsideIdle
    <3> QED
      BY <3>1, SameRequest
  <2>2. ASSUME pc = "failActive", NEW t \in Seqs, ~Idle(t)'
        PROVE  t \in Range(waiting') \cup Range(running')
    <3>1. t \in Seqs \ {s}
      BY <2>2
    <3>2. t \in Range(waiting) \cup Range(running)
      BY <1>1, <2>2, <3>1, SameRequest DEF BatchInv
    <3> QED
      BY <3>1, <3>2 DEF SamePlace
  <2>3. pc \in Outside => loop = Fresh
    BY <1>1 DEF BatchInv
  <2> QED
    BY <1>2, <2>1, <2>2, <2>3 DEF BatchInv
<1>8. RunInv' /\ CurInv'
  BY <1>2 DEF RunInv, CurInv, Choosing
<1> QED
  BY <1>4, <1>5, <1>6, <1>7, <1>8 DEF SchedInv, CoreInv

LEMMA AddKeeps ==
    ASSUME IndInv, SchedInv, NEW s \in Seqs, Add(s)
    PROVE  SchedInv' /\ UNCHANGED bmVars
<1>1. /\ pc = "idle" /\ pc \in Outside /\ status[s] = "new" /\ waiting' = Append(waiting, s)
      /\ status' = [status EXCEPT ![s] = "waiting"]
      /\ UNCHANGED <<bmVars, running, pending, attempted, inPrefill, pc, loop>>
  BY DEF Add, Outside
<1>2. QueueTyped /\ QueueInv /\ RequestInv /\ NoOrphanPages /\ KeysAligned /\ QueuedAt(s)
  BY DEF SchedInv, CoreInv, QueueInv
<1>3. \A t \in Seqs : ~Aborting(t) /\ ~Finishing(t) /\ ~Popped(t)
  BY <1>1 DEF Aborting, Finishing, Popped, Decoding
<1>4. s \notin Range(waiting) /\ s \notin Range(running) /\ s \notin DOMAIN pending
  BY <1>1, <1>2, <1>3 DEF QueuedAt
<1>5. /\ waiting' \in Seq(Seqs) /\ Range(waiting') = Range(waiting) \cup {s} /\ IsInjective(waiting')
  BY <1>1, <1>2, <1>4, AppendToQueue DEF QueueTyped, QueueInv
<1>6. status' \in [Seqs -> Statuses] /\ status'[s] = "waiting" /\ \A t \in Seqs \ {s} : status'[t] = status[t]
  BY <1>1, <1>2 DEF QueueTyped, Statuses
<1>7. QueueTyped'
  BY <1>1, <1>2, <1>5, <1>6 DEF QueueTyped
<1>8. /\ UNCHANGED <<tokens, blockTable, numCached, numPhysical, numScheduled, logical, compressed,
                     index, kv>>
      /\ \A t \in Seqs : Untouched(t)
  <2>1. UNCHANGED <<tokens, blockTable, numCached, numPhysical, numScheduled, logical, compressed,
                    index, kv>>
    BY <1>1 DEF bmVars, seqVars, poolVars
  <2> QED
    BY <2>1 DEF Untouched
<1>9. \A t \in Seqs \ {s} : SamePlace(t) /\ (t \in Range(running') <=> t \in Range(running))
  BY <1>1, <1>5, <1>6 DEF SamePlace
<1>10. Idle(s)' /\ KeysAligned' /\ Idle(s)
  <2>1. Idle(s)
    BY <1>1, OutsideIdle
  <2> QED
    BY <1>2, <1>8, <2>1 DEF Idle, KeysAligned
<1>11. \A t \in Seqs : ~Aborting(t)' /\ ~Finishing(t)' /\ ~Popped(t)'
  BY <1>1 DEF Aborting, Finishing, Popped, Decoding
<1>12. QueuedAt(s)'
  BY <1>1, <1>4, <1>5, <1>6, <1>11 DEF QueuedAt
<1>13. RequestAt(s)'
  <2>1. RequestAt(s)
    BY <1>2 DEF RequestInv
  <2>2. ~Resident(s) /\ ~compressed[s]
    BY <1>1, <1>2, <1>3, <2>1 DEF NoOrphanPages, RequestAt
  <2>3. numCached[s] = 0 /\ Len(tokens[s]) \in Nat /\ Len(tokens[s]) > 0
    <3>1. /\ TypeOK /\ TableInv /\ TableAt(s) /\ Retained(s) = 0
      BY <2>2 DEF IndInv, TableInv, Resident, Retained
    <3>2. numCached[s] \in Nat /\ numCached[s] <= 0 * BlockSize
      BY <2>2, <3>1 DEF TableAt, Whole, TypeOK
    <3>3. Len(tokens[s]) \in Nat /\ Len(tokens[s]) > 0
      BY <3>1, TableSizes
    <3> QED
      BY <3>2, <3>3, BlockSizeAssumption
  <2>4. WaitingAt(s)'
    BY <1>8, <2>2, <2>3 DEF WaitingAt, Resident
  <2> QED
    BY <1>1, <1>4, <1>6, <1>8, <2>1, <2>2, <2>4 DEF RequestAt
<1>14. SchedInv'
  BY <1>1, <1>5, <1>6, <1>7, <1>8, <1>9, <1>10, <1>12, <1>13, <1>2, OuterTouched DEF QueueInv
<1> QED
  BY <1>1, <1>14

\* A request leaves pending_restores.
LEMMA PopPending ==
    ASSUME QueueTyped, NEW s
    PROVE  /\ DOMAIN Pop(pending, s) = DOMAIN pending \ {s} /\ DOMAIN Pop(pending, s) \subseteq Seqs
           /\ Pop(pending, s) \in [DOMAIN Pop(pending, s) -> Nat]
           /\ \A t \in DOMAIN pending \ {s} : Pop(pending, s)[t] = pending[t]
<1>1. Pop(pending, s) = [t \in DOMAIN pending \ {s} |-> pending[t]]
  BY DEF Pop, Restrict
<1>2. DOMAIN pending \subseteq Seqs /\ \A t \in DOMAIN pending : pending[t] \in Nat
  BY DEF QueueTyped
<1> QED
  BY <1>1, <1>2

\* cancel, between steps or after a step that raised.
LEMMA CancelKeeps ==
    ASSUME IndInv, SchedInv, NEW s \in Seqs, CancelRequest(s), pc \in {"idle", "failActive"}, pc' = pc
    PROVE  SchedInv' /\ Cancel(s)
<1>1. /\ waiting' = RemoveFirst(waiting, s) /\ running' = RemoveFirst(running, s)
      /\ pending' = Pop(pending, s) /\ CancelOp(s)
      /\ status' = [status EXCEPT ![s] = "cancelled"]
      /\ UNCHANGED <<attempted, inPrefill, loop>>
  BY DEF CancelRequest
<1>2. QueueTyped /\ QueueInv /\ RequestInv /\ KeysAligned /\ TypeOK
  BY DEF SchedInv, CoreInv, IndInv
<1>3. /\ waiting' \in Seq(Seqs) /\ Range(waiting') = Range(waiting) \ {s} /\ IsInjective(waiting')
  BY <1>1, <1>2, RemoveFromQueue DEF QueueTyped, QueueInv
<1>4. /\ running' \in Seq(Seqs) /\ Range(running') = Range(running) \ {s} /\ IsInjective(running')
  BY <1>1, <1>2, RemoveFromQueue DEF QueueTyped, QueueInv
<1>5. /\ DOMAIN pending' = DOMAIN pending \ {s} /\ DOMAIN pending' \subseteq Seqs
      /\ pending' \in [DOMAIN pending' -> Nat]
      /\ \A t \in DOMAIN pending \ {s} : pending'[t] = pending[t]
  BY <1>1, <1>2, PopPending
<1>6. /\ status' \in [Seqs -> Statuses] /\ status'[s] = "cancelled"
      /\ \A t \in Seqs \ {s} : status'[t] = status[t]
  BY <1>1, <1>2 DEF QueueTyped, Statuses
<1>7. QueueTyped'
  BY <1>1, <1>2, <1>3, <1>4, <1>5, <1>6 DEF QueueTyped
<1>8. numScheduled' \in [Seqs -> Nat] /\ numScheduled'[s] = 0
      /\ \A t \in Seqs \ {s} : numScheduled'[t] = numScheduled[t]
  BY <1>1, <1>2 DEF CancelOp, TypeOK
<1>9. /\ \A t \in Seqs \ {s} : Untouched(t)
      /\ tokens' = tokens /\ ~compressed'[s] /\ ~Resident(s)' /\ index' = index
  BY <1>1, <1>2, <1>8, ReleaseEffect DEF CancelOp
<1>10. \A t \in Seqs \ {s} : SamePlace(t) /\ (t \in Range(running') <=> t \in Range(running))
  BY <1>1, <1>3, <1>4, <1>5, <1>6 DEF SamePlace
<1>11. Idle(s)' /\ KeysAligned'
  BY <1>2, <1>8, <1>9 DEF Idle, KeysAligned
<1>12. \A t \in Seqs : ~Aborting(t)' /\ ~Finishing(t)' /\ ~Popped(t)'
  BY DEF Aborting, Finishing, Popped, Decoding
<1>13. QueuedAt(s)'
  BY <1>3, <1>4, <1>5, <1>6, <1>12 DEF QueuedAt
<1>14. RequestAt(s)'
  <2>1. RequestAt(s)
    BY <1>2 DEF RequestInv
  <2> QED
    BY <1>3, <1>5, <1>6, <1>9, <2>1 DEF RequestAt
<1>15. (pc \in Outside /\ pc' \in Outside) \/ (pc = "failActive" /\ pc' = "failActive")
  BY DEF Outside
<1>16. SchedInv'
  BY <1>1, <1>3, <1>4, <1>7, <1>9, <1>10, <1>11, <1>13, <1>14, <1>15, OuterTouched
<1> QED
  BY <1>1, <1>16 DEF Cancel

\* A restore that ended, well or badly, sends its request back to the queue.
LEMMA RestoreReturns ==
    ASSUME SchedInv, NEW s \in Seqs, pc \in {"step", "waitAny"}, pc' = "step", s \in DOMAIN pending,
           pending' = Pop(pending, s), status' = [status EXCEPT ![s] = "waiting"],
           UNCHANGED <<running, attempted, inPrefill, loop>>,
           waiting' \in Seq(Seqs), Range(waiting') = Range(waiting) \cup {s},
           s \notin Range(waiting) => IsInjective(waiting'),
           \A t \in Seqs \ {s} : Untouched(t), Idle(s)', WaitingAt(s)', ~compressed'[s],
           tokens' = tokens, KeysAligned'
    PROVE  SchedInv'
<1>1. pc \in Outside /\ pc' \in Outside
  BY DEF Outside
<1>2. QueueTyped /\ QueueInv /\ RequestAt(s) /\ QueuedAt(s)
  BY DEF SchedInv, CoreInv, QueueInv, RequestInv
<1>3. \A t \in Seqs : /\ ~Aborting(t) /\ ~Finishing(t) /\ ~Popped(t)
                      /\ ~Aborting(t)' /\ ~Finishing(t)' /\ ~Popped(t)'
  BY DEF Aborting, Finishing, Popped, Decoding
<1>4. status[s] = "waiting_for_kv" /\ s \notin Range(waiting) /\ s \notin Range(running)
  BY <1>2, <1>3 DEF QueuedAt
<1>5. /\ DOMAIN pending' = DOMAIN pending \ {s} /\ DOMAIN pending' \subseteq Seqs
      /\ pending' \in [DOMAIN pending' -> Nat]
      /\ \A t \in DOMAIN pending \ {s} : pending'[t] = pending[t]
  BY <1>2, PopPending
<1>6. /\ status' \in [Seqs -> Statuses] /\ status'[s] = "waiting"
      /\ \A t \in Seqs \ {s} : status'[t] = status[t]
  BY <1>2 DEF QueueTyped, Statuses
<1>7. QueueTyped'
  BY <1>1, <1>2, <1>5, <1>6 DEF QueueTyped
<1>8. \A t \in Seqs \ {s} : SamePlace(t) /\ (t \in Range(running') <=> t \in Range(running))
  BY <1>5, <1>6 DEF SamePlace
<1>9. QueuedAt(s)'
  BY <1>3, <1>4, <1>5, <1>6 DEF QueuedAt
<1>10. RequestAt(s)'
  BY <1>2, <1>4, <1>5, <1>6 DEF RequestAt
<1>11. IsInjective(waiting') /\ IsInjective(running')
  BY <1>2, <1>4 DEF QueueInv
<1> QED
  BY <1>1, <1>6, <1>7, <1>8, <1>9, <1>10, <1>11, OuterTouched

LEMMA FailRestoreKeeps ==
    ASSUME IndInv, SchedInv, NEW s \in Seqs, FailRestore(s)
    PROVE  SchedInv' /\ Deallocate(s)
<1>1. /\ pc \in {"step", "waitAny"} /\ pc' = "step" /\ s \in DOMAIN pending
      /\ DeallocateOp(s) /\ pending' = Pop(pending, s) /\ waiting' = <<s>> \o waiting
      /\ status' = [status EXCEPT ![s] = "waiting"]
      /\ UNCHANGED <<running, attempted, inPrefill, loop>>
  BY DEF FailRestore
<1>2. QueueTyped /\ QueueInv /\ KeysAligned /\ TypeOK
  BY DEF SchedInv, CoreInv, IndInv
<1>3. Idle(s)
  BY <1>1, OutsideIdle DEF Outside
<1>4. /\ waiting' \in Seq(Seqs) /\ Range(waiting') = Range(waiting) \cup {s}
      /\ s \notin Range(waiting) => IsInjective(waiting')
  BY <1>1, <1>2, PushToQueue DEF QueueTyped, QueueInv
<1>5. ReleaseAll(s) /\ numScheduled' = numScheduled /\ numScheduled' \in [Seqs -> Nat]
  BY <1>1, <1>2 DEF DeallocateOp, TypeOK
<1>6. /\ \A t \in Seqs \ {s} : Untouched(t)
      /\ tokens' = tokens /\ ~compressed'[s] /\ ~Resident(s)' /\ numCached'[s] = 0
      /\ index' = index
  BY <1>2, <1>5, ReleaseEffect
<1>7. Len(tokens[s]) \in Nat /\ Len(tokens[s]) > 0
  BY TableSizes DEF IndInv
<1>8. Idle(s)' /\ WaitingAt(s)' /\ KeysAligned'
  BY <1>2, <1>3, <1>5, <1>6, <1>7 DEF Idle, WaitingAt, KeysAligned
<1>9. SchedInv'
  BY <1>1, <1>4, <1>6, <1>8, RestoreReturns
<1> QED
  BY <1>1, <1>3, <1>9 DEF Deallocate

LEMMA CompleteRestoreKeeps ==
    ASSUME IndInv, SchedInv, NEW s \in Seqs, CompleteRestore(s)
    PROVE  SchedInv' /\ \E n \in 1..CacheableBlocks(s) : CommitRestoredPrefix(s, n)
<1>1. /\ pc \in {"step", "waitAny"} /\ pc' = "step" /\ s \in DOMAIN pending
      /\ CommitRestoredPrefixOp(s, pending[s]) /\ pending' = Pop(pending, s)
      /\ waiting' = Append(waiting, s) /\ status' = [status EXCEPT ![s] = "waiting"]
      /\ UNCHANGED <<running, attempted, inPrefill, loop>>
  BY DEF CompleteRestore
<1>2. QueueTyped /\ QueueInv /\ KeysAligned /\ TypeOK /\ TableInv /\ QueuedAt(s) /\ RequestAt(s)
  BY DEF SchedInv, CoreInv, IndInv, QueueInv, RequestInv
<1>3. Idle(s)
  BY <1>1, OutsideIdle DEF Outside
<1>4. /\ waiting' \in Seq(Seqs) /\ Range(waiting') = Range(waiting) \cup {s}
      /\ s \notin Range(waiting) => IsInjective(waiting')
  BY <1>1, <1>2, AppendToQueue DEF QueueTyped, QueueInv
<1>5. ~compressed[s]
  <2>1. ~Finishing(s) /\ status[s] = "waiting_for_kv"
    BY <1>1, <1>2 DEF Finishing, QueuedAt
  <2> QED
    BY <1>2, <2>1 DEF RequestAt
<1>6. PICK n \in Nat : n = pending[s]
  BY <1>1, <1>2 DEF QueueTyped
<1>7. /\ Retained(s) = NumBlocks(s) /\ numCached[s] % BlockSize = 0
      /\ numCached[s] \div BlockSize < n /\ n <= CacheableBlocks(s)
  BY <1>1, <1>2, <1>6 DEF RequestAt, PendingAt
<1>8. numCached[s] \div BlockSize \in Nat /\ CacheableBlocks(s) \in Nat
      /\ CacheableBlocks(s) < NumBlocks(s) /\ NumBlocks(s) \in Nat
  <2>1. numCached[s] \in Nat
    BY <1>2 DEF TypeOK
  <2> QED
    BY <1>2, <2>1, TableSizes, DivPage
<1>9. n \in 1..CacheableBlocks(s) /\ n < NumBlocks(s)
  BY <1>7, <1>8
<1>10. CommitRestoredPrefix(s, n)
  BY <1>1, <1>3, <1>5, <1>6, <1>7, <1>9 DEF CommitRestoredPrefix
<1>11. /\ numCached' = [numCached EXCEPT ![s] = n * BlockSize]
       /\ numPhysical' = [numPhysical EXCEPT ![s] = n * BlockSize]
       /\ UNCHANGED <<tokens, blockTable, numScheduled, logical, compressed>>
  BY <1>1, <1>6 DEF CommitRestoredPrefixOp
<1>12. \A t \in Seqs \ {s} : Untouched(t)
  BY <1>2, <1>11 DEF Untouched, TypeOK
<1>13. KeysAligned'
  <2>1. PICK lo : Published(s, lo, n)
    BY <1>9, <1>10, CommitPublishes
  <2>2. \A i \in 1..n : i * BlockSize <= Len(tokens[s])
    <3> SUFFICES ASSUME NEW i \in 1..n PROVE i * BlockSize <= Len(tokens[s])
      OBVIOUS
    <3>1. i \in 0..CacheableBlocks(s)
      BY <1>8, <1>9
    <3>2. i * BlockSize \in Nat /\ i * BlockSize < Len(tokens[s])
      BY <1>2, <3>1, CacheableKey
    <3>3. Len(tokens[s]) \in Nat
      BY <1>2, TableSizes
    <3> QED
      BY <3>2, <3>3
  <2> QED
    BY <1>2, <2>1, <2>2, PublishedKeys
<1>14. WaitingAt(s)'
  <2>1. n \in 0..CacheableBlocks(s)
    BY <1>8, <1>9
  <2>2. n * BlockSize < Len(tokens[s])
    BY <1>2, <2>1, CacheableKey
  <2>3. numCached'[s] = n * BlockSize
    BY <1>2, <1>11 DEF TypeOK
  <2>4. Retained(s)' = Retained(s) /\ NumBlocks(s)' = NumBlocks(s)
    BY <1>11 DEF Retained, NumBlocks
  <2> QED
    BY <1>7, <1>8, <1>11, <2>2, <2>3, <2>4 DEF WaitingAt
<1>15. Idle(s)' /\ ~compressed'[s]
  BY <1>3, <1>5, <1>11 DEF Idle
<1>16. SchedInv'
  BY <1>1, <1>4, <1>11, <1>12, <1>13, <1>14, <1>15, RestoreReturns
<1> QED
  BY <1>9, <1>10, <1>16

\* A finished request gives its pages back and leaves the running queue.
LEMMA FinishKeeps ==
    ASSUME IndInv, SchedInv, Finish
    PROVE  SchedInv' /\ \E s \in Seqs : Deallocate(s)
<1>1. /\ pc = "finish" /\ pc' = "post" /\ pc \in Executing /\ pc' \in Executing
      /\ UNCHANGED <<status, waiting, pending, attempted, inPrefill, loop>>
  BY DEF Finish, Executing
<1>2. /\ QueueTyped /\ QueueInv /\ BatchInv /\ RunInv /\ RequestInv /\ NoOrphanPages /\ KeysAligned
      /\ TypeOK /\ Scheduled \subseteq Seqs /\ loop.isPrefill \in BOOLEAN
  BY LocalTypes DEF SchedInv, CoreInv, IndInv
<1>3. PICK s \in Seqs : s = loop.cur /\ s \notin Scheduled
  BY <1>1 DEF SchedInv, CurInv
<1>4. PICK p \in BOOLEAN : p = loop.isPrefill
  BY <1>2
<1>5. DeallocateOp(s) /\ running' = RemoveFirst(running, s)
  BY <1>3 DEF Finish
<1>6. /\ pc # "failActive" /\ pc \notin Decoding /\ pc' # "failActive" /\ pc' \notin Decoding
      /\ pc' \notin Prefilling /\ pc' \notin Outside /\ pc' \notin Choosing
  BY <1>1 DEF Prefilling, Choosing, Decoding, Outside
<1>7. Idle(s)
  BY <1>2, <1>3, <1>6 DEF BatchInv
<1>8. /\ running' \in Seq(Seqs) /\ Range(running') = Range(running) \ {s} /\ IsInjective(running')
  BY <1>2, <1>5, RemoveFromQueue DEF QueueTyped, QueueInv
<1>9. ReleaseAll(s) /\ numScheduled' = numScheduled /\ numScheduled' \in [Seqs -> Nat]
  BY <1>2, <1>5 DEF DeallocateOp, TypeOK
<1>10. /\ \A t \in Seqs \ {s} : Untouched(t)
       /\ tokens' = tokens /\ ~compressed'[s] /\ ~Resident(s)' /\ index' = index /\ kv' = kv
  BY <1>2, <1>9, ReleaseEffect
<1>11. /\ \A t \in Seqs : /\ ~Aborting(t) /\ ~Popped(t) /\ ~Aborting(t)' /\ ~Popped(t)'
                          /\ ~Finishing(t)' /\ (Finishing(t) <=> t = s)
  BY <1>1, <1>3, <1>6 DEF Aborting, Popped, Finishing
<1>12. status[s] = "finished" /\ s \notin Range(waiting) /\ s \notin DOMAIN pending
  BY <1>2, <1>11 DEF QueueInv, QueuedAt
<1>13. QueueTyped'
  BY <1>1, <1>2, <1>8 DEF QueueTyped, Executing
<1>14. QueueInv'
  <2>1. QueuedAt(s)'
    BY <1>1, <1>8, <1>11, <1>12 DEF QueuedAt
  <2>2. \A t \in Seqs \ {s} : QueuedAt(t)'
    BY <1>1, <1>2, <1>8, <1>11 DEF QueueInv, QueuedAt
  <2>3. \A t \in Seqs : QueuedAt(t)'
    BY <2>1, <2>2
  <2> QED
    BY <1>1, <1>2, <1>8, <2>3 DEF QueueInv
<1>15. RequestInv'
  <2>1. ASSUME NEW t \in Seqs \ {s} PROVE RequestAt(t)'
    <3>1. SamePlace(t) /\ Untouched(t) /\ ~Finishing(t) /\ RequestAt(t)
      BY <1>1, <1>2, <1>10, <1>11 DEF SamePlace, RequestInv
    <3> QED
      BY <3>1, RequestKept
  <2>2. RequestAt(s)
    BY <1>2 DEF RequestInv
  <2>3. RequestAt(s)'
    BY <1>1, <1>10, <1>12, <2>2 DEF RequestAt
  <2> QED
    BY <2>1, <2>3 DEF RequestInv
<1>16. NoOrphanPages'
  <2> SUFFICES ASSUME NEW t \in Seqs, Resident(t)'
               PROVE  status'[t] \in {"waiting", "running", "waiting_for_kv"}
    BY DEF NoOrphanPages
  <2>1. t # s
    BY <1>10
  <2>2. Resident(t)
    BY <1>10, <2>1, SameRequest
  <2> QED
    BY <1>1, <1>2, <1>3, <2>1, <2>2 DEF NoOrphanPages
<1>17. BatchInv'
  <2>0. Scheduled' = Scheduled
    BY <1>1 DEF Scheduled
  <2>1. ASSUME NEW t \in Scheduled
        PROVE  /\ p => PrefillMember(t)'
               /\ ~p => DecodeMember(t)'
    <3>1. t \in Seqs \ {s} /\ Untouched(t)
      BY <1>2, <1>3, <1>10
    <3>2. /\ p => PrefillMember(t)
          /\ ~p => DecodeMember(t)
      BY <1>1, <1>2, <1>4 DEF BatchInv
    <3> QED
      BY <1>1, <3>1, <3>2, MemberKept
  <2>2. ASSUME NEW t \in Seqs, ~Idle(t)' PROVE t \in Scheduled
    <3>1. ~Idle(t)
      BY <1>9, <2>2 DEF Idle
    <3> QED
      BY <1>2, <1>6, <3>1 DEF BatchInv
  <2> QED
    BY <1>1, <1>4, <1>6, <2>0, <2>1, <2>2 DEF BatchInv
<1>18. RunInv'
  <2> SUFFICES ASSUME NEW t \in Scheduled', NEW w \in KVWrites({t}, loop.isPrefill)'
               PROVE  kv'[w.block][w.slot] = w.prefix
    BY DEF RunInv
  <2>1. t \in Scheduled /\ t \in Seqs \ {s} /\ Untouched(t)
    BY <1>1, <1>2, <1>3, <1>10 DEF Scheduled
  <2>2. w \in KVWrites({t}, p)
    <3>1. KVWrites({t}, p)' = KVWrites({t}, p)
      BY <2>1, SameWrites
    <3>2. KVWrites({t}, loop.isPrefill)' = KVWrites({t}, p)'
      BY <1>1, <1>4 DEF KVWrites, PageFor
    <3> QED
      BY <3>1, <3>2
  <2> QED
    BY <1>1, <1>2, <1>4, <1>10, <2>1, <2>2 DEF RunInv
<1>19. KeysAligned'
  BY <1>2, <1>10 DEF KeysAligned
<1>20. CurInv'
  BY <1>1 DEF CurInv, Choosing
<1>21. Deallocate(s)
  BY <1>5, <1>7 DEF Deallocate
<1> QED
  BY <1>13, <1>14, <1>15, <1>16, <1>17, <1>18, <1>19, <1>20, <1>21 DEF SchedInv, CoreInv

---------------------------------------------------------------------------
(* The whole engine *)

LEMMA InitSched ==
    ASSUME Init
    PROVE  SInv
<1>1. /\ BMInit /\ status = [s \in Seqs |-> "new"] /\ waiting = <<>> /\ running = <<>>
      /\ pending = <<>> /\ attempted = [s \in Seqs |-> FALSE]
      /\ inPrefill = [s \in Seqs |-> TRUE] /\ pc = "idle" /\ loop = Fresh
  BY DEF Init
<1>2. IndInv
  BY <1>1, InitHolds
<1>3. /\ \A s \in Seqs : /\ blockTable[s] = <<>> /\ numScheduled[s] = 0 /\ ~compressed[s]
                         /\ tokens[s] = Prompt[s]
      /\ DOMAIN index = {}
  <2>1. /\ tokens = Prompt /\ blockTable = [s \in Seqs |-> <<>>]
        /\ numScheduled = [s \in Seqs |-> 0] /\ compressed = [s \in Seqs |-> FALSE]
        /\ index = <<>>
    BY <1>1 DEF BMInit
  <2>2. DOMAIN <<>> = {}
    OBVIOUS
  <2> QED
    BY <2>1, <2>2
<1>4. /\ <<>> \in Seq(Seqs) /\ DOMAIN <<>> = {} /\ Range(<<>>) = {} /\ IsInjective(<<>>)
      /\ Fresh \in Locals /\ Fresh.scheduled = <<>> /\ ~Fresh.isPrefill
  <2>1. DOMAIN <<>> = {} /\ <<>> \in Seq(Seqs)
    OBVIOUS
  <2> QED
    BY <2>1, FreshTyped DEF Range
<1>5. Scheduled = {} /\ \A s \in Seqs : ~Aborting(s) /\ ~Finishing(s) /\ ~Popped(s)
  BY <1>1, <1>4 DEF Scheduled, Aborting, Finishing, Popped, Decoding
<1>6. QueueTyped
  <2>1. pending \in [DOMAIN pending -> Nat]
    BY <1>1, <1>4
  <2> QED
    BY <1>1, <1>4, <2>1 DEF QueueTyped, Statuses, Outside
<1>7. QueueInv
  <2>1. \A s \in Seqs : QueuedAt(s)
    BY <1>1, <1>4, <1>5 DEF QueuedAt
  <2> QED
    BY <1>1, <1>4, <2>1 DEF QueueInv
<1>8. BatchInv
  BY <1>1, <1>3, <1>5 DEF BatchInv, Idle, Outside, Prefilling, Choosing, Decoding, Executing
<1>9. RunInv /\ CurInv
  BY <1>1 DEF RunInv, CurInv, Choosing
<1>10. RequestInv
  <2> SUFFICES ASSUME NEW s \in Seqs PROVE RequestAt(s)
    BY DEF RequestInv
  <2>1. Len(Prompt[s]) \in Nat /\ MaxTokens[s] \in Nat \ {0}
    BY PromptAssumption, AdmissionAssumption, LenProperties
  <2>2. Len(Prompt[s]) < Len(Prompt[s]) + MaxTokens[s]
    BY <2>1
  <2>3. /\ s \notin Range(waiting) /\ s \notin DOMAIN pending /\ status[s] = "new"
        /\ inPrefill[s] /\ ~compressed[s] /\ tokens[s] = Prompt[s]
    BY <1>1, <1>3, <1>4
  <2> QED
    BY <2>1, <2>2, <2>3 DEF RequestAt
<1>11. NoOrphanPages /\ KeysAligned
  BY <1>3 DEF NoOrphanPages, Resident, KeysAligned
<1> QED
  BY <1>2, <1>6, <1>7, <1>8, <1>9, <1>10, <1>11 DEF SInv, SchedInv, CoreInv

\* The scheduler's queries are made as the block manager expects them.
LEMMA PlansAllowed ==
    ASSUME SchedInv, TryAllocate \/ EnsureResume
    PROVE  \E s \in Seqs : PlanAllocation(s) \/ PlanResume(s)
<1>1. CASE TryAllocate
  <2>1. pc = "allocate" /\ pc \in Choosing
    BY <1>1 DEF TryAllocate, Choosing
  <2>2. PICK s \in Seqs : s = loop.cur
    BY <2>1, CurrentIdle
  <2>3. CanAllocateOp(s) \/ ForgetPlanOp(s)
    BY <1>1, <2>2 DEF TryAllocate
  <2>4. blockTable[s] = <<>>
    BY <2>1, <2>2 DEF SchedInv, CurInv, Resident
  <2> QED
    BY <2>3, <2>4 DEF PlanAllocation
<1>2. CASE EnsureResume
  <2>1. pc = "ensure" /\ pc \in Choosing \ {"abortRestore"}
    BY <1>2 DEF EnsureResume, Choosing
  <2>2. PICK s \in Seqs : s = loop.cur /\ s \in Range(waiting)
    BY <2>1, CurrentIdle
  <2>3. CanResumeOp(s) \/ CannotResumeOp(s)
    BY <1>2, <2>2 DEF EnsureResume
  <2>4. ~compressed[s]
    BY <2>1, <2>2, WaitingUncompressed
  <2> QED
    BY <2>3, <2>4 DEF PlanResume
<1> QED
  BY <1>1, <1>2

\* Every step of the engine, the transfers and the worker keeps SchedInv and is
\* a step of the block manager's contract, or none of its business.
LEMMA PrefillStepKeeps ==
    ASSUME IndInv, SchedInv, PrefillStep
    PROVE  SchedInv' /\ [BMNext]_bmVars
<1>1. CASE Schedule_
  <2>1. UNCHANGED bmVars
    BY <1>1 DEF Schedule_
  <2> QED
    BY <1>1, <2>1, ScheduleKeepsQueues
<1>2. CASE SelectPrefill
  <2>1. UNCHANGED bmVars
    BY <1>2 DEF SelectPrefill
  <2> QED
    BY <1>2, <2>1, SelectPrefillKeeps
<1>3. CASE EnsureResume
  <2>1. BMNext
    BY <1>3, PlansAllowed DEF BMNext
  <2> QED
    BY <1>3, <2>1, EnsureResumeKeeps
<1>4. CASE EvictRetained
  <2>1. SchedInv' /\ (UNCHANGED bmVars \/ \E v \in Seqs : ReclaimSuffix(v, 0))
    BY <1>4, EvictRetainedKeeps
  <2>2. ASSUME NEW v \in Seqs, ReclaimSuffix(v, 0) PROVE BMNext
    <3>1. Retained(v) \in Nat
      BY TableSizes DEF IndInv
    <3>2. 0 \in 0..Retained(v)
      BY <3>1
    <3> QED
      BY <2>2, <3>2, Zenon DEF BMNext
  <2> QED
    BY <2>1, <2>2
<1>5. CASE Resume_
  <2>1. SchedInv' /\ \E s \in Seqs : Resume(s)
    BY <1>5, ResumeKeeps
  <2> QED
    BY <2>1, Zenon DEF BMNext
<1>6. CASE TryAllocate
  <2>1. BMNext
    BY <1>6, PlansAllowed DEF BMNext
  <2> QED
    BY <1>6, <2>1, TryAllocateKeeps
<1>7. CASE SkipRestore
  <2>1. UNCHANGED bmVars
    BY <1>7 DEF SkipRestore
  <2> QED
    BY <1>7, <2>1, SkipRestoreKeeps
<1>8. CASE StartRestore \/ ReserveThenRaise
  <2>1. SchedInv' /\ \E s \in Seqs : \E n \in 0..CacheableBlocks(s) : Allocate(s, n, 0)
    BY <1>8, StartRestoreKeeps, ReserveThenRaiseKeeps
  <2>2. 0 \in 0..MaxLen
    BY MaxLenAssumption
  <2>3. BMNext
    BY <2>1, <2>2, Zenon DEF BMNext
  <2> QED
    BY <2>1, <2>3
<1>9. CASE AbortRestore
  <2>1. SchedInv' /\ \E s \in Seqs : Deallocate(s)
    BY <1>9, AbortRestoreKeeps
  <2> QED
    BY <2>1, Zenon DEF BMNext
<1>10. CASE Admit
  <2>1. /\ SchedInv'
        /\ \/ UNCHANGED bmVars
           \/ \E s \in Seqs : \E k \in 1..MaxLen : Schedule(s, k)
           \/ \E s \in Seqs : \E n \in 0..CacheableBlocks(s), k \in 0..MaxLen : Allocate(s, n, k)
    BY <1>10, AdmitKeeps
  <2> QED
    BY <2>1, Zenon DEF BMNext
<1> QED
  BY <1>1, <1>2, <1>3, <1>4, <1>5, <1>6, <1>7, <1>8, <1>9, <1>10 DEF PrefillStep

LEMMA EngineKeeps ==
    ASSUME IndInv, SchedInv, Engine
    PROVE  SchedInv' /\ [BMNext]_bmVars
<1>1. CASE StartStep
  <2>1. UNCHANGED bmVars
    BY <1>1 DEF StartStep
  <2> QED
    BY <1>1, <2>1, StartStepKeeps
<1>2. CASE PrefillStep
  BY <1>2, PrefillStepKeeps
<1>3. CASE SelectDecode
  <2>1. /\ SchedInv'
        /\ \/ UNCHANGED bmVars
           \/ \E s \in Seqs : \E keep \in KeepLists(Retained(s)) : Compress(s, keep)
    BY <1>3, SelectDecodeKeeps
  <2> QED
    BY <2>1, Zenon DEF BMNext
<1>4. CASE AppendPressure
  <2>1. /\ SchedInv'
        /\ \E v \in Seqs : Deallocate(v) \/ \E keep \in 0..Retained(v) : ReclaimSuffix(v, keep)
    BY <1>4, AppendPressureKeeps
  <2> QED
    BY <2>1, Zenon DEF BMNext
<1>5. CASE Append_
  <2>1. SchedInv' /\ \E s \in Seqs : MayAppend(s)
    BY <1>5, AppendKeeps
  <2> QED
    BY <2>1, Zenon DEF BMNext
<1>6. CASE DecodeEnd
  <2>1. UNCHANGED bmVars
    BY <1>6 DEF DecodeEnd
  <2> QED
    BY <1>6, <2>1, DecodeEndKeeps
<1>7. CASE RunModel
  <2>1. SchedInv' /\ \E S \in SUBSET Seqs, p \in BOOLEAN : Run(S, p)
    BY <1>7, RunModelKeeps
  <2> QED
    BY <2>1, Zenon DEF BMNext
<1>8. CASE PostprocessOne
  <2>1. SchedInv' /\ \E s \in Seqs : \E p \in BOOLEAN, x \in Sampled : Postprocess(s, p, x)
    BY <1>8, PostprocessOneKeeps
  <2> QED
    BY <2>1, Zenon DEF BMNext
<1>9. CASE Finish
  <2>1. SchedInv' /\ \E s \in Seqs : Deallocate(s)
    BY <1>9, FinishKeeps
  <2> QED
    BY <2>1, Zenon DEF BMNext
<1>10. CASE EndStep
  <2>1. UNCHANGED bmVars
    BY <1>10 DEF EndStep
  <2> QED
    BY <1>10, <2>1, EndStepKeeps
<1>11. CASE FailEnd
  <2>1. UNCHANGED bmVars
    BY <1>11 DEF FailEnd
  <2> QED
    BY <1>11, <2>1, FailEndKeeps
<1>12. CASE \E s \in Seqs : FailActive(s)
  <2>1. PICK s \in Seqs : FailActive(s)
    BY <1>12
  <2>2. SchedInv' /\ Cancel(s)
    BY <2>1, CancelKeeps DEF FailActive
  <2> QED
    BY <2>2, Zenon DEF BMNext
<1> QED
  BY <1>1, <1>2, <1>3, <1>4, <1>5, <1>6, <1>7, <1>8, <1>9, <1>10, <1>11, <1>12
     DEF Engine, DecodeStep, RunStep

LEMMA StepKeeps ==
    ASSUME IndInv, SchedInv, [Next]_vars
    PROVE  SchedInv' /\ [BMNext]_bmVars
<1>1. CASE Engine
  BY <1>1, EngineKeeps
<1>2. CASE Transfers
  <2>1. PICK s \in Seqs : CompleteRestore(s) \/ FailRestore(s)
    BY <1>2 DEF Transfers
  <2>2. /\ SchedInv'
        /\ Deallocate(s) \/ \E n \in 1..CacheableBlocks(s) : CommitRestoredPrefix(s, n)
    BY <2>1, CompleteRestoreKeeps, FailRestoreKeeps
  <2> QED
    BY <2>2, Zenon DEF BMNext
<1>3. CASE Client
  <2>1. PICK s \in Seqs : Add(s) \/ CancelIdle(s)
    BY <1>3 DEF Client
  <2>2. CASE Add(s)
    BY <2>2, AddKeeps
  <2>3. CASE CancelIdle(s)
    <3>1. SchedInv' /\ Cancel(s)
      BY <2>3, CancelKeeps DEF CancelIdle
    <3> QED
      BY <3>1, Zenon DEF BMNext
  <2> QED
    BY <2>1, <2>2, <2>3
<1>4. CASE RunRaises
  <2>1. UNCHANGED bmVars
    BY <1>4 DEF RunRaises
  <2> QED
    BY <1>4, <2>1, RunRaisesKeeps
<1>5. CASE UNCHANGED vars
  <2>1. UNCHANGED <<bmVars, schedVars, pc, loop>>
    BY <1>5 DEF vars
  <2>2. UNCHANGED <<tokens, blockTable, numCached, numPhysical, numScheduled, logical, compressed,
                    freeBlocks, usedBlocks, index, kv, pendingMatches, pendingResume, blockHash,
                    status, waiting, running, pending, attempted, inPrefill, pc, loop>>
    BY <2>1 DEF bmVars, seqVars, poolVars, planVars, schedVars
  <2>3. QueueTyped' <=> QueueTyped
    BY <2>2 DEF QueueTyped
  <2>4. QueueInv' <=> QueueInv
    BY <2>2 DEF QueueInv, QueuedAt, Aborting, Finishing, Popped, Scheduled
  <2>5. BatchInv' <=> BatchInv
    BY <2>2 DEF BatchInv, Scheduled, PrefillMember, DecodeMember, Idle, NewestMissing
  <2>6. RunInv' <=> RunInv
    BY <2>2 DEF RunInv, Scheduled, KVWrites, PageFor, ScheduledPositions, Retained
  <2>7. RequestInv' <=> RequestInv
    BY <2>2 DEF RequestInv, RequestAt, WaitingAt, PendingAt, Finishing, Resident, Retained, Idle,
                NumBlocks, CacheableBlocks, DecodeReady, NewestMissing
  <2>8. (NoOrphanPages' <=> NoOrphanPages) /\ (KeysAligned' <=> KeysAligned)
    BY <2>2 DEF NoOrphanPages, KeysAligned, Resident
  <2>9. ASSUME NEW s
        PROVE  /\ LookupCachedBlocks(s)' = LookupCachedBlocks(s)
               /\ CanAllocate(s)' <=> CanAllocate(s)
               /\ AllocatePlan(s, loop.hit)' = AllocatePlan(s, loop.hit)
               /\ ResumeSuffix(s)' = ResumeSuffix(s)
               /\ CanResume(s)' <=> CanResume(s)
    <3>1. LookupCachedBlocks(s)' = LookupCachedBlocks(s)
      BY <2>2 DEF LookupCachedBlocks, MatchLength, Hit, ChainKey, CacheableBlocks, NumBlocks
    <3>2. ResumeSuffix(s)' = ResumeSuffix(s)
      BY <2>2, <3>1 DEF ResumeSuffix, Retained
    <3>3. AllocatePlan(s, loop.hit)' = AllocatePlan(s, loop.hit)
      BY <2>2, <3>1 DEF AllocatePlan
    <3>4. CanAllocate(s)' <=> CanAllocate(s)
      BY <2>2, <3>1 DEF CanAllocate, PlannedAllocationPages, NumBlocks, InUse
    <3>5. CanResume(s)' <=> CanResume(s)
      BY <2>2, <3>2 DEF CanResume, NumBlocks, Retained, InUse
    <3> QED
      BY <3>1, <3>2, <3>3, <3>4, <3>5
  <2>10. CurInv'
    <3>1. CurInv
      BY DEF SchedInv
    <3>2. PICK c : c = loop.cur
      OBVIOUS
    <3>3. /\ Planned(c)' <=> Planned(c)
          /\ Reserved(c)' <=> Reserved(c)
      BY <2>2, <2>9 DEF Planned, Reserved, Retained, NumBlocks
    <3>4. /\ ResumeSuffix(c)' = ResumeSuffix(c)
          /\ CanResume(c)' <=> CanResume(c)
      BY <2>9
    <3>5. /\ Resident(c)' <=> Resident(c)
          /\ Retained(c)' = Retained(c) /\ NumBlocks(c)' = NumBlocks(c)
      BY <2>2 DEF Resident, Retained, NumBlocks
    <3> QED
      BY <2>2, <3>1, <3>2, <3>3, <3>4, <3>5 DEF CurInv, Scheduled
  <2>11. SchedInv'
    BY <2>3, <2>4, <2>5, <2>6, <2>7, <2>8, <2>10 DEF SchedInv, CoreInv
  <2> QED
    BY <2>1, <2>11
<1> QED
  BY <1>1, <1>2, <1>3, <1>4, <1>5 DEF Next, Quiet

---------------------------------------------------------------------------
(* Theorems *)

\* SInv relates the queues, the statuses, the batch and the handler's locals to
\* the tables of the block manager, at every point of _schedule_once, of run and
\* of postprocess.
THEOREM SchedulerInvariance == Spec => []SInv
<1>1. Init => SInv
  BY InitSched
<1>2. SInv /\ [Next]_vars => SInv'
  <2> SUFFICES ASSUME SInv, [Next]_vars PROVE SInv'
    OBVIOUS
  <2>1. SchedInv' /\ [BMNext]_bmVars
    BY StepKeeps DEF SInv
  <2>2. IndInv'
    BY <2>1, NextKeeps DEF SInv
  <2> QED
    BY <2>1, <2>2 DEF SInv
<1> QED
  BY <1>1, <1>2, PTL DEF Spec

\* The scheduler uses the block manager as its methods expect to be used: an
\* allocate or resume carries out a plan that still describes the cache,
\* deallocate and reclaim_suffix never take pages from a batch in flight,
\* hash_blocks publishes only pages that were run.  All that BlockManagerProofs
\* shows of BMSpec therefore holds of the engine.
THEOREM SchedulerMeetsContract == Spec => BMSpec
<1>1. Init => BMInit
  BY DEF Init
<1>2. SInv /\ [Next]_vars => [BMNext]_bmVars
  BY StepKeeps DEF SInv
<1> QED
  BY <1>1, <1>2, SchedulerInvariance, PTL DEF Spec, BMSpec

\* What the block manager promises holds of its only caller: under any
\* interleaving of admissions, preemptions, restores and failures no page is
\* leaked or freed early, cached and offered KV is intact, writes are private
\* and decode attends over exactly the mapped tokens.
THEOREM SchedulerKeepsCacheSound ==
    Spec => [](/\ PoolConsistent /\ CachedPrefixIntact /\ IndexedPageIntact
               /\ WritesArePrivate /\ AttentionWindow)
  BY SchedulerMeetsContract, PoolStaysConsistent, CachedPrefixesStayIntact,
     OfferedPagesStayIntact, WritesStayPrivate, WindowStaysAligned, PTL

LEMMA QueuesAgree ==
    ASSUME SInv
    PROVE  QueuesMatchStatus
<1> SUFFICES ASSUME pc \in {"idle", "step", "waitAny", "run", "failActive"}
             PROVE  /\ IsInjective(waiting \o running)
                    /\ \A s \in Seqs :
                        /\ s \in Range(waiting) <=> status[s] = "waiting"
                        /\ s \in Range(running) <=> status[s] = "running"
                        /\ s \in DOMAIN pending <=> status[s] = "waiting_for_kv"
  BY DEF QueuesMatchStatus
<1>1. QueueTyped /\ QueueInv
  BY DEF SInv, SchedInv, CoreInv
<1>2. \A s \in Seqs : ~Aborting(s) /\ ~Finishing(s) /\ ~Popped(s)
  BY DEF Aborting, Finishing, Popped, Decoding
<1>3. \A s \in Seqs : /\ s \in Range(waiting) <=> status[s] = "waiting"
                      /\ s \in Range(running) <=> status[s] = "running"
                      /\ s \in DOMAIN pending <=> status[s] = "waiting_for_kv"
  BY <1>1, <1>2 DEF QueueInv, QueuedAt
<1>4. Range(waiting) \cap Range(running) = {}
  BY <1>1, <1>3, LocalTypes
<1>5. IsInjective(waiting \o running)
  BY <1>1, <1>4, ConcatQueues DEF QueueTyped, QueueInv
<1> QED
  BY <1>3, <1>5

\* Whatever was cancelled, preempted, restored or failed before, a handler
\* starts with every live request in exactly the queue its status names.
THEOREM QueuesStayConsistent == Spec => []QueuesMatchStatus
<1>1. SInv => QueuesMatchStatus
  BY QueuesAgree
<1> QED
  BY <1>1, SchedulerInvariance, PTL

\* Finishing, cancelling, failing a restore or failing a whole engine step
\* leaves no page with a request that is gone.
THEOREM NoPagesOrphaned == Spec => []NoOrphanPages
<1>1. SInv => NoOrphanPages
  BY DEF SInv, SchedInv, CoreInv
<1> QED
  BY <1>1, SchedulerInvariance, PTL

\* A request that was decoding, was preempted and is prefilled again is sent to
\* the other ranks with the tokens that rank 0 prefills.
THEOREM RanksAgree == Spec => []RanksSeeTheTokens
<1>1. SInv => RanksSeeTheTokens
  <2> SUFFICES ASSUME SInv, pc = "run", loop.isPrefill, NEW s \in Scheduled
               PROVE  RemoteTokens(s) = tokens[s] /\ numCached[s] + numScheduled[s] <= Len(tokens[s])
    BY DEF RanksSeeTheTokens
  <2>1. PrefillMember(s)
    BY DEF SInv, SchedInv, CoreInv, BatchInv, Executing
  <2>2. s \in Seqs
    BY LocalTypes DEF SInv, SchedInv, CoreInv
  <2>3. numCached[s] + numScheduled[s] <= Len(tokens[s])
    BY <2>2 DEF SInv, IndInv, TableInv, TableAt
  <2> QED
    BY <2>1, <2>3 DEF PrefillMember, RemoteTokens
<1> QED
  BY <1>1, SchedulerInvariance, PTL

LEMMA PendingHidden ==
    ASSUME SInv, NEW s \in DOMAIN pending, NEW i \in ((numCached[s] \div BlockSize) + 1)..Retained(s)
    PROVE  Holders(blockTable[s][i]) = {s} /\ blockTable[s][i] \notin Range(index)
<1>1. s \in Seqs
  BY DEF SInv, SchedInv, CoreInv, QueueTyped
<1>2. QueuedAt(s) /\ RequestAt(s) /\ TypeOK /\ TableInv /\ TableAt(s) /\ PrivateAt(s)
  BY <1>1 DEF SInv, SchedInv, CoreInv, QueueInv, RequestInv, IndInv, TableInv, OpenPagesPrivate
<1>3. ~compressed[s]
  BY <1>2 DEF QueuedAt, RequestAt
<1>4. /\ numCached[s] \in Nat /\ Retained(s) \in Nat
      /\ numCached[s] \div BlockSize \in Nat
      /\ numCached[s] < ((numCached[s] \div BlockSize) + 1) * BlockSize
  <2>1. numCached[s] \in Nat
    BY <1>1, <1>2 DEF TypeOK
  <2> QED
    BY <1>1, <1>2, <2>1, TableSizes, DivPage
<1>5. i \in 1..Retained(s) /\ i * BlockSize > numCached[s]
  <2>1. PICK d \in Nat : d = numCached[s] \div BlockSize
    BY <1>4
  <2>2. i \in Nat /\ d + 1 <= i /\ i <= Retained(s) /\ d + 1 \in Nat
    BY <1>4, <2>1
  <2>3. (d + 1) * BlockSize \in Nat /\ (d + 1) * BlockSize <= i * BlockSize /\ i * BlockSize \in Nat
    BY <2>2, PageOrder
  <2> QED
    BY <1>4, <2>1, <2>2, <2>3
<1>6. Open(s, i)
  BY <1>2, <1>3, <1>5 DEF TableAt, Whole, Open
<1> QED
  BY <1>2, <1>5, <1>6 DEF PrivateAt, HeldBy, Holders

\* The pages reserve_restore set aside are mapped by no other table and offered
\* by no prefix cache until commit_restored_prefix has filled them.
THEOREM ReservedPagesStayHidden == Spec => []ReservedPagesHidden
<1>1. SInv => ReservedPagesHidden
  BY PendingHidden DEF ReservedPagesHidden
<1> QED
  BY <1>1, SchedulerInvariance, PTL
=============================================================================
