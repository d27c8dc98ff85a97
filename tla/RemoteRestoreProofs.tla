------------------------ MODULE RemoteRestoreProofs ------------------------
(***************************************************************************)
(* Proofs about RemoteRestore, for any set of paths, any number of calls   *)
(* and processes, with or without a backend that drops pages: no catalog,  *)
(* in memory or stored, lists a page that was never written; no page stays *)
(* marked as being written; the stored snapshot is the newest; exit loses  *)
(* no write-back unless something failed or timed out; and a fetch that    *)
(* comes back empty has one of two causes.                                 *)
(***************************************************************************)
EXTENDS RemoteRestore, SequenceTheorems, FiniteSetTheorems, WellFoundedInduction, TLAPS

Stages == {"new", "open", "ok", "missing", "failed"}
Keys == AllPages \cup {CatalogKey}
Call == [op : {"put", "get"}, key : Keys, value : SUBSET AllPages, stage : Stages, task : Nat]
Batch == [path : Paths, writes : SUBSET Nat]
Engines ==
    [pc : {"down", "idle", "flushing", "closed"}]
    \cup [pc : {"publishing"}, path : Paths, puts : SUBSET Nat]
    \cup [pc : {"exporting"}, path : Paths, required : SUBSET AllPages]
    \cup [pc : {"sweeping"}, todo : Seq(Batch), exiting : BOOLEAN]

Calls == 1..Len(io)
Saves == {i \in Calls : io[i].key = CatalogKey}

---------------------------------------------------------------------------
(* The store, the catalogs and the calls *)

StoreTyped ==
    /\ savedCatalog \in {NoCatalog, Unreadable} \cup SUBSET AllPages
    /\ catalog \subseteq AllPages
    /\ io \in Seq(Call)
    /\ hurt \in BOOLEAN

\* A put owns its operation once it has started, and only puts save catalogs.
PutsOwnTasks ==
    \A i \in Calls :
        /\ io[i].stage = "new" => io[i].task = 0
        /\ io[i].op = "put" => io[i].stage # "missing"
        /\ io[i].op = "put" /\ io[i].stage # "new" => io[i].task = i
        /\ io[i].key = CatalogKey => io[i].op = "put"

\* A put that succeeded left its page, and a snapshot lists written pages.
WritesBacked ==
    \A i \in Calls : io[i].op = "put" =>
        /\ io[i].key # CatalogKey /\ io[i].stage = "ok" => io[i].key \in stored \cup lost
        /\ io[i].key = CatalogKey => Merge(io[i].value) \subseteq stored \cup lost

CatalogClosed == \A p \in catalog : Pages(p) \subseteq catalog

\* Calls start in the order of submission, and saves end in it.
InOrderStarts == \A i, j \in Calls : i < j /\ io[i].stage = "new" => io[j].stage = "new"
InOrderSaves == \A i, j \in Saves : i < j /\ Resolved(j) => Resolved(i)

\* The last save carries the catalog; once it succeeded it is what is stored.
LastSave ==
    \A i \in Saves : (\A j \in Saves : j <= i) =>
        /\ io[i].value = Snapshot(catalog)
        /\ io[i].stage = "ok" => savedCatalog = io[i].value

FailuresSeen == hurt \/ \A i \in Calls : ~Failed(i)

StoreInv ==
    /\ StoreTyped /\ PutsOwnTasks /\ WritesBacked /\ CatalogClosed
    /\ CatalogBacked /\ SavedCatalogBacked
    /\ InOrderStarts /\ InOrderSaves /\ LastSave /\ FailuresSeen

---------------------------------------------------------------------------
(* The engine thread and its batches *)

EngineTyped ==
    /\ engine \in Engines
    /\ batches \in Seq(Batch)
    /\ owed \subseteq Paths
    /\ inflight \in [DOMAIN inflight -> Nat]

\* The writes are page puts that, with the catalog, make up the path.
Covers(writes, path) ==
    /\ writes \subseteq Calls
    /\ \A i \in writes : io[i].op = "put" /\ io[i].key # CatalogKey
    /\ \A p \in Pages(path) : p \in catalog \/ \E i \in writes : io[i].key = p

BatchesCover == \A b \in Range(batches) : Covers(b.writes, b.path)

InflightIsPut ==
    \A p \in DOMAIN inflight :
        /\ p # CatalogKey /\ inflight[p] \in Calls
        /\ io[inflight[p]].op = "put" /\ io[inflight[p]].key = p

\* What the engine thread relies on in each of its states.
EngineReady ==
    /\ engine.pc = "publishing" => Covers(engine.puts, engine.path)
    /\ engine.pc = "sweeping" => /\ \A b \in Range(engine.todo) : Covers(b.writes, b.path)
                                 /\ engine.exiting => engine.todo = batches
    /\ engine.pc \in {"flushing", "closed"} => batches = <<>>
    /\ engine.pc = "closed" => hurt \/ \A i \in Calls : Resolved(i)
    /\ engine.pc = "down" => /\ io = <<>> /\ owed = {} /\ batches = <<>>
                             /\ inflight = <<>> /\ hurt = FALSE

\* A path submitted for write-back is in a batch, or registered with a save; a
\* batch gives up only when something failed.
OwedAccounted ==
    hurt \/ \A path \in owed :
        \/ \E b \in Range(batches) : b.path = path
        \/ Pages(path) \subseteq catalog /\ Saves # {}

EngineInv ==
    /\ EngineTyped /\ BatchesCover /\ InflightIsPut /\ InflightOwned
    /\ EngineReady /\ OwedAccounted

IndInv == StoreInv /\ EngineInv


---------------------------------------------------------------------------
(* Pages *)

LEMMA PrefixOfPrefix ==
    ASSUME NEW T, NEW s \in Seq(T), NEW n \in 0..Len(s), NEW m \in 0..n
    PROVE  /\ SubSeq(s, 1, n) \in Seq(T) /\ Len(SubSeq(s, 1, n)) = n
           /\ SubSeq(SubSeq(s, 1, n), 1, m) = SubSeq(s, 1, m)
<1>1. /\ SubSeq(s, 1, n) \in Seq(T) /\ Len(SubSeq(s, 1, n)) = n
      /\ SubSeq(s, 1, m) \in Seq(T) /\ Len(SubSeq(s, 1, m)) = m
  BY SubSeqProperties, LenProperties
<1>2. /\ SubSeq(SubSeq(s, 1, n), 1, m) \in Seq(T)
      /\ Len(SubSeq(SubSeq(s, 1, n), 1, m)) = m
  BY <1>1, SubSeqProperties
<1>3. \A i \in 1..m : SubSeq(SubSeq(s, 1, n), 1, m)[i] = SubSeq(s, 1, m)[i]
  BY <1>1, SubSeqProperties
<1> QED
  BY <1>1, <1>2, <1>3, SeqEqual

LEMMA PagesOfSeq ==
    ASSUME NEW T, NEW s \in Seq(T)
    PROVE  /\ \A q \in Pages(s) : q \in Seq(T) /\ q # <<>> /\ Pages(q) \subseteq Pages(s)
           /\ s # <<>> => s \in Pages(s)
<1>1. Len(s) \in Nat
  BY LenProperties
<1>2. ASSUME NEW q \in Pages(s) PROVE q \in Seq(T) /\ q # <<>> /\ Pages(q) \subseteq Pages(s)
  <2>1. PICK l \in 0..Len(s) : q = SubSeq(s, 1, l) /\ q # <<>>
    BY DEF Pages, Prefixes
  <2>2. q \in Seq(T) /\ Len(q) = l
    BY <1>1, <2>1, PrefixOfPrefix
  <2>3. ASSUME NEW r \in Pages(q) PROVE r \in Pages(s)
    <3>1. PICK k \in 0..Len(q) : r = SubSeq(q, 1, k) /\ r # <<>>
      BY DEF Pages, Prefixes
    <3>2. k \in 0..l /\ k \in 0..Len(s)
      BY <1>1, <2>2, <3>1
    <3>3. r = SubSeq(s, 1, k)
      BY <2>1, <3>1, <3>2, PrefixOfPrefix
    <3> QED
      BY <3>1, <3>2, <3>3 DEF Pages, Prefixes
  <2> QED
    BY <2>1, <2>2, <2>3
<1>3. SubSeq(s, 1, Len(s)) = s /\ Len(s) \in 0..Len(s)
  BY <1>1, SubSeqFull
<1>4. s \in Prefixes(s)
  BY <1>3 DEF Prefixes
<1> QED
  BY <1>2, <1>4 DEF Pages

\* The pages of a path, and of a page, are pages.
LEMMA PagesArePages ==
    /\ CatalogKey \notin AllPages
    /\ \A p \in Paths \cup AllPages :
          /\ p \in Pages(p) /\ Pages(p) \subseteq AllPages
          /\ \A q \in Pages(p) : Pages(q) \subseteq Pages(p)
<1>1. \A p \in Paths : p # <<>> /\ p \in Seq(Range(p))
  BY PathsAssumption
<1>2. ASSUME NEW p \in Paths
      PROVE  /\ p \in Pages(p) /\ Pages(p) \subseteq AllPages
             /\ \A q \in Pages(p) : Pages(q) \subseteq Pages(p) /\ q # <<>> /\ q \in Seq(Range(p))
  BY <1>1, PagesOfSeq DEF AllPages
<1>3. ASSUME NEW q \in AllPages
      PROVE  /\ q # <<>> /\ q \in Pages(q) /\ Pages(q) \subseteq AllPages
             /\ \A r \in Pages(q) : Pages(r) \subseteq Pages(q)
  <2>1. PICK p \in Paths : q \in Pages(p)
    BY DEF AllPages
  <2>2. q # <<>> /\ q \in Seq(Range(p)) /\ Pages(q) \subseteq Pages(p)
    BY <1>2, <2>1
  <2> QED
    BY <1>2, <2>2, PagesOfSeq
<1> QED
  BY <1>2, <1>3 DEF CatalogKey

LEMMA MergeIsPages ==
    ASSUME NEW saved \in {NoCatalog, Unreadable} \cup SUBSET AllPages
    PROVE  /\ Merge(saved) \subseteq AllPages
           /\ \A p \in Merge(saved) : Pages(p) \subseteq Merge(saved)
<1>1. CASE saved \in {NoCatalog, Unreadable}
  BY <1>1 DEF Merge
<1>2. CASE saved \notin {NoCatalog, Unreadable}
  <2>1. Merge(saved) = UNION {Pages(p) : p \in saved} /\ saved \subseteq AllPages
    BY <1>2 DEF Merge
  <2>2. ASSUME NEW q \in Merge(saved) PROVE q \in AllPages /\ Pages(q) \subseteq Merge(saved)
    <3>1. PICK p \in saved : q \in Pages(p)
      BY <2>1
    <3>2. Pages(p) \subseteq AllPages /\ Pages(q) \subseteq Pages(p)
      BY <2>1, <3>1, PagesArePages
    <3> QED
      BY <2>1, <3>1, <3>2
  <2> QED
    BY <2>2
<1> QED
  BY <1>1, <1>2

\* A snapshot is no sentinel, and brings back pages of the catalog only.
LEMMA SnapshotIsCatalog ==
    ASSUME NEW S \in SUBSET AllPages, \A p \in S : Pages(p) \subseteq S
    PROVE  /\ Snapshot(S) \subseteq AllPages
           /\ Merge(Snapshot(S)) = UNION {Pages(p) : p \in Snapshot(S)}
           /\ Merge(Snapshot(S)) \subseteq S
<1>1. Snapshot(S) \subseteq S
  BY DEF Snapshot
<1>2. CatalogKey \notin Snapshot(S)
  BY <1>1, PagesArePages
<1>3. Snapshot(S) # NoCatalog /\ Snapshot(S) # Unreadable
  BY <1>2 DEF NoCatalog, Unreadable, CatalogKey
<1>4. Merge(Snapshot(S)) = UNION {Pages(p) : p \in Snapshot(S)}
  BY <1>3 DEF Merge
<1> QED
  BY <1>1, <1>4

LEMMA Least ==
    ASSUME NEW S, S \subseteq Nat, S # {}
    PROVE  \E n \in S : \A m \in S : n <= m
<1> DEFINE R == {p \in Nat \X Nat : p[1] < p[2]}
<1>1. IsWellFoundedOn(R, Nat)
  BY NatLessThanWellFounded, Zenon DEF OpToRel
<1> HIDE DEF R
<1>2. PICK n \in S : \A y \in S : ~(<<y, n>> \in R)
  BY <1>1, WFMin, Zenon
<1>3. \A y \in S : ~(y < n)
  BY <1>2 DEF R
<1> QED
  BY <1>3

LEMMA Greatest ==
    ASSUME NEW n \in Nat, NEW S \in SUBSET (1..n), S # {}
    PROVE  \E i \in S : \A j \in S : j <= i
<1> DEFINE D == {n - i : i \in S}
<1>1. D \subseteq Nat /\ D # {}
  <2>1. PICK i \in S : TRUE
    OBVIOUS
  <2>2. n - i \in D
    OBVIOUS
  <2> QED
    BY <2>2
<1>2. PICK d \in D : \A e \in D : d <= e
  <2> HIDE DEF D
  <2> QED
    BY <1>1, Least
<1>3. PICK i \in S : d = n - i
  BY <1>2
<1>4. ASSUME NEW j \in S PROVE j <= i
  <2>1. d <= n - j
    BY <1>2
  <2> QED
    BY <1>3, <2>1
<1> QED
  BY <1>4

\* Every finite set of pages holds, above each of its members, a leaf.
LEMMA PagesFinite == IsFiniteSet(AllPages)
<1>1. ASSUME NEW p \in Paths PROVE IsFiniteSet(Pages(p))
  <2>1. Len(p) \in Nat
    BY PathsAssumption, LenProperties
  <2> DEFINE f == [l \in 0..Len(p) |-> SubSeq(p, 1, l)]
  <2>2. f \in Surjection(0..Len(p), Prefixes(p))
    BY DEF Prefixes, Surjection
  <2>3. IsFiniteSet(Prefixes(p))
    <3> HIDE DEF f
    <3> QED
      BY <2>1, <2>2, FS_Interval, FS_Surjection
  <2>4. Pages(p) \in SUBSET Prefixes(p)
    BY DEF Pages
  <2> QED
    BY <2>3, <2>4, FS_Subset
<1> DEFINE all == {Pages(p) : p \in Paths}
           g == [p \in Paths |-> Pages(p)]
<1>2. g \in Surjection(Paths, all)
  BY DEF Surjection
<1>3. \A T \in all : IsFiniteSet(T)
  BY <1>1
<1>4. IsFiniteSet(all)
  <2> HIDE DEF g, all
  <2> QED
    BY <1>2, PathsAssumption, FS_Surjection
<1>5. IsFiniteSet(UNION all)
  <2> HIDE DEF all
  <2> QED
    BY <1>3, <1>4, FS_UNION
<1> QED
  BY <1>5 DEF AllPages

LEMMA PageIsPrefix ==
    ASSUME NEW p \in AllPages, NEW q \in AllPages
    PROVE  IsPrefix(p, q) <=> p \in Pages(q)
<1>1. PICK s \in Paths : p \in Pages(s)
  BY DEF AllPages
<1>2. PICK t \in Paths : q \in Pages(t)
  BY DEF AllPages
<1>3. p \in Seq(Range(s)) /\ q \in Seq(Range(t)) /\ p # <<>>
  BY <1>1, <1>2, PathsAssumption, PagesOfSeq
<1>4. Len(p) \in Nat /\ Len(q) \in Nat /\ SubSeq(p, 1, Len(p)) = p
  BY <1>3, LenProperties, SubSeqFull
<1>5. ASSUME p \in Pages(q) PROVE IsPrefix(p, q)
  <2>1. PICK l \in 0..Len(q) : p = SubSeq(q, 1, l)
    BY <1>5 DEF Pages, Prefixes
  <2>2. Len(p) = l
    BY <1>3, <1>4, <2>1, PrefixOfPrefix
  <2> QED
    BY <1>4, <2>1, <2>2 DEF IsPrefix
<1>6. ASSUME IsPrefix(p, q) PROVE p \in Pages(q)
  <2>1. Len(p) \in 0..Len(q) /\ p = SubSeq(q, 1, Len(p))
    BY <1>4, <1>6 DEF IsPrefix
  <2> QED
    BY <1>3, <2>1 DEF Pages, Prefixes
<1> QED
  BY <1>5, <1>6

LEMMA LeafAbove ==
    ASSUME NEW S \in SUBSET AllPages, NEW q \in S
    PROVE  \E r \in Snapshot(S) : q \in Pages(r)
<1> DEFINE Above(r) == {t \in S : r \in Pages(t)}
           E == Above(q)
           sizes == {Cardinality(Above(r)) : r \in E}
<1>1. \A r \in S : Above(r) \in SUBSET AllPages
  OBVIOUS
<1>2. \A r \in S : IsFiniteSet(Above(r)) /\ Cardinality(Above(r)) \in Nat
  <2> HIDE DEF Above
  <2> QED
    BY <1>1, PagesFinite, FS_Subset, FS_CardinalityType
<1>3. q \in E /\ E \subseteq S
  BY PagesArePages
<1>4. sizes \subseteq Nat /\ sizes # {}
  BY <1>2, <1>3
<1>5. PICK n \in sizes : \A m \in sizes : n <= m
  <2> HIDE DEF sizes
  <2> QED
    BY <1>4, Least
<1>6. PICK r \in E : \A t \in E : Cardinality(Above(r)) <= Cardinality(Above(t))
  BY <1>5, ZenonT(40)
<1>7. ASSUME NEW t \in S, IsStrictPrefix(r, t) PROVE FALSE
  <2>1. r \in Pages(t) /\ r # t /\ r \in S /\ q \in Pages(r)
    BY <1>3, <1>6, <1>7, PageIsPrefix DEF IsStrictPrefix
  <2>2. Pages(r) \subseteq Pages(t)
    BY <2>1, PagesArePages
  <2>3. t \in E
    BY <2>1, <2>2
  <2>4. Above(t) \in SUBSET Above(r)
    <3>1. ASSUME NEW u \in S, t \in Pages(u) PROVE r \in Pages(u)
      BY <2>1, <3>1, PagesArePages
    <3> QED
      BY <3>1
  <2>5. r \in Above(r)
    BY <2>1, PagesArePages
  <2>6. r \notin Above(t)
    <3>1. SUFFICES ASSUME t \in Pages(r) PROVE FALSE
      OBVIOUS
    <3>2. IsPrefix(t, r) /\ IsPrefix(r, t)
      BY <1>7, <2>1, <3>1, PageIsPrefix DEF IsStrictPrefix
    <3>3. PICK a \in Paths : t \in Pages(a)
      BY <2>1 DEF AllPages
    <3>4. PICK b \in Paths : r \in Pages(b)
      BY <2>1 DEF AllPages
    <3>5. t \in Seq(Range(a)) /\ r \in Seq(Range(b))
      BY <3>3, <3>4, PathsAssumption, PagesOfSeq
    <3>6. Len(t) \in Nat /\ Len(r) \in Nat
          /\ SubSeq(t, 1, Len(t)) = t /\ SubSeq(r, 1, Len(r)) = r
      BY <3>5, LenProperties, SubSeqFull
    <3> QED
      BY <2>1, <3>2, <3>6 DEF IsPrefix
  <2>7. Cardinality(Above(t)) < Cardinality(Above(r))
    <3>1. PICK A : A = Above(r)
      OBVIOUS
    <3>2. PICK B : B = Above(t)
      OBVIOUS
    <3>3. B \in SUBSET A /\ A # B /\ IsFiniteSet(A)
      BY <1>2, <2>1, <2>4, <2>5, <2>6, <3>1, <3>2
    <3>4. Cardinality(B) <= Cardinality(A) /\ Cardinality(A) # Cardinality(B)
      BY <3>3, FS_Subset
    <3>5. Cardinality(A) \in Nat /\ Cardinality(B) \in Nat
      BY <1>2, <2>1, <3>1, <3>2
    <3> QED
      BY <3>1, <3>2, <3>4, <3>5
  <2>8. Cardinality(Above(r)) <= Cardinality(Above(t))
    BY <1>6, <2>3
  <2>9. Cardinality(Above(r)) \in Nat /\ Cardinality(Above(t)) \in Nat
    BY <1>2, <2>1
  <2> HIDE DEF Above
  <2> QED
    BY <2>7, <2>8, <2>9
<1>8. r \in Snapshot(S)
  BY <1>3, <1>6, <1>7 DEF Snapshot
<1> QED
  BY <1>6, <1>8

\* A snapshot loses nothing of the catalog it was taken from.
LEMMA SnapshotKeepsAll ==
    ASSUME NEW S \in SUBSET AllPages, \A p \in S : Pages(p) \subseteq S
    PROVE  S \subseteq Merge(Snapshot(S))
<1>1. Merge(Snapshot(S)) = UNION {Pages(p) : p \in Snapshot(S)}
  BY SnapshotIsCatalog
<1> QED
  BY <1>1, LeafAbove

---------------------------------------------------------------------------
(* Lists of batches *)

LEMMA RemoveFirstProperties ==
    ASSUME NEW T, NEW s \in Seq(T), NEW e
    PROVE  /\ RemoveFirst(s, e) \in Seq(T)
           /\ Range(RemoveFirst(s, e)) \subseteq Range(s)
           /\ \A x \in Range(s) : x # e => x \in Range(RemoveFirst(s, e))
           /\ s # <<>> /\ e = Head(s) => RemoveFirst(s, e) = Tail(s)
<1>0. Len(s) \in Nat /\ DOMAIN s = 1..Len(s) /\ \A i \in 1..Len(s) : s[i] \in T
  BY LenProperties, ElementOfSeq
<1> DEFINE I == {i \in 1..Len(s) : s[i] = e}
<1>1. CASE I = {}
  <2>1. RemoveFirst(s, e) = s
    BY <1>1 DEF RemoveFirst
  <2>2. s # <<>> => s[1] = Head(s) /\ 1 \in 1..Len(s)
    BY <1>0, EmptySeq
  <2> QED
    BY <1>1, <2>1, <2>2
<1>2. CASE I # {}
  <2>1. PICK m \in I : \A i \in I : m <= i
    <3>1. I \subseteq Nat
      OBVIOUS
    <3> HIDE DEF I
    <3> QED
      BY <1>2, <3>1, Least
  <2>2. SelectInSeq(s, LAMBDA v : v = e) = m
    <3>1. SelectInSeq(s, LAMBDA v : v = e) = Min(I)
      BY <1>2 DEF SelectInSeq
    <3>2. Min(I) = m
      <4>1. I \subseteq Nat
        OBVIOUS
      <4> HIDE DEF I
      <4>2. Min(I) \in I /\ \A i \in I : Min(I) <= i
        BY <2>1, Zenon DEF Min
      <4>3. PICK k \in I : k = Min(I) /\ \A i \in I : k <= i
        BY <4>2, Zenon
      <4>4. k <= m /\ m <= k /\ k \in Nat /\ m \in Nat
        BY <2>1, <4>1, <4>3
      <4>5. k = m
        BY <4>4
      <4> QED
        BY <4>3, <4>5, Zenon
    <3> QED
      BY <3>1, <3>2
  <2>3. m \in 1..Len(s) /\ s[m] = e
    BY <2>1
  <2> DEFINE a == SubSeq(s, 1, m - 1)
             b == SubSeq(s, m + 1, Len(s))
             r == RemoveFirst(s, e)
  <2>4. r = a \o b
    BY <1>2, <2>2 DEF RemoveFirst, RemoveAt
  <2>5. /\ a \in Seq(T) /\ Len(a) = m - 1 /\ \A i \in 1..(m - 1) : a[i] = s[i]
        /\ b \in Seq(T) /\ Len(b) = Len(s) - m /\ \A i \in 1..(Len(s) - m) : b[i] = s[m + i]
    <3>1. /\ \A i \in 1..(m - 1) : s[i] \in T
          /\ \A i \in (m + 1)..Len(s) : s[i] \in T
          /\ m - 1 \in Int /\ m + 1 \in Int /\ Len(s) \in Int
      BY <1>0, <2>3
    <3>2. /\ a \in Seq(T) /\ Len(a) = m - 1 /\ \A i \in 1..(m - 1) : a[i] = s[i]
      <4>1. /\ a \in Seq(T) /\ Len(a) = IF 1 <= m - 1 THEN (m - 1) - 1 + 1 ELSE 0
            /\ \A i \in 1..((m - 1) - 1 + 1) : a[i] = s[1 + i - 1]
        BY <3>1, SubSeqProperties
      <4> HIDE DEF a
      <4> QED
        BY <2>3, <4>1
    <3>3. /\ b \in Seq(T) /\ Len(b) = Len(s) - m
          /\ \A i \in 1..(Len(s) - m) : b[i] = s[m + i]
      <4>1. /\ b \in Seq(T) /\ Len(b) = IF m + 1 <= Len(s) THEN Len(s) - (m + 1) + 1 ELSE 0
            /\ \A i \in 1..(Len(s) - (m + 1) + 1) : b[i] = s[(m + 1) + i - 1]
        BY <3>1, SubSeqProperties
      <4>2. \A i \in 1..(Len(s) - m) : (m + 1) + i - 1 = m + i
        BY <1>0, <2>3
      <4>3. Len(s) - (m + 1) + 1 = Len(s) - m /\ m \in Nat
        BY <1>0, <2>3
      <4>4. Len(b) = Len(s) - m
        <5>1. PICK n \in Nat : n = Len(s) /\ m \in 1..n
          BY <1>0, <2>3
        <5>2. (IF m + 1 <= n THEN n - (m + 1) + 1 ELSE 0) = n - m
          BY <5>1
        <5> QED
          BY <4>1, <5>1, <5>2
      <4>5. ASSUME NEW i \in 1..(Len(s) - m) PROVE b[i] = s[m + i]
        <5>1. b[i] = s[(m + 1) + i - 1] /\ (m + 1) + i - 1 = m + i
          BY <4>1, <4>2, <4>3
        <5> HIDE DEF b
        <5> QED
          BY <5>1
      <4> HIDE DEF b
      <4> QED
        BY <4>1, <4>4, <4>5
    <3> QED
      BY <3>2, <3>3
  <2> HIDE DEF a, b
  <2>6. /\ r \in Seq(T) /\ Len(r) = Len(s) - 1
        /\ \A i \in 1..(Len(s) - 1) : r[i] = IF i < m THEN s[i] ELSE s[i + 1]
    <3>1. /\ a \o b \in Seq(T) /\ Len(a \o b) = Len(a) + Len(b)
          /\ \A i \in 1..(Len(a) + Len(b)) :
                (a \o b)[i] = IF i <= Len(a) THEN a[i] ELSE b[i - Len(a)]
      BY <2>5, ConcatProperties
    <3>2. Len(a) + Len(b) = Len(s) - 1
      BY <1>0, <2>3, <2>5
    <3>3. ASSUME NEW i \in 1..(Len(s) - 1)
          PROVE  (a \o b)[i] = IF i < m THEN s[i] ELSE s[i + 1]
      <4>1. CASE i < m
        <5>1. (a \o b)[i] = a[i]
          BY <2>3, <2>5, <3>1, <3>2, <4>1
        <5> QED
          BY <2>3, <2>5, <4>1, <5>1
      <4>2. CASE ~(i < m)
        <5>1. (a \o b)[i] = b[i - (m - 1)]
          BY <2>3, <2>5, <3>1, <3>2, <4>2
        <5>2. i - (m - 1) \in 1..(Len(s) - m) /\ m + (i - (m - 1)) = i + 1
          BY <1>0, <2>3, <4>2
        <5>3. b[i - (m - 1)] = s[m + (i - (m - 1))]
          BY <2>5, <5>2
        <5> QED
          BY <4>2, <5>1, <5>2, <5>3
      <4> QED
        BY <4>1, <4>2
    <3> QED
      BY <2>4, <3>1, <3>2, <3>3
  <2> HIDE DEF r
  <2>7. DOMAIN r = 1..(Len(s) - 1)
    BY <2>6, LenProperties
  <2>8. Range(r) \subseteq Range(s)
    <3>1. ASSUME NEW i \in 1..(Len(s) - 1) PROVE r[i] \in Range(s)
      <4>1. r[i] = s[i] \/ r[i] = s[i + 1]
        BY <2>6
      <4>2. i \in DOMAIN s /\ i + 1 \in DOMAIN s
        BY <1>0, <2>3
      <4> QED
        BY <4>1, <4>2 DEF Range
    <3> QED
      BY <2>7, <3>1 DEF Range
  <2>9. ASSUME NEW x \in Range(s), x # e PROVE x \in Range(r)
    <3>1. PICK i \in 1..Len(s) : s[i] = x
      BY <1>0 DEF Range
    <3>2. i # m
      BY <2>3, <2>9, <3>1
    <3>3. CASE i < m
      <4>1. i \in DOMAIN r /\ r[i] = x
        BY <1>0, <2>3, <2>6, <2>7, <3>1, <3>3
      <4> QED
        BY <4>1 DEF Range
    <3>4. CASE i > m
      <4>1. i - 1 \in 1..(Len(s) - 1) /\ ~(i - 1 < m) /\ (i - 1) + 1 = i
        BY <1>0, <2>3, <3>1, <3>4
      <4>2. i - 1 \in DOMAIN r /\ r[i - 1] = x
        BY <2>6, <2>7, <3>1, <4>1
      <4> QED
        BY <4>2 DEF Range
    <3> QED
      BY <2>3, <3>2, <3>3, <3>4
  <2>10. ASSUME s # <<>>, e = Head(s) PROVE r = Tail(s)
    <3>1. s[1] = e /\ 1 \in I
      BY <1>0, <2>10, EmptySeq
    <3>2. m = 1
      BY <2>1, <2>3, <3>1
    <3>3. /\ Tail(s) \in Seq(T) /\ Len(Tail(s)) = Len(s) - 1
          /\ \A i \in 1..(Len(s) - 1) : Tail(s)[i] = s[i + 1]
      BY <2>10, HeadTailProperties
    <3>4. \A i \in 1..(Len(s) - 1) : r[i] = Tail(s)[i]
      BY <2>6, <3>2, <3>3
    <3> QED
      BY <2>6, <3>3, <3>4, SeqEqual
  <2> QED
    BY <2>6, <2>8, <2>9, <2>10 DEF r
<1> QED
  BY <1>1, <1>2

---------------------------------------------------------------------------
(* Calls that end *)

LEMMA CallTypes ==
    ASSUME StoreTyped
    PROVE  /\ Len(io) \in Nat /\ DOMAIN io = Calls
           /\ \A i \in Calls : /\ io[i] \in Call /\ io[i].op \in {"put", "get"}
                               /\ io[i].key \in Keys /\ io[i].value \subseteq AllPages
                               /\ io[i].stage \in Stages /\ io[i].task \in Nat
<1>1. io \in Seq(Call)
  BY DEF StoreTyped
<1>2. Len(io) \in Nat /\ DOMAIN io = Calls /\ \A i \in Calls : io[i] \in Call
  BY <1>1, LenProperties, ElementOfSeq DEF Calls
<1> QED
  BY <1>2 DEF Call

\* What the model says of a call that ends.
Ends(i, result, answer) ==
    /\ i \in Calls /\ Turn(i) /\ Resolve(i, result, answer)
    /\ result \in {"ok", "missing", "failed"} /\ answer \in {"ok", "missing", "failed"}
    /\ catalog' = catalog
    /\ io[i].op = "put" => result # "missing"
    /\ \/ io[i].op = "put" /\ Written({i})
       \/ UNCHANGED storeVars /\ (io[i].op = "put" => result = "failed")
    /\ hurt' \in BOOLEAN /\ (hurt => hurt')
    /\ result = "failed" \/ answer = "failed" => hurt'

\* A call keeps what it is.
KeepsCalls ==
    /\ io' \in Seq(Call) /\ Len(io') = Len(io)
    /\ \A j \in Calls : /\ io'[j].op = io[j].op /\ io'[j].key = io[j].key
                        /\ io'[j].value = io[j].value

LEMMA EndsCalls ==
    ASSUME StoreTyped, PutsOwnTasks, NEW i, NEW result, NEW answer, Ends(i, result, answer)
    PROVE  /\ KeepsCalls
           /\ io[i].stage = "open" /\ io'[i].stage = result /\ io[i].task = i
           /\ \A j \in Calls :
                 /\ io'[j].task = io[j].task
                 /\ j # i /\ io[j].task = i =>
                        io'[j].stage = answer /\ io[j].op = "get" /\ io[j].stage # "new"
                 /\ j # i /\ io[j].task # i => io'[j] = io[j]
<1>1. /\ Len(io) \in Nat /\ DOMAIN io = Calls /\ i \in Calls /\ i \in Nat \ {0}
      /\ \A j \in Calls : io[j] \in Call
  BY CallTypes DEF Ends, Calls
<1>2. io[i].stage = "open" /\ io[i].task = i
  BY DEF Ends, Turn
<1>3. /\ DOMAIN io' = Calls
      /\ io'[i] = [io[i] EXCEPT !.stage = result]
      /\ \A j \in Calls : j # i /\ io[j].task = i => io'[j] = [io[j] EXCEPT !.stage = answer]
      /\ \A j \in Calls : j # i /\ io[j].task # i => io'[j] = io[j]
  BY <1>1 DEF Ends, Resolve
<1>4. result \in Stages /\ answer \in Stages
  BY DEF Ends, Stages
<1>5. ASSUME NEW j \in Calls
      PROVE  /\ io'[j] \in Call
             /\ io'[j].op = io[j].op /\ io'[j].key = io[j].key /\ io'[j].value = io[j].value
             /\ io'[j].task = io[j].task
  <2>1. CASE j = i
    BY <1>1, <1>3, <1>4, <2>1 DEF Call
  <2>2. CASE j # i /\ io[j].task = i
    BY <1>1, <1>3, <1>4, <2>2 DEF Call
  <2>3. CASE j # i /\ io[j].task # i
    BY <1>1, <1>3, <2>3
  <2> QED
    BY <2>1, <2>2, <2>3
<1>6. io' \in Seq(Call) /\ Len(io') = Len(io)
  <2>1. io' = [j \in 1..Len(io) |-> io'[j]]
    BY <1>1, <1>3 DEF Ends, Resolve, Calls
  <2> QED
    BY <1>1, <1>3, <1>5, <2>1 DEF Calls
<1>7. io'[i].stage = result
  BY <1>1, <1>3 DEF Call
<1>8. ASSUME NEW j \in Calls, j # i, io[j].task = i
      PROVE  io'[j].stage = answer /\ io[j].op = "get" /\ io[j].stage # "new"
  <2>1. io[j].op \in {"put", "get"} /\ i # 0
    BY <1>1 DEF Call
  <2>2. io'[j].stage = answer
    BY <1>1, <1>3, <1>8 DEF Call
  <2> QED
    BY <1>8, <2>1, <2>2 DEF PutsOwnTasks
<1> QED
  BY <1>2, <1>3, <1>5, <1>6, <1>7, <1>8 DEF KeepsCalls

LEMMA WrittenOne ==
    ASSUME NEW i, Written({i})
    PROVE  /\ lost' = lost
           /\ io[i].key = CatalogKey => stored' = stored /\ savedCatalog' = io[i].value
           /\ io[i].key # CatalogKey =>
                  stored' = stored \cup {io[i].key} /\ savedCatalog' = savedCatalog
<1>1. CASE io[i].key = CatalogKey
  <2>1. {io[k].key : k \in {i}} \ {CatalogKey} = {}
    BY <1>1
  <2>2. {io[k].value : k \in {j \in {i} : io[j].key = CatalogKey}} = {io[i].value}
    BY <1>1
  <2>3. (CHOOSE s \in {io[i].value} : TRUE) = io[i].value
    OBVIOUS
  <2> QED
    BY <1>1, <2>1, <2>2, <2>3 DEF Written
<1>2. CASE io[i].key # CatalogKey
  <2>1. {io[k].key : k \in {i}} \ {CatalogKey} = {io[i].key}
    BY <1>2
  <2>2. {io[k].value : k \in {j \in {i} : io[j].key = CatalogKey}} = {}
    BY <1>2
  <2> QED
    BY <1>2, <2>1, <2>2 DEF Written
<1> QED
  BY <1>1, <1>2

\* The backend keeps the pages it was given, or lost them; the saved catalog
\* changes only when call i is a save.
LEMMA EndsStore ==
    ASSUME StoreInv, NEW i, NEW result, NEW answer, Ends(i, result, answer)
    PROVE  /\ stored \cup lost \subseteq stored' \cup lost'
           /\ io[i].op = "put" /\ result = "ok" /\ io[i].key # CatalogKey =>
                  io[i].key \in stored' \cup lost'
           /\ savedCatalog' # savedCatalog => i \in Saves /\ savedCatalog' = io[i].value
           /\ i \in Saves /\ result = "ok" => savedCatalog' = io[i].value
           /\ i \in Saves => io[i].op = "put" /\ io[i].value \subseteq AllPages
                             /\ Merge(io[i].value) \subseteq stored \cup lost
<1>1. i \in Calls
  BY DEF Ends
<1>2. i \in Saves => io[i].op = "put" /\ io[i].value \subseteq AllPages
                     /\ Merge(io[i].value) \subseteq stored \cup lost
  BY <1>1, CallTypes DEF StoreInv, PutsOwnTasks, WritesBacked, Saves
<1>3. CASE io[i].op = "put" /\ Written({i})
  BY <1>1, <1>2, <1>3, WrittenOne DEF Saves
<1>4. CASE UNCHANGED storeVars /\ (io[i].op = "put" => result = "failed")
  <2>1. stored' = stored /\ lost' = lost /\ savedCatalog' = savedCatalog
    BY <1>4 DEF storeVars
  <2> QED
    BY <1>2, <1>4, <2>1
<1> QED
  BY <1>2, <1>3, <1>4 DEF Ends

LEMMA EndsKeepsStore ==
    ASSUME StoreInv, NEW i, NEW result, NEW answer, Ends(i, result, answer)
    PROVE  StoreInv'
<1>0. /\ StoreTyped /\ PutsOwnTasks /\ WritesBacked /\ CatalogClosed
      /\ CatalogBacked /\ SavedCatalogBacked
      /\ InOrderStarts /\ InOrderSaves /\ LastSave /\ FailuresSeen
  BY DEF StoreInv
<1>1. /\ KeepsCalls
      /\ io[i].stage = "open" /\ io'[i].stage = result /\ io[i].task = i
      /\ \A j \in Calls :
            /\ io'[j].task = io[j].task
            /\ j # i /\ io[j].task = i =>
                   io'[j].stage = answer /\ io[j].op = "get" /\ io[j].stage # "new"
            /\ j # i /\ io[j].task # i => io'[j] = io[j]
  BY <1>0, EndsCalls
<1>2. /\ i \in Calls /\ Calls' = Calls
      /\ \A j \in Calls : /\ io'[j].op = io[j].op /\ io'[j].key = io[j].key
                          /\ io'[j].value = io[j].value
      /\ catalog' = catalog
      /\ result \in {"ok", "missing", "failed"} /\ answer \in {"ok", "missing", "failed"}
  BY <1>1 DEF KeepsCalls, Ends, Calls
<1>3. Saves' = Saves
  BY <1>2 DEF Saves
<1>4. /\ stored \cup lost \subseteq stored' \cup lost'
      /\ io[i].op = "put" /\ result = "ok" /\ io[i].key # CatalogKey =>
             io[i].key \in stored' \cup lost'
      /\ savedCatalog' # savedCatalog => i \in Saves /\ savedCatalog' = io[i].value
      /\ i \in Saves /\ result = "ok" => savedCatalog' = io[i].value
      /\ i \in Saves => io[i].op = "put" /\ io[i].value \subseteq AllPages
                        /\ Merge(io[i].value) \subseteq stored \cup lost
  BY EndsStore
<1>5. \A j \in Calls : j # i /\ io[j].op = "put" => io'[j] = io[j]
  BY <1>1
<1>6. \A j \in Calls : io'[j].stage = "new" <=> io[j].stage = "new"
  BY <1>1, <1>2
<1>7. \A j \in Saves : j \in Calls /\ io[j].op = "put" /\ (j # i => io'[j] = io[j])
  BY <1>0, <1>5 DEF Saves, PutsOwnTasks
<1>a. StoreTyped'
  BY <1>0, <1>1, <1>2, <1>4 DEF StoreTyped, KeepsCalls, Ends
<1>b. PutsOwnTasks'
  <2>1. ASSUME NEW j \in Calls
        PROVE  /\ io'[j].stage = "new" => io'[j].task = 0
               /\ io'[j].op = "put" => io'[j].stage # "missing"
               /\ io'[j].op = "put" /\ io'[j].stage # "new" => io'[j].task = j
               /\ io'[j].key = CatalogKey => io'[j].op = "put"
    BY <1>0, <1>1, <1>2, <1>5, <1>6 DEF PutsOwnTasks, Ends
  <2> QED
    BY <1>2, <2>1 DEF PutsOwnTasks
<1>c. WritesBacked'
  <2>1. ASSUME NEW j \in Calls, io'[j].op = "put"
        PROVE  /\ io'[j].key # CatalogKey /\ io'[j].stage = "ok" => io'[j].key \in stored' \cup lost'
               /\ io'[j].key = CatalogKey => Merge(io'[j].value) \subseteq stored' \cup lost'
    BY <1>0, <1>1, <1>2, <1>4, <1>5, <2>1 DEF WritesBacked
  <2> QED
    BY <1>2, <2>1 DEF WritesBacked
<1>d. CatalogClosed' /\ CatalogBacked'
  BY <1>0, <1>2, <1>4 DEF CatalogClosed, CatalogBacked
<1>e. SavedCatalogBacked'
  <2>1. CASE savedCatalog' = savedCatalog
    BY <1>0, <1>4, <2>1 DEF SavedCatalogBacked
  <2>2. CASE savedCatalog' # savedCatalog
    BY <1>4, <2>2 DEF SavedCatalogBacked
  <2> QED
    BY <2>1, <2>2
<1>f. InOrderStarts'
  BY <1>0, <1>2, <1>6 DEF InOrderStarts
<1>g. InOrderSaves'
  <2>1. ASSUME NEW j \in Saves, NEW k \in Saves, j < k, Resolved(k)' PROVE Resolved(j)'
    <3>1. Resolved(j) => Resolved(j)'
      BY <1>1, <1>2, <1>7, <2>1 DEF Resolved
    <3>2. CASE k = i
      <4>1. io[j].stage # "new"
        BY <1>0, <1>1, <1>7, <2>1, <3>2 DEF InOrderStarts
      <4>2. io[j].task = j /\ io[j].key = io[k].key /\ j \in 1..(i - 1)
        BY <1>0, <1>7, <2>1, <3>2, <4>1, CallTypes DEF PutsOwnTasks, Saves, Calls
      <4>3. Resolved(j)
        BY <3>2, <4>2 DEF Ends, Turn
      <4> QED
        BY <3>1, <4>3
    <3>3. CASE k # i
      <4>1. Resolved(k)
        BY <1>7, <2>1, <3>3 DEF Resolved
      <4> QED
        BY <1>0, <2>1, <3>1, <4>1 DEF InOrderSaves
    <3> QED
      BY <3>2, <3>3
  <2> QED
    BY <1>3, <2>1 DEF InOrderSaves
<1>h. LastSave'
  <2>1. ASSUME NEW g \in Saves, \A j \in Saves : j <= g
        PROVE  /\ io'[g].value = Snapshot(catalog')
               /\ io'[g].stage = "ok" => savedCatalog' = io'[g].value
    <3>1. io[g].value = Snapshot(catalog) /\ (io[g].stage = "ok" => savedCatalog = io[g].value)
      BY <1>0, <2>1 DEF LastSave
    <3>2. io'[g].value = io[g].value
      BY <1>2, <1>7, <2>1
    <3>3. ASSUME io'[g].stage = "ok" PROVE savedCatalog' = io[g].value
      <4>1. CASE g = i
        BY <1>1, <1>4, <2>1, <3>3, <4>1
      <4>2. CASE g # i
        <5>1. io[g].stage = "ok" /\ Resolved(g)
          BY <1>7, <2>1, <3>3, <4>2 DEF Resolved
        <5>2. i \notin Saves
          <6>1. SUFFICES ASSUME i \in Saves PROVE FALSE
            OBVIOUS
          <6>2. i < g
            BY <2>1, <4>2, <6>1, CallTypes, <1>0 DEF Saves, Calls
          <6>3. Resolved(i)
            BY <1>0, <2>1, <5>1, <6>1, <6>2 DEF InOrderSaves
          <6> QED
            BY <1>1, <6>3 DEF Resolved
        <5> QED
          BY <1>4, <3>1, <5>1, <5>2
      <4> QED
        BY <4>1, <4>2
    <3> QED
      BY <1>2, <3>1, <3>2, <3>3
  <2> QED
    BY <1>3, <2>1 DEF LastSave
<1>i. FailuresSeen'
  <2>1. CASE hurt'
    BY <2>1 DEF FailuresSeen
  <2>2. CASE ~hurt'
    <3>1. result # "failed" /\ answer # "failed" /\ \A j \in Calls : ~Failed(j)
      BY <1>0, <2>2 DEF Ends, FailuresSeen
    <3>2. ASSUME NEW j \in Calls PROVE io'[j].stage # "failed"
      BY <1>1, <3>1 DEF Failed
    <3> QED
      BY <1>2, <3>2 DEF FailuresSeen, Failed
  <2> QED
    BY <2>1, <2>2
<1> QED
  BY <1>a, <1>b, <1>c, <1>d, <1>e, <1>f, <1>g, <1>h, <1>i DEF StoreInv

LEMMA NewestCall ==
    ASSUME StoreTyped, NEW key
    PROVE  Newest(key) \in Nat
<1> DEFINE ops == {i \in DOMAIN io : io[i].key = key /\ io[i].task = i}
<1>1. CASE ops = {}
  BY <1>1 DEF Newest
<1>2. CASE ops # {}
  <2>1. Len(io) \in Nat /\ ops \in SUBSET (1..Len(io))
    BY CallTypes DEF Calls
  <2> HIDE DEF ops
  <2>2. \E i \in ops : \A j \in ops : j <= i
    BY <1>2, <2>1, Greatest
  <2>3. (CHOOSE i \in ops : \A j \in ops : j <= i) \in ops
    BY <2>2, Zenon
  <2>4. Newest(key) = CHOOSE i \in ops : \A j \in ops : j <= i
    BY <1>2 DEF Newest, ops
  <2>5. Newest(key) \in 1..Len(io)
    BY <2>1, <2>3, <2>4, Zenon
  <2> QED
    BY <2>1, <2>5
<1> QED
  BY <1>1, <1>2

LEMMA PutEnds ==
    ASSUME StoreInv, NEW i \in DOMAIN io, PutSucceeds(i)
    PROVE  Ends(i, "ok", Answer(i, "ok"))
<1>1. StoreTyped
  BY DEF StoreInv
<1>2. i \in Calls /\ Answer(i, "ok") \in {"ok", "missing"}
  BY <1>1, CallTypes DEF Answer
<1>3. catalog' = catalog /\ hurt' = hurt /\ hurt \in BOOLEAN
  BY <1>1 DEF PutSucceeds, serviceVars, ghostVars, StoreTyped
<1> QED
  BY <1>2, <1>3 DEF PutSucceeds, Ends

LEMMA GetEnds ==
    ASSUME StoreInv, NEW i \in DOMAIN io, GetSucceeds(i)
    PROVE  \E found : Ends(i, found, found)
<1>1. StoreTyped
  BY DEF StoreInv
<1>2. PICK found : found = Answer(i, IF io[i].key \in stored THEN "ok" ELSE "missing")
  OBVIOUS
<1>3. i \in Calls /\ found \in {"ok", "missing"}
  BY <1>1, <1>2, CallTypes DEF Answer
<1>4. catalog' = catalog /\ hurt' = hurt /\ hurt \in BOOLEAN /\ UNCHANGED storeVars
  BY <1>1 DEF GetSucceeds, serviceVars, ghostVars, StoreTyped
<1>5. Turn(i) /\ io[i].op = "get" /\ Resolve(i, found, found)
  BY <1>2 DEF GetSucceeds
<1>6. Ends(i, found, found)
  BY <1>3, <1>4, <1>5 DEF Ends
<1> QED
  BY <1>6

LEMMA FailureEnds ==
    ASSUME StoreInv, NEW i \in DOMAIN io, IOFails(i)
    PROVE  Ends(i, "failed", "failed")
<1>1. StoreTyped
  BY DEF StoreInv
<1>2. i \in Calls
  BY <1>1, CallTypes
<1>3. catalog' = catalog /\ hurt' = TRUE
  BY DEF IOFails, serviceVars
<1> QED
  BY <1>2, <1>3 DEF IOFails, Ends

\* A call that starts changes neither what is stored nor how a put ended.
LEMMA StartCalls ==
    ASSUME StoreInv, NEW i \in DOMAIN io, Start(i)
    PROVE  /\ KeepsCalls /\ i \in Calls /\ io[i].stage = "new"
           /\ io'[i].stage \in {"ok", "open"}
           /\ io[i].op = "put" => io'[i].stage = "open" /\ io'[i].task = i
           /\ \A j \in Calls : j # i => io'[j] = io[j]
           /\ \A j \in Calls : j < i => io[j].stage # "new"
<1>1. StoreTyped
  BY DEF StoreInv
<1>2. /\ Len(io) \in Nat /\ DOMAIN io = Calls /\ i \in Calls /\ i \in Nat
      /\ \A j \in Calls : io[j] \in Call
  BY <1>1, CallTypes DEF Calls
<1>3. PICK n \in Nat : n = Newest(io[i].key)
  BY <1>1, NewestCall
<1>4. io[i].stage = "new" /\ \A j \in 1..(i - 1) : io[j].stage # "new"
  BY DEF Start
<1>5. \A j \in Calls : j < i => io[j].stage # "new"
  BY <1>2, <1>4 DEF Calls
<1>6. CASE io' = [io EXCEPT ![i].stage = "ok"] /\ io[i].op = "get"
  <2>1. PICK e : e = [io[i] EXCEPT !.stage = "ok"]
    OBVIOUS
  <2>2. /\ e \in Call /\ e.stage = "ok" /\ e.op = io[i].op /\ e.key = io[i].key
        /\ e.value = io[i].value
    BY <1>2, <2>1 DEF Call, Stages
  <2>3. io' = [io EXCEPT ![i] = e]
    BY <1>6, <2>1
  <2>4. /\ io' \in Seq(Call) /\ Len(io') = Len(io)
        /\ \A j \in Calls : io'[j] = IF j = i THEN e ELSE io[j]
    BY <1>1, <1>2, <2>2, <2>3, ExceptSeq DEF StoreTyped, Calls
  <2> QED
    BY <1>2, <1>4, <1>5, <1>6, <2>2, <2>4 DEF KeepsCalls
<1>7. CASE io' = [io EXCEPT ![i].stage = "open",
                            ![i].task = IF io[i].op = "get" /\ n # 0 /\ io[n].stage = "open"
                                        THEN n ELSE i]
  <2>1. PICK t \in Nat : /\ io' = [io EXCEPT ![i].stage = "open", ![i].task = t]
                         /\ io[i].op = "put" => t = i
    BY <1>2, <1>7
  <2>2. PICK e : e = [io[i] EXCEPT !.stage = "open", !.task = t]
    OBVIOUS
  <2>3. /\ e \in Call /\ e.stage = "open" /\ e.op = io[i].op /\ e.key = io[i].key
        /\ e.value = io[i].value /\ e.task = t
    BY <1>2, <2>2 DEF Call, Stages
  <2>4. io' = [io EXCEPT ![i] = e]
    BY <1>2, <2>1, <2>2
  <2>5. /\ io' \in Seq(Call) /\ Len(io') = Len(io)
        /\ \A j \in Calls : io'[j] = IF j = i THEN e ELSE io[j]
    BY <1>1, <1>2, <2>3, <2>4, ExceptSeq DEF StoreTyped, Calls
  <2> QED
    BY <1>2, <1>4, <1>5, <2>1, <2>3, <2>5 DEF KeepsCalls
<1> QED
  BY <1>3, <1>6, <1>7 DEF Start

LEMMA StartKeepsStore ==
    ASSUME StoreInv, NEW i \in DOMAIN io, Start(i)
    PROVE  StoreInv'
<1>0. /\ StoreTyped /\ PutsOwnTasks /\ WritesBacked /\ CatalogClosed
      /\ CatalogBacked /\ SavedCatalogBacked
      /\ InOrderStarts /\ InOrderSaves /\ LastSave /\ FailuresSeen
  BY DEF StoreInv
<1>1. /\ KeepsCalls /\ i \in Calls /\ io[i].stage = "new"
      /\ io'[i].stage \in {"ok", "open"}
      /\ io[i].op = "put" => io'[i].stage = "open" /\ io'[i].task = i
      /\ \A j \in Calls : j # i => io'[j] = io[j]
      /\ \A j \in Calls : j < i => io[j].stage # "new"
  BY StartCalls
<1>2. /\ stored' = stored /\ savedCatalog' = savedCatalog /\ lost' = lost
      /\ catalog' = catalog /\ hurt' = hurt
  BY DEF Start, storeVars, serviceVars, ghostVars
<1>3. /\ Calls' = Calls
      /\ \A j \in Calls : /\ io'[j].op = io[j].op /\ io'[j].key = io[j].key
                          /\ io'[j].value = io[j].value
  BY <1>1 DEF KeepsCalls, Calls
<1>4. Saves' = Saves
  BY <1>3 DEF Saves
<1>5. \A j \in Saves : j \in Calls /\ io[j].op = "put"
  BY <1>0 DEF Saves, PutsOwnTasks
<1>6. \A j \in Saves : Resolved(j)' <=> Resolved(j)
  BY <1>1, <1>5 DEF Resolved
<1>a. StoreTyped'
  BY <1>0, <1>1, <1>2 DEF StoreTyped, KeepsCalls
<1>b. PutsOwnTasks'
  <2>1. ASSUME NEW j \in Calls
        PROVE  /\ io'[j].stage = "new" => io'[j].task = 0
               /\ io'[j].op = "put" => io'[j].stage # "missing"
               /\ io'[j].op = "put" /\ io'[j].stage # "new" => io'[j].task = j
               /\ io'[j].key = CatalogKey => io'[j].op = "put"
    BY <1>0, <1>1, <1>3 DEF PutsOwnTasks
  <2> QED
    BY <1>3, <2>1 DEF PutsOwnTasks
<1>c. WritesBacked'
  <2>1. ASSUME NEW j \in Calls, io'[j].op = "put"
        PROVE  /\ io'[j].key # CatalogKey /\ io'[j].stage = "ok" => io'[j].key \in stored \cup lost
               /\ io'[j].key = CatalogKey => Merge(io'[j].value) \subseteq stored \cup lost
    BY <1>0, <1>1, <1>3, <2>1 DEF WritesBacked
  <2> QED
    BY <1>2, <1>3, <2>1 DEF WritesBacked
<1>d. CatalogClosed' /\ CatalogBacked' /\ SavedCatalogBacked'
  BY <1>0, <1>2 DEF CatalogClosed, CatalogBacked, SavedCatalogBacked
<1>e. InOrderStarts'
  <2>1. ASSUME NEW j \in Calls, NEW k \in Calls, j < k, io'[j].stage = "new"
        PROVE  io'[k].stage = "new"
    <3>1. j # i /\ io[j].stage = "new"
      BY <1>1, <2>1
    <3>2. io[k].stage = "new"
      BY <1>0, <2>1, <3>1 DEF InOrderStarts
    <3>3. k # i
      BY <1>1, <2>1, <3>1
    <3> QED
      BY <1>1, <3>2, <3>3
  <2> QED
    BY <1>3, <2>1 DEF InOrderStarts
<1>f. InOrderSaves'
  BY <1>0, <1>4, <1>6 DEF InOrderSaves
<1>g. LastSave'
  <2>1. ASSUME NEW g \in Saves, \A j \in Saves : j <= g
        PROVE  /\ io'[g].value = Snapshot(catalog)
               /\ io'[g].stage = "ok" => savedCatalog = io'[g].value
    <3>1. io[g].value = Snapshot(catalog) /\ (io[g].stage = "ok" => savedCatalog = io[g].value)
      BY <1>0, <2>1 DEF LastSave
    <3> QED
      BY <1>1, <1>3, <1>5, <2>1, <3>1
  <2> QED
    BY <1>2, <1>4, <2>1 DEF LastSave
<1>h. FailuresSeen'
  <2>1. ASSUME NEW j \in Calls PROVE Failed(j)' => Failed(j)
    BY <1>1 DEF Failed
  <2> QED
    BY <1>0, <1>2, <1>3, <2>1 DEF FailuresSeen
<1> QED
  BY <1>a, <1>b, <1>c, <1>d, <1>e, <1>f, <1>g, <1>h DEF StoreInv

\* The loop's steps.
LEMMA LoopKeepsStore ==
    ASSUME StoreInv, NEW i \in DOMAIN io,
           Start(i) \/ PutSucceeds(i) \/ GetSucceeds(i) \/ IOFails(i)
    PROVE  StoreInv'
  BY StartKeepsStore, PutEnds, GetEnds, FailureEnds, EndsKeepsStore

---------------------------------------------------------------------------
(* Calls that are submitted *)

\* New calls of pages: they are not saves, and have not started.
PageCalls(calls) ==
    /\ calls \in Seq(Call)
    /\ \A k \in 1..Len(calls) : /\ calls[k].key \in AllPages
                                /\ calls[k].stage = "new" /\ calls[k].task = 0

LEMMA PageCall ==
    ASSUME NEW p \in AllPages
    PROVE  /\ PutCall(p, {}) \in Call /\ PutCall(p, {}).op = "put"
           /\ PutCall(p, {}).key = p /\ PutCall(p, {}).stage = "new" /\ PutCall(p, {}).task = 0
           /\ GetCall(p) \in Call /\ GetCall(p).op = "get"
           /\ GetCall(p).key = p /\ GetCall(p).stage = "new" /\ GetCall(p).task = 0
  BY DEF PutCall, GetCall, Call, Keys, Stages

LEMMA SubmitCalls ==
    ASSUME StoreTyped, NEW calls \in Seq(Call), io' = io \o calls
    PROVE  /\ io' \in Seq(Call) /\ Len(calls) \in Nat /\ Len(io') = Len(io) + Len(calls)
           /\ Calls \subseteq Calls'
           /\ \A j \in Calls : io'[j] = io[j]
           /\ \A j \in Calls' : j \notin Calls =>
                 j - Len(io) \in 1..Len(calls) /\ io'[j] = calls[j - Len(io)]
           /\ \A j \in Calls, k \in Calls' : k <= j => k \in Calls
<1>1. io \in Seq(Call) /\ Len(io) \in Nat /\ Len(calls) \in Nat
  BY LenProperties DEF StoreTyped
<1>2. /\ io' \in Seq(Call) /\ Len(io') = Len(io) + Len(calls)
      /\ \A j \in 1..(Len(io) + Len(calls)) :
            io'[j] = IF j <= Len(io) THEN io[j] ELSE calls[j - Len(io)]
  BY <1>1, ConcatProperties
<1> QED
  BY <1>1, <1>2 DEF Calls

LEMMA SubmitKeepsStore ==
    ASSUME StoreInv, NEW calls, PageCalls(calls), io' = io \o calls,
           UNCHANGED <<storeVars, catalog, hurt>>
    PROVE  StoreInv'
<1>0. /\ StoreTyped /\ PutsOwnTasks /\ WritesBacked /\ CatalogClosed
      /\ CatalogBacked /\ SavedCatalogBacked
      /\ InOrderStarts /\ InOrderSaves /\ LastSave /\ FailuresSeen
  BY DEF StoreInv
<1>1. /\ io' \in Seq(Call)
      /\ Calls \subseteq Calls'
      /\ \A j \in Calls : io'[j] = io[j]
      /\ \A j \in Calls' : j \notin Calls =>
            j - Len(io) \in 1..Len(calls) /\ io'[j] = calls[j - Len(io)]
      /\ \A j \in Calls, k \in Calls' : k <= j => k \in Calls
  BY <1>0, SubmitCalls DEF PageCalls
<1>2. /\ stored' = stored /\ savedCatalog' = savedCatalog /\ lost' = lost
      /\ catalog' = catalog /\ hurt' = hurt
  BY DEF storeVars
<1>3. \A j \in Calls' : j \notin Calls =>
          /\ io'[j].key \in AllPages /\ io'[j].key # CatalogKey
          /\ io'[j].stage = "new" /\ io'[j].task = 0
  BY <1>1, PagesArePages, ZenonT(40) DEF PageCalls
<1>4. Saves' = Saves
  BY <1>1, <1>3 DEF Saves
<1>5. \A j \in Saves : j \in Calls
  BY DEF Saves
<1>a. StoreTyped'
  BY <1>0, <1>1, <1>2 DEF StoreTyped
<1>b. PutsOwnTasks'
  BY <1>0, <1>1, <1>3, ZenonT(40) DEF PutsOwnTasks
<1>c. WritesBacked'
  <2>1. ASSUME NEW j \in Calls', io'[j].op = "put"
        PROVE  /\ io'[j].key # CatalogKey /\ io'[j].stage = "ok" => io'[j].key \in stored \cup lost
               /\ io'[j].key = CatalogKey => Merge(io'[j].value) \subseteq stored \cup lost
    <3>1. CASE j \in Calls
      BY <1>0, <1>1, <2>1, <3>1 DEF WritesBacked
    <3>2. CASE j \notin Calls
      BY <1>3, <3>2
    <3> QED
      BY <3>1, <3>2
  <2> QED
    BY <1>2, <2>1 DEF WritesBacked
<1>d. CatalogClosed' /\ CatalogBacked' /\ SavedCatalogBacked'
  BY <1>0, <1>2 DEF CatalogClosed, CatalogBacked, SavedCatalogBacked
<1>e. InOrderStarts'
  <2>1. ASSUME NEW j \in Calls', NEW k \in Calls', j < k, io'[j].stage = "new"
        PROVE  io'[k].stage = "new"
    <3>1. CASE k \notin Calls
      BY <1>3, <3>1
    <3>2. CASE k \in Calls
      <4>1. j <= k /\ j \in Calls
        BY <1>0, <1>1, <2>1, <3>2, CallTypes DEF Calls
      <4> QED
        BY <1>0, <1>1, <2>1, <3>2, <4>1 DEF InOrderStarts
    <3> QED
      BY <3>1, <3>2
  <2> QED
    BY <2>1 DEF InOrderStarts
<1>f. InOrderSaves'
  <2>1. \A j \in Saves : Resolved(j)' <=> Resolved(j)
    BY <1>1, <1>5 DEF Resolved
  <2> QED
    BY <1>0, <1>4, <2>1 DEF InOrderSaves
<1>g. LastSave'
  BY <1>0, <1>1, <1>2, <1>4, <1>5 DEF LastSave
<1>h. FailuresSeen'
  <2>1. ASSUME NEW j \in Calls', io'[j].stage = "failed" PROVE j \in Calls /\ Failed(j)
    BY <1>1, <1>3, <2>1 DEF Failed
  <2>2. CASE hurt
    BY <1>2, <2>2 DEF FailuresSeen
  <2>3. CASE \A j \in Calls : ~Failed(j)
    <3>1. \A j \in Calls' : io'[j].stage # "failed"
      BY <2>1, <2>3
    <3> QED
      BY <3>1 DEF FailuresSeen, Failed
  <2> QED
    BY <1>0, <2>2, <2>3 DEF FailuresSeen
<1> QED
  BY <1>a, <1>b, <1>c, <1>d, <1>e, <1>f, <1>g, <1>h DEF StoreInv

\* A prefix of written pages is registered and the new catalog is saved.
LEMMA RegisterKeepsStore ==
    ASSUME StoreInv, NEW path \in Paths, Register(path),
           Pages(path) \subseteq stored \cup lost \cup catalog,
           UNCHANGED <<storeVars, hurt>>
    PROVE  /\ StoreInv'
           /\ io' = io \o <<PutCall(CatalogKey, Snapshot(catalog'))>>
           /\ catalog' = catalog \cup Pages(path)
           /\ PutCall(CatalogKey, Snapshot(catalog')) \in Call
<1>0. /\ StoreTyped /\ PutsOwnTasks /\ WritesBacked /\ CatalogClosed
      /\ CatalogBacked /\ SavedCatalogBacked
      /\ InOrderStarts /\ InOrderSaves /\ LastSave /\ FailuresSeen
  BY DEF StoreInv
<1>1. /\ stored' = stored /\ savedCatalog' = savedCatalog /\ lost' = lost /\ hurt' = hurt
      /\ catalog' = catalog \cup Pages(path)
  BY DEF storeVars, Register
<1>2. catalog' \in SUBSET AllPages /\ \A p \in catalog' : Pages(p) \subseteq catalog'
  BY <1>0, <1>1, PagesArePages DEF StoreTyped, CatalogClosed
<1>3. catalog' \subseteq stored \cup lost
  BY <1>0, <1>1 DEF CatalogBacked
<1>4. PICK snap : snap = Snapshot(catalog')
  OBVIOUS
<1>5. snap \subseteq AllPages /\ Merge(snap) \subseteq catalog'
  BY <1>2, <1>4, SnapshotIsCatalog
<1>6. PICK c : c = PutCall(CatalogKey, snap)
  OBVIOUS
<1>7. /\ c \in Call /\ c.key = CatalogKey /\ c.op = "put" /\ c.value = snap
      /\ c.stage = "new" /\ c.task = 0
  BY <1>5, <1>6 DEF Call, PutCall, Keys, Stages
<1>8. io' = io \o <<c>>
  BY <1>4, <1>6 DEF Register, ScheduleCatalogSave, Submit
<1>9. PICK n : n = Len(io) + 1
  OBVIOUS
<1>10. /\ io' \in Seq(Call) /\ Calls' = Calls \cup {n} /\ n \notin Calls
       /\ \A j \in Calls : io'[j] = io[j] /\ j < n
       /\ io'[n] = c
  <2>1. Len(io) \in Nat /\ <<c>> \in Seq(Call) /\ Len(<<c>>) = 1 /\ <<c>>[1] = c
    BY <1>0, <1>7, CallTypes
  <2>2. /\ io' \in Seq(Call) /\ Len(io') = Len(io) + 1
        /\ \A j \in Calls : io'[j] = io[j]
        /\ \A j \in Calls' : j \notin Calls => io'[j] = <<c>>[j - Len(io)]
    BY <1>0, <1>8, <2>1, SubmitCalls
  <2>3. /\ Calls' = Calls \cup {n} /\ n \notin Calls /\ n - Len(io) = 1
        /\ \A j \in Calls : j < n
    BY <1>9, <2>1, <2>2 DEF Calls
  <2>4. io'[n] = c
    BY <2>1, <2>2, <2>3
  <2> QED
    BY <2>2, <2>3, <2>4
<1>11. Saves' = Saves \cup {n} /\ Saves \subseteq Calls
  BY <1>7, <1>10 DEF Saves
<1>a. StoreTyped'
  BY <1>0, <1>1, <1>2, <1>10 DEF StoreTyped
<1>b. PutsOwnTasks'
  BY <1>0, <1>7, <1>10 DEF PutsOwnTasks
<1>c. WritesBacked'
  <2>1. ASSUME NEW j \in Calls', io'[j].op = "put"
        PROVE  /\ io'[j].key # CatalogKey /\ io'[j].stage = "ok" => io'[j].key \in stored \cup lost
               /\ io'[j].key = CatalogKey => Merge(io'[j].value) \subseteq stored \cup lost
    <3>1. CASE j \in Calls
      BY <1>0, <1>10, <2>1, <3>1 DEF WritesBacked
    <3>2. CASE j = n
      BY <1>3, <1>5, <1>7, <1>10, <3>2
    <3> QED
      BY <1>10, <3>1, <3>2
  <2> QED
    BY <1>1, <2>1 DEF WritesBacked
<1>d. CatalogClosed' /\ CatalogBacked' /\ SavedCatalogBacked'
  BY <1>0, <1>1, <1>2, <1>3 DEF CatalogClosed, CatalogBacked, SavedCatalogBacked
<1>e. InOrderStarts'
  <2>1. ASSUME NEW j \in Calls', NEW k \in Calls', j < k, io'[j].stage = "new"
        PROVE  io'[k].stage = "new"
    <3>1. CASE k = n
      BY <1>7, <1>10, <3>1
    <3>2. CASE k \in Calls
      <4>1. j # n
        BY <1>0, <1>9, <2>1, <3>2, CallTypes DEF Calls
      <4> QED
        BY <1>0, <1>10, <2>1, <3>2, <4>1 DEF InOrderStarts
    <3> QED
      BY <1>10, <3>1, <3>2
  <2> QED
    BY <2>1 DEF InOrderStarts
<1>f. InOrderSaves'
  <2>1. ASSUME NEW j \in Saves', NEW k \in Saves', j < k, Resolved(k)' PROVE Resolved(j)'
    <3>1. k # n
      BY <1>7, <1>10, <2>1 DEF Resolved
    <3>2. k \in Saves /\ Resolved(k)
      BY <1>10, <1>11, <2>1, <3>1 DEF Resolved
    <3>3. j \in Saves
      <4>1. j # n
        BY <1>0, <1>9, <1>11, <2>1, <3>2, CallTypes DEF Calls
      <4> QED
        BY <1>11, <4>1
    <3>4. Resolved(j)
      BY <1>0, <2>1, <3>2, <3>3 DEF InOrderSaves
    <3> QED
      BY <1>10, <1>11, <3>3, <3>4 DEF Resolved
  <2> QED
    BY <2>1 DEF InOrderSaves
<1>g. LastSave'
  <2>1. ASSUME NEW g \in Saves', \A j \in Saves' : j <= g
        PROVE  /\ io'[g].value = Snapshot(catalog')
               /\ io'[g].stage # "ok"
    <3>1. g = n
      <4>1. n <= g /\ (g \in Calls => g < n)
        BY <1>10, <1>11, <2>1
      <4>2. n \in Nat /\ (g \in Calls => g \in Nat)
        BY <1>0, <1>9, CallTypes DEF Calls
      <4> QED
        BY <1>11, <2>1, <4>1, <4>2
    <3> QED
      BY <1>4, <1>7, <1>10, <3>1
  <2> QED
    BY <2>1 DEF LastSave
<1>h. FailuresSeen'
  BY <1>0, <1>1, <1>7, <1>10 DEF FailuresSeen, Failed
<1>i. StoreInv'
  BY <1>a, <1>b, <1>c, <1>d, <1>e, <1>f, <1>g, <1>h DEF StoreInv
<1> QED
  BY <1>1, <1>4, <1>6, <1>7, <1>8, <1>i

---------------------------------------------------------------------------
(* Steps that leave the calls alone, the backend's losses, crash and restart *)

LEMMA SameCallsKeepStore ==
    ASSUME StoreInv, UNCHANGED <<storeVars, catalog, io>>, hurt' \in BOOLEAN, hurt => hurt'
    PROVE  StoreInv'
<1>1. /\ stored' = stored /\ savedCatalog' = savedCatalog /\ lost' = lost
      /\ catalog' = catalog /\ io' = io
  BY DEF storeVars
<1>2. Calls' = Calls
  BY <1>1 DEF Calls
<1>3. Saves' = Saves
  BY <1>1, <1>2 DEF Saves
<1>4. FailuresSeen'
  <2>1. CASE hurt
    BY <2>1 DEF FailuresSeen
  <2>2. CASE \A j \in Calls : ~Failed(j)
    BY <1>1, <1>2, <2>2 DEF FailuresSeen, Failed
  <2> QED
    BY <2>1, <2>2 DEF StoreInv, FailuresSeen
<1>5. StoreTyped'
  BY <1>1 DEF StoreInv, StoreTyped
<1>6. PutsOwnTasks' /\ WritesBacked' /\ CatalogClosed'
  BY <1>1, <1>2 DEF StoreInv, PutsOwnTasks, WritesBacked, CatalogClosed
<1>7. CatalogBacked' /\ SavedCatalogBacked'
  BY <1>1 DEF StoreInv, CatalogBacked, SavedCatalogBacked
<1>8. InOrderStarts' /\ InOrderSaves' /\ LastSave'
  BY <1>1, <1>2, <1>3 DEF StoreInv, InOrderStarts, InOrderSaves, LastSave, Resolved
<1> QED
  BY <1>4, <1>5, <1>6, <1>7, <1>8 DEF StoreInv

LEMMA EvictedKeepsStore ==
    ASSUME StoreInv, NEW p \in stored, Evicted(p)
    PROVE  StoreInv'
<1>1. /\ stored' \cup lost' = stored \cup lost /\ savedCatalog' = savedCatalog
      /\ catalog' = catalog /\ io' = io /\ hurt' = hurt
  BY DEF Evicted, serviceVars, ghostVars
<1>2. Calls' = Calls
  BY <1>1 DEF Calls
<1>3. Saves' = Saves
  BY <1>1, <1>2 DEF Saves
<1>4. FailuresSeen'
  BY <1>1, <1>2 DEF StoreInv, FailuresSeen, Failed
<1>5. StoreTyped'
  BY <1>1 DEF StoreInv, StoreTyped
<1>6. PutsOwnTasks' /\ CatalogClosed'
  BY <1>1, <1>2 DEF StoreInv, PutsOwnTasks, CatalogClosed
<1>7. WritesBacked' /\ CatalogBacked' /\ SavedCatalogBacked'
  BY <1>1, <1>2 DEF StoreInv, WritesBacked, CatalogBacked, SavedCatalogBacked
<1>8. InOrderStarts' /\ InOrderSaves' /\ LastSave'
  BY <1>1, <1>2, <1>3 DEF StoreInv, InOrderStarts, InOrderSaves, LastSave, Resolved
<1> QED
  BY <1>4, <1>5, <1>6, <1>7, <1>8 DEF StoreInv

\* A process without calls: only the catalogs and the backend matter.
LEMMA NoCallsStore ==
    ASSUME StoreTyped, io = <<>>, CatalogClosed, CatalogBacked, SavedCatalogBacked
    PROVE  StoreInv
<1>1. Calls = {}
  BY EmptySeq DEF Calls
<1>2. Saves = {}
  BY <1>1 DEF Saves
<1> QED
  BY <1>1, <1>2 DEF StoreInv, PutsOwnTasks, WritesBacked, InOrderStarts, InOrderSaves, LastSave,
                    FailuresSeen

LEMMA CrashKeepsStore ==
    ASSUME StoreInv, Crash
    PROVE  StoreInv'
<1>1. PICK W \in SUBSET {i \in DOMAIN io : Turn(i) /\ io[i].op = "put"} : Written(W)
  BY DEF Crash
<1>2. StoreTyped /\ SavedCatalogBacked /\ WritesBacked
  BY DEF StoreInv
<1>3. \A i \in W : /\ i \in Calls /\ io[i].op = "put" /\ io[i].value \subseteq AllPages
  BY <1>1, <1>2, CallTypes
<1>4. catalog' = {} /\ io' = <<>> /\ hurt' = FALSE
  BY DEF Crash
<1>5. stored \subseteq stored' /\ lost' = lost
  BY <1>1 DEF Written
<1>6. /\ savedCatalog' \in {NoCatalog, Unreadable} \cup SUBSET AllPages
      /\ Merge(savedCatalog') \subseteq stored \cup lost
  <2> DEFINE snaps == {io[i].value : i \in {j \in W : io[j].key = CatalogKey}}
  <2>1. CASE snaps = {}
    BY <1>1, <1>2, <2>1 DEF Written, StoreTyped, SavedCatalogBacked
  <2>2. CASE snaps # {}
    <3>1. savedCatalog' = CHOOSE s \in snaps : TRUE
      BY <1>1, <2>2 DEF Written
    <3>2. savedCatalog' \in snaps
      <4> HIDE DEF snaps
      <4> QED
        BY <2>2, <3>1
    <3>3. PICK i \in W : io[i].key = CatalogKey /\ savedCatalog' = io[i].value
      BY <3>2
    <3> QED
      BY <1>2, <1>3, <3>3 DEF WritesBacked
  <2> QED
    BY <2>1, <2>2
<1>7. StoreTyped'
  <2>1. catalog' \subseteq AllPages /\ io' \in Seq(Call) /\ hurt' \in BOOLEAN
    BY <1>4, EmptySeq
  <2> QED
    BY <1>6, <2>1 DEF StoreTyped
<1>8. CatalogClosed' /\ CatalogBacked' /\ SavedCatalogBacked'
  BY <1>4, <1>5, <1>6 DEF CatalogClosed, CatalogBacked, SavedCatalogBacked
<1>9. Calls' = {}
  BY <1>4, EmptySeq DEF Calls
<1>10. Saves' = {}
  BY <1>9 DEF Saves
<1> QED
  BY <1>7, <1>8, <1>9, <1>10 DEF StoreInv, PutsOwnTasks, WritesBacked, InOrderStarts,
                                  InOrderSaves, LastSave, FailuresSeen

LEMMA RestartKeepsStore ==
    ASSUME StoreInv, Restart, io = <<>>
    PROVE  StoreInv'
<1>0. StoreTyped /\ SavedCatalogBacked
  BY DEF StoreInv
<1>1. /\ stored' = stored /\ savedCatalog' = savedCatalog /\ lost' = lost
      /\ io' = io /\ hurt' = hurt
  BY DEF Restart, storeVars, ghostVars
<1>2. /\ Merge(savedCatalog) \subseteq AllPages
      /\ \A p \in Merge(savedCatalog) : Pages(p) \subseteq Merge(savedCatalog)
  BY <1>0, MergeIsPages DEF StoreTyped
<1>3. catalog' = Merge(savedCatalog) \/ catalog' = {}
  BY DEF Restart
<1>4. StoreTyped' /\ CatalogClosed' /\ CatalogBacked' /\ SavedCatalogBacked'
  BY <1>0, <1>1, <1>2, <1>3 DEF StoreTyped, CatalogClosed, CatalogBacked, SavedCatalogBacked
<1>5. Calls' = {}
  BY <1>1, EmptySeq DEF Calls
<1>6. Saves' = {}
  BY <1>5 DEF Saves
<1> QED
  BY <1>4, <1>5, <1>6 DEF StoreInv, PutsOwnTasks, WritesBacked, InOrderStarts, InOrderSaves,
                          LastSave, FailuresSeen

---------------------------------------------------------------------------
(* The engine's promises *)

\* A call stays what it is and the catalog only grows while the process lives.
Kept ==
    /\ Calls \subseteq Calls' /\ catalog \subseteq catalog'
    /\ \A j \in Calls : io'[j].op = io[j].op /\ io'[j].key = io[j].key

LEMMA CoversKept ==
    ASSUME Kept, NEW writes, NEW path, Covers(writes, path)
    PROVE  Covers(writes, path)'
  BY DEF Kept, Covers

LEMMA SavesKept ==
    ASSUME Kept, Saves # {}
    PROVE  Saves' # {}
<1>1. PICK i \in Saves : TRUE
  OBVIOUS
<1>2. i \in Saves'
  BY <1>1 DEF Kept, Saves
<1> QED
  BY <1>2

LEMMA KeptByCalls ==
    ASSUME KeepsCalls, catalog' = catalog
    PROVE  Kept
  BY DEF KeepsCalls, Kept, Calls

LEMMA KeptBySubmit ==
    ASSUME StoreTyped, NEW calls \in Seq(Call), io' = io \o calls, catalog \subseteq catalog'
    PROVE  Kept
  BY SubmitCalls DEF Kept

LEMMA KeptByStutter ==
    ASSUME io' = io, catalog' = catalog
    PROVE  Kept
  BY DEF Kept, Calls

LEMMA EngineFields ==
    ASSUME engine \in Engines
    PROVE  /\ engine.pc \in {"down", "idle", "flushing", "closed", "publishing", "exporting",
                             "sweeping"}
           /\ engine.pc = "publishing" => engine.path \in Paths /\ engine.puts \subseteq Nat
           /\ engine.pc = "exporting" => engine.path \in Paths
           /\ engine.pc = "sweeping" => /\ engine.todo \in Seq(Batch) /\ engine.exiting \in BOOLEAN
                                        /\ engine \in [pc : {"sweeping"}, todo : Seq(Batch),
                                                       exiting : BOOLEAN]
<1>1. CASE engine \in [pc : {"down", "idle", "flushing", "closed"}]
  BY <1>1
<1>2. CASE engine \in [pc : {"publishing"}, path : Paths, puts : SUBSET Nat]
  BY <1>2
<1>3. CASE engine \in [pc : {"exporting"}, path : Paths, required : SUBSET AllPages]
  BY <1>3
<1>4. CASE engine \in [pc : {"sweeping"}, todo : Seq(Batch), exiting : BOOLEAN]
  BY <1>4
<1> QED
  BY <1>1, <1>2, <1>3, <1>4 DEF Engines

\* The engine goes on to another state and no batch ends; marks may be dropped.
LEMMA EngineMoves ==
    ASSUME EngineInv, Kept, batches' = batches, owed' = owed, hurt => hurt',
           inflight' \in [DOMAIN inflight' -> Nat],
           \A p \in DOMAIN inflight' : p \in DOMAIN inflight /\ inflight'[p] = inflight[p],
           engine' \in Engines, EngineReady'
    PROVE  EngineInv'
<1>0. /\ EngineTyped /\ BatchesCover /\ InflightIsPut /\ InflightOwned /\ OwedAccounted
  BY DEF EngineInv
<1>1. EngineTyped'
  BY <1>0 DEF EngineTyped
<1>2. BatchesCover'
  <2>1. \A b \in Range(batches) : Covers(b.writes, b.path)
    BY <1>0 DEF BatchesCover
  <2>2. ASSUME NEW b \in Range(batches) PROVE Covers(b.writes, b.path)'
    <3>1. PICK w, path : w = b.writes /\ path = b.path
      OBVIOUS
    <3>2. Covers(w, path)'
      BY <2>1, <3>1, CoversKept
    <3> QED
      BY <3>1, <3>2
  <2> QED
    BY <2>2 DEF BatchesCover
<1>3. InflightIsPut'
  BY <1>0 DEF InflightIsPut, Kept
<1>4. InflightOwned'
  BY <1>0 DEF InflightOwned
<1>5. OwedAccounted'
  <2>1. CASE hurt'
    BY <2>1 DEF OwedAccounted
  <2>2. CASE ~hurt'
    <3>1. ASSUME NEW path \in owed
          PROVE  \/ \E b \in Range(batches) : b.path = path
                 \/ Pages(path) \subseteq catalog' /\ Saves' # {}
      BY <1>0, <2>2, SavesKept DEF OwedAccounted, Kept
    <3> QED
      BY <3>1 DEF OwedAccounted
  <2> QED
    BY <2>1, <2>2
<1> QED
  BY <1>1, <1>2, <1>3, <1>4, <1>5 DEF EngineInv

\* The same, when the marks are left alone too and the engine's new state is one
\* that relies on nothing.
LEMMA EngineReturnsIdle ==
    ASSUME EngineInv, Kept, batches' = batches, owed' = owed, hurt => hurt',
           inflight' = inflight, engine' = Idle
    PROVE  EngineInv'
<1>1. engine' \in Engines /\ engine'.pc = "idle"
  BY DEF Idle, Engines
<1>2. EngineReady'
  BY <1>1 DEF EngineReady
<1>3. inflight' \in [DOMAIN inflight' -> Nat]
  BY DEF EngineInv, EngineTyped
<1> QED
  BY <1>1, <1>2, <1>3, EngineMoves

\* What a batch covers is written once its writes are.
LEMMA CoveredIsWritten ==
    ASSUME StoreInv, NEW writes, NEW path, Covers(writes, path),
           \A i \in writes : io[i].stage = "ok"
    PROVE  Pages(path) \subseteq stored \cup lost \cup catalog
<1>1. ASSUME NEW p \in Pages(path), p \notin catalog PROVE p \in stored \cup lost
  <2>1. PICK i \in writes : io[i].key = p /\ i \in Calls /\ io[i].op = "put" /\ p # CatalogKey
    BY <1>1 DEF Covers
  <2> QED
    BY <2>1 DEF StoreInv, WritesBacked
<1> QED
  BY <1>1

---------------------------------------------------------------------------
(* One lemma per action *)

LEMMA LoopStep ==
    ASSUME IndInv, Loop
    PROVE  IndInv'
<1>0. StoreInv /\ EngineInv /\ StoreTyped /\ PutsOwnTasks
  BY DEF IndInv, StoreInv
<1>1. PICK i \in DOMAIN io : Start(i) \/ PutSucceeds(i) \/ GetSucceeds(i) \/ IOFails(i)
  BY DEF Loop
<1>2. StoreInv'
  BY <1>0, <1>1, LoopKeepsStore
<1>3. /\ catalog' = catalog /\ inflight' = inflight /\ batches' = batches
      /\ engine' = engine /\ owed' = owed
  BY <1>1 DEF Start, PutSucceeds, GetSucceeds, IOFails, serviceVars, ghostVars
<1>4. KeepsCalls /\ (\A j \in Calls : Resolved(j) => Resolved(j)') /\ (hurt => hurt')
  <2>1. CASE Start(i)
    <3>1. /\ KeepsCalls /\ io[i].stage = "new" /\ \A j \in Calls : j # i => io'[j] = io[j]
      BY <1>0, <2>1, StartCalls
    <3>2. hurt' = hurt
      BY <2>1 DEF Start, ghostVars
    <3> QED
      BY <3>1, <3>2 DEF Resolved
  <2>2. ASSUME NEW result, NEW answer, Ends(i, result, answer)
        PROVE  KeepsCalls /\ (\A j \in Calls : Resolved(j) => Resolved(j)') /\ (hurt => hurt')
    <3>1. /\ KeepsCalls /\ io'[i].stage = result
          /\ \A j \in Calls : /\ j # i /\ io[j].task = i => io'[j].stage = answer
                              /\ j # i /\ io[j].task # i => io'[j] = io[j]
      BY <1>0, <2>2, EndsCalls
    <3>2. result \in {"ok", "missing", "failed"} /\ answer \in {"ok", "missing", "failed"}
          /\ (hurt => hurt')
      BY <2>2 DEF Ends
    <3>3. ASSUME NEW j \in Calls, Resolved(j) PROVE Resolved(j)'
      BY <3>1, <3>2, <3>3 DEF Resolved
    <3> QED
      BY <3>1, <3>2, <3>3
  <2> QED
    BY <1>0, <1>1, <2>1, <2>2, PutEnds, GetEnds, FailureEnds
<1>5. Kept /\ Calls' = Calls
  BY <1>3, <1>4, KeptByCalls DEF KeepsCalls, Calls
<1>6. engine.pc # "down"
  <2>1. io = <<>> => DOMAIN io = {}
    BY <1>0, EmptySeq, CallTypes DEF Calls
  <2> QED
    BY <1>0, <1>1, <2>1 DEF EngineInv, EngineReady
<1>7. EngineReady'
  <2>1. engine.pc = "publishing" => Covers(engine.puts, engine.path)'
    <3>1. PICK w, path : w = engine.puts /\ path = engine.path
      OBVIOUS
    <3>2. engine.pc = "publishing" => Covers(w, path)'
      BY <1>0, <1>5, <3>1, CoversKept DEF EngineInv, EngineReady
    <3>3. w = engine'.puts /\ path = engine'.path
      BY <1>3, <3>1
    <3> QED
      BY <1>3, <3>1, <3>2, <3>3
  <2>2. ASSUME engine.pc = "sweeping", NEW b \in Range(engine.todo)
        PROVE  Covers(b.writes, b.path)'
    <3>1. PICK w, path : w = b.writes /\ path = b.path
      OBVIOUS
    <3>2. Covers(w, path)'
      BY <1>0, <1>5, <2>2, <3>1, CoversKept DEF EngineInv, EngineReady
    <3> QED
      BY <3>1, <3>2
  <2>3. engine.pc = "closed" => hurt' \/ \A j \in Calls' : Resolved(j)'
    BY <1>0, <1>4, <1>5 DEF EngineInv, EngineReady
  <2> QED
    BY <1>0, <1>3, <1>6, <2>1, <2>2, <2>3 DEF EngineInv, EngineReady
<1>8. engine' \in Engines /\ inflight' \in [DOMAIN inflight' -> Nat]
  BY <1>0, <1>3 DEF EngineInv, EngineTyped
<1>9. EngineInv'
  BY <1>0, <1>3, <1>4, <1>5, <1>7, <1>8, EngineMoves
<1> QED
  BY <1>2, <1>9 DEF IndInv

\* Steps that touch neither calls, catalog nor anything the engine relies on.
LEMMA SameEngineStep ==
    ASSUME EngineInv, UNCHANGED <<io, catalog, inflight, batches, engine, owed, hurt>>
    PROVE  EngineInv'
<1>1. Calls' = Calls
  BY DEF Calls
<1>2. Saves' = Saves
  BY <1>1 DEF Saves
<1>3. \A w, path : Covers(w, path) => Covers(w, path)'
  BY <1>1 DEF Covers
<1>4. BatchesCover' /\ InflightIsPut' /\ InflightOwned' /\ EngineTyped'
  BY <1>1 DEF EngineInv, BatchesCover, InflightIsPut, InflightOwned, EngineTyped, Covers
<1>5. EngineReady'
  BY <1>1 DEF EngineInv, EngineReady, Covers, Resolved
<1>6. OwedAccounted'
  BY <1>2 DEF EngineInv, OwedAccounted
<1> QED
  BY <1>4, <1>5, <1>6 DEF EngineInv

LEMMA RegisterStep ==
    ASSUME IndInv, NEW path \in Paths, RegisterExistingPrefix(path)
    PROVE  IndInv'
<1>0. StoreInv /\ EngineInv /\ StoreTyped
  BY DEF IndInv, StoreInv
<1>1. /\ Register(path) /\ Pages(path) \subseteq stored /\ UNCHANGED <<storeVars, hurt>>
      /\ engine = Idle /\ engine' = engine /\ inflight' = inflight /\ batches' = batches
      /\ owed' = owed
  BY DEF RegisterExistingPrefix, ghostVars
<1>2. StoreInv' /\ Kept
  <2>1. /\ StoreInv'
        /\ io' = io \o <<PutCall(CatalogKey, Snapshot(catalog'))>>
        /\ catalog' = catalog \cup Pages(path)
        /\ PutCall(CatalogKey, Snapshot(catalog')) \in Call
    BY <1>0, <1>1, RegisterKeepsStore
  <2>2. PICK c \in Call : c = PutCall(CatalogKey, Snapshot(catalog'))
    BY <2>1
  <2>3. <<c>> \in Seq(Call) /\ io' = io \o <<c>>
    BY <2>1, <2>2
  <2> QED
    BY <1>0, <2>1, <2>3, KeptBySubmit
<1>3. EngineInv'
  BY <1>0, <1>1, <1>2, EngineReturnsIdle
<1> QED
  BY <1>2, <1>3 DEF IndInv

\* publish_prefix: the puts cover the path.
LEMMA PublishStep ==
    ASSUME IndInv, NEW path \in Paths, PublishPrefix(path)
    PROVE  IndInv'
<1>0. StoreInv /\ EngineInv /\ StoreTyped
  BY DEF IndInv, StoreInv
<1>1. PICK calls : /\ calls = [k \in 1..Len(path) |-> PutCall(PageSeq(path)[k], {})]
                   /\ io' = io \o calls
  BY DEF PublishPrefix, Submit
<1>2. /\ UNCHANGED <<storeVars, catalog, hurt>> /\ inflight' = inflight
      /\ batches' = batches /\ owed' = owed
      /\ engine' = [pc |-> "publishing", path |-> path,
                    puts |-> (Len(io) + 1)..(Len(io) + Len(path))]
  BY DEF PublishPrefix, serviceVars
<1>3. Len(path) \in Nat /\ path \in Seq(Range(path)) /\ Len(io) \in Nat
  BY <1>0, PathsAssumption, LenProperties, CallTypes
<1>4. ASSUME NEW k \in 1..Len(path)
      PROVE  /\ SubSeq(path, 1, k) \in Pages(path)
             /\ calls[k] = PutCall(SubSeq(path, 1, k), {})
  <2>1. k \in 0..Len(path) /\ 0 \in 0..k
    BY <1>3
  <2>2. Len(SubSeq(path, 1, k)) = k
    BY <1>3, <2>1, PrefixOfPrefix
  <2>3. SubSeq(path, 1, k) # <<>>
    BY <1>3, <2>2, EmptySeq
  <2> QED
    BY <1>1, <2>1, <2>3 DEF Pages, Prefixes, PageSeq
<1>5. \A k \in 1..Len(path) :
          /\ calls[k] \in Call /\ calls[k].op = "put" /\ calls[k].key = SubSeq(path, 1, k)
          /\ calls[k].key \in AllPages /\ calls[k].stage = "new" /\ calls[k].task = 0
  <2>1. Pages(path) \subseteq AllPages
    BY PagesArePages
  <2>2. ASSUME NEW k \in 1..Len(path)
        PROVE  /\ calls[k] \in Call /\ calls[k].op = "put" /\ calls[k].key = SubSeq(path, 1, k)
               /\ calls[k].key \in AllPages /\ calls[k].stage = "new" /\ calls[k].task = 0
    <3>1. PICK p \in AllPages : p = SubSeq(path, 1, k) /\ calls[k] = PutCall(p, {})
      BY <1>4, <2>1
    <3>2. PICK c : c = calls[k] /\ c = PutCall(p, {})
      BY <3>1, Zenon
    <3>3. c \in Call /\ c.op = "put" /\ c.key = p /\ c.stage = "new" /\ c.task = 0
      BY <3>2, PageCall
    <3> QED
      BY <3>1, <3>2, <3>3, Zenon
  <2> QED
    BY <2>2
<1>6. calls \in Seq(Call) /\ Len(calls) = Len(path) /\ PageCalls(calls)
  <2>1. calls \in Seq(Call) /\ Len(calls) = Len(path)
    BY <1>1, <1>3, <1>5
  <2> QED
    BY <1>5, <2>1 DEF PageCalls
<1>7. StoreInv'
  BY <1>0, <1>1, <1>2, <1>6, SubmitKeepsStore
<1>8. Kept
  BY <1>0, <1>1, <1>2, <1>6, KeptBySubmit
<1>9. PICK puts : puts = (Len(io) + 1)..(Len(io) + Len(path))
  OBVIOUS
<1>10. Covers(puts, path)'
  <2>1. /\ Len(io') = Len(io) + Len(path)
        /\ \A j \in Calls' : j \notin Calls => io'[j] = calls[j - Len(io)]
    BY <1>0, <1>1, <1>6, SubmitCalls
  <2>2. \A k \in 1..Len(path) : /\ Len(io) + k \in puts /\ Len(io) + k \in Calls'
                                /\ io'[Len(io) + k] = calls[k]
    <3>1. ASSUME NEW k \in 1..Len(path)
          PROVE  /\ Len(io) + k \in puts /\ Len(io) + k \in Calls' /\ Len(io) + k \notin Calls
                 /\ (Len(io) + k) - Len(io) = k
      BY <1>3, <1>9, <2>1 DEF Calls
    <3> QED
      BY <2>1, <3>1
  <2>3. \A i \in puts : i - Len(io) \in 1..Len(path) /\ i = Len(io) + (i - Len(io))
    BY <1>3, <1>9
  <2>4. \A i \in puts : i \in Calls' /\ io'[i].op = "put" /\ io'[i].key # CatalogKey
    BY <1>5, <2>2, <2>3, PagesArePages
  <2>5. ASSUME NEW p \in Pages(path) PROVE \E i \in puts : io'[i].key = p
    <3>1. PICK l \in 0..Len(path) : p = SubSeq(path, 1, l) /\ p # <<>>
      BY DEF Pages, Prefixes
    <3>2. l # 0
      BY <3>1, SubSeqEmpty
    <3>3. l \in 1..Len(path)
      BY <1>3, <3>1, <3>2
    <3> QED
      BY <1>5, <2>2, <3>1, <3>3
  <2> QED
    BY <2>4, <2>5 DEF Covers
<1>11. engine' \in Engines /\ engine'.pc = "publishing" /\ engine'.path = path
       /\ engine'.puts = puts
  BY <1>2, <1>3, <1>9 DEF Engines
<1>12. EngineReady'
  BY <1>10, <1>11 DEF EngineReady
<1>13. inflight' \in [DOMAIN inflight' -> Nat]
  BY <1>0, <1>2 DEF EngineInv, EngineTyped
<1>14. EngineInv'
  BY <1>0, <1>2, <1>8, <1>11, <1>12, <1>13, EngineMoves
<1> QED
  BY <1>7, <1>14 DEF IndInv

LEMMA PublishReturnsStep ==
    ASSUME IndInv, PublishReturns
    PROVE  IndInv'
<1>0. StoreInv /\ EngineInv /\ StoreTyped
  BY DEF IndInv, StoreInv
<1>1. PICK path, puts : path = engine.path /\ puts = engine.puts
  OBVIOUS
<1>2. /\ engine.pc = "publishing" /\ Register(path) /\ UNCHANGED <<storeVars, hurt>>
      /\ \A i \in puts : io[i].stage = "ok"
      /\ engine' = Idle /\ inflight' = inflight /\ batches' = batches /\ owed' = owed
  BY <1>1 DEF PublishReturns, ghostVars
<1>3. path \in Paths /\ Covers(puts, path)
  BY <1>0, <1>1, <1>2, EngineFields DEF EngineInv, EngineTyped, EngineReady
<1>4. Pages(path) \subseteq stored \cup lost \cup catalog
  BY <1>0, <1>2, <1>3, CoveredIsWritten
<1>5. StoreInv' /\ Kept
  <2>1. /\ StoreInv'
        /\ io' = io \o <<PutCall(CatalogKey, Snapshot(catalog'))>>
        /\ catalog' = catalog \cup Pages(path)
        /\ PutCall(CatalogKey, Snapshot(catalog')) \in Call
    BY <1>0, <1>2, <1>3, <1>4, RegisterKeepsStore
  <2>2. PICK c \in Call : c = PutCall(CatalogKey, Snapshot(catalog'))
    BY <2>1
  <2>3. <<c>> \in Seq(Call) /\ io' = io \o <<c>>
    BY <2>1, <2>2
  <2> QED
    BY <1>0, <2>1, <2>3, KeptBySubmit
<1>6. EngineInv'
  BY <1>0, <1>2, <1>5, EngineReturnsIdle
<1> QED
  BY <1>5, <1>6 DEF IndInv

\* The engine gives up an operation, or stops waiting.
LEMMA GiveUpStep ==
    ASSUME IndInv, PublishRaises \/ PublishTimesOut \/ ExportFails
    PROVE  IndInv'
<1>0. StoreInv /\ EngineInv /\ StoreTyped
  BY DEF IndInv, StoreInv
<1>1. /\ UNCHANGED <<storeVars, catalog, io>> /\ engine' = Idle /\ inflight' = inflight
      /\ batches' = batches /\ owed' = owed
      /\ hurt' = hurt \/ hurt' = TRUE
  BY DEF PublishRaises, PublishTimesOut, ExportFails, serviceVars, ghostVars
<1>2. hurt' \in BOOLEAN /\ (hurt => hurt')
  BY <1>0, <1>1 DEF StoreTyped
<1>3. StoreInv'
  BY <1>0, <1>1, <1>2, SameCallsKeepStore
<1>4. EngineInv'
  BY <1>0, <1>1, <1>2, KeptByStutter, EngineReturnsIdle
<1> QED
  BY <1>3, <1>4 DEF IndInv

\* The first half of a write-back: failed marks are dropped.
LEMMA RequiringWriteStep ==
    ASSUME IndInv, NEW path \in Paths, PagesRequiringWrite(path)
    PROVE  IndInv'
<1>0. StoreInv /\ EngineInv /\ StoreTyped
  BY DEF IndInv, StoreInv
<1>1. /\ UNCHANGED <<storeVars, catalog, io>> /\ batches' = batches /\ owed' = owed
      /\ hurt' = hurt
      /\ engine' = [pc |-> "exporting", path |-> path,
                    required |-> Unpublished(path) \ DOMAIN inflight']
  BY DEF PagesRequiringWrite, ghostVars
<1>2. PICK retry : inflight' = [p \in DOMAIN inflight \ retry |-> inflight[p]]
  BY DEF PagesRequiringWrite, ForgetFailed, Restrict
<1>3. /\ inflight' \in [DOMAIN inflight' -> Nat]
      /\ \A p \in DOMAIN inflight' : p \in DOMAIN inflight /\ inflight'[p] = inflight[p]
  BY <1>0, <1>2 DEF EngineInv, EngineTyped
<1>4. engine' \in Engines /\ engine'.pc = "exporting"
  BY <1>1, PagesArePages DEF Engines, Unpublished
<1>5. EngineReady'
  BY <1>4 DEF EngineReady
<1>6. StoreInv'
  BY <1>0, <1>1, SameCallsKeepStore DEF StoreTyped
<1>7. EngineInv'
  BY <1>0, <1>1, <1>3, <1>4, <1>5, KeptByStutter, EngineMoves
<1> QED
  BY <1>6, <1>7 DEF IndInv

LEMMA InOrderIsSeq ==
    ASSUME NEW F \in SUBSET AllPages, NEW fresh \in InOrder(F)
    PROVE  /\ fresh \in Seq(F) /\ DOMAIN fresh = 1..Len(fresh) /\ Len(fresh) \in Nat
           /\ \A p \in F : \E k \in DOMAIN fresh : fresh[k] = p
<1>1. Cardinality(F) \in Nat
  BY PagesFinite, FS_Subset, FS_CardinalityType
<1>2. fresh \in [1..Cardinality(F) -> F] /\ Range(fresh) = F
  BY DEF InOrder
<1>3. fresh \in Seq(F)
  BY <1>1, <1>2
<1> QED
  BY <1>2, <1>3, LenProperties DEF Range

\* What submit_writeback does with the pages of plan, of which new are not in flight.
Enqueues(path, plan, new) ==
    \E fresh \in InOrder(new) :
        /\ io' = io \o [k \in DOMAIN fresh |-> PutCall(fresh[k], {})]
        /\ inflight' = [p \in DOMAIN inflight \cup new |->
                          IF p \in new
                          THEN Len(io) + (CHOOSE k \in DOMAIN fresh : fresh[k] = p)
                          ELSE inflight[p]]
        /\ batches' = Append(batches, [path |-> path, writes |-> {inflight'[p] : p \in plan}])
        /\ owed' = owed \cup {path}

\* The second half: the new puts and the ones in flight make up the batch.
LEMMA SubmitWritebackStep ==
    ASSUME IndInv, SubmitWriteback
    PROVE  IndInv'
<1>0. StoreInv /\ EngineInv /\ StoreTyped
  BY DEF IndInv, StoreInv
<1>1. PICK path : path = engine.path
  OBVIOUS
<1>2. PICK plan, new : plan = Unpublished(path) /\ new = plan \ DOMAIN inflight
  OBVIOUS
<1>3. engine.pc = "exporting" /\ engine' = Idle /\ UNCHANGED <<storeVars, catalog, hurt>>
  BY DEF SubmitWriteback
<1>4. path \in Paths
  BY <1>0, <1>1, <1>3, EngineFields DEF EngineInv, EngineTyped
<1>5. plan = Pages(path) \ catalog /\ plan \subseteq AllPages /\ new \in SUBSET AllPages
  BY <1>2, <1>4, PagesArePages DEF Unpublished
<1>6. CASE UNCHANGED <<inflight, batches, io, owed>>
  <2>1. StoreInv'
    BY <1>0, <1>3, <1>6, SameCallsKeepStore DEF StoreTyped
  <2>2. EngineInv'
    BY <1>0, <1>3, <1>6, KeptByStutter, EngineReturnsIdle
  <2> QED
    BY <2>1, <2>2 DEF IndInv
<1>7. ASSUME NEW fresh \in InOrder(new),
             io' = io \o [k \in DOMAIN fresh |-> PutCall(fresh[k], {})],
             inflight' = [p \in DOMAIN inflight \cup new |->
                            IF p \in new
                            THEN Len(io) + (CHOOSE k \in DOMAIN fresh : fresh[k] = p)
                            ELSE inflight[p]],
             batches' = Append(batches, [path |-> path, writes |-> {inflight'[p] : p \in plan}]),
             owed' = owed \cup {path}
      PROVE  IndInv'
  <2>1. /\ fresh \in Seq(new) /\ DOMAIN fresh = 1..Len(fresh) /\ Len(fresh) \in Nat
        /\ \A p \in new : \E k \in DOMAIN fresh : fresh[k] = p
    BY <1>5, InOrderIsSeq
  <2>2. PICK calls : calls = [k \in DOMAIN fresh |-> PutCall(fresh[k], {})]
    OBVIOUS
  <2>3. \A k \in 1..Len(fresh) :
            /\ fresh[k] \in AllPages /\ calls[k] = PutCall(fresh[k], {})
            /\ calls[k] \in Call /\ calls[k].op = "put"
            /\ calls[k].key = fresh[k] /\ calls[k].stage = "new" /\ calls[k].task = 0
    <3>1. \A k \in 1..Len(fresh) : fresh[k] \in AllPages /\ calls[k] = PutCall(fresh[k], {})
      BY <1>5, <2>1, <2>2, ElementOfSeq
    <3> QED
      BY <3>1, PageCall
  <2>4. calls \in Seq(Call) /\ Len(calls) = Len(fresh) /\ PageCalls(calls)
    <3>1. calls \in Seq(Call) /\ Len(calls) = Len(fresh)
      BY <2>1, <2>2, <2>3
    <3> QED
      BY <2>3, <3>1 DEF PageCalls
  <2>5. io' = io \o calls
    BY <1>7, <2>2
  <2>6. StoreInv'
    BY <1>0, <1>3, <2>4, <2>5, SubmitKeepsStore
  <2>7. Kept
    BY <1>0, <1>3, <2>4, <2>5, KeptBySubmit
  <2>8. /\ Len(io) \in Nat /\ Len(io') = Len(io) + Len(fresh)
        /\ \A j \in Calls' : j \notin Calls => io'[j] = calls[j - Len(io)]
    BY <1>0, <2>4, <2>5, SubmitCalls, CallTypes
  <2>9. ASSUME NEW p \in new
        PROVE  /\ inflight'[p] \in Calls' /\ io'[inflight'[p]].op = "put"
               /\ io'[inflight'[p]].key = p /\ inflight'[p] \in Nat
    <3>1. PICK k : k = CHOOSE j \in DOMAIN fresh : fresh[j] = p
      OBVIOUS
    <3>2. k \in DOMAIN fresh /\ fresh[k] = p
      BY <2>1, <3>1, Zenon
    <3>3. inflight'[p] = Len(io) + k
      BY <1>7, <3>1
    <3>4. /\ Len(io) + k \in Calls' /\ Len(io) + k \notin Calls /\ (Len(io) + k) - Len(io) = k
          /\ Len(io) + k \in Nat /\ k \in 1..Len(fresh)
      BY <2>1, <2>8, <3>2 DEF Calls
    <3>5. io'[Len(io) + k] = calls[k]
      BY <2>8, <3>4
    <3> QED
      BY <2>3, <3>2, <3>3, <3>4, <3>5
  <2>10. /\ DOMAIN inflight' = DOMAIN inflight \cup new
         /\ \A p \in DOMAIN inflight : inflight'[p] = inflight[p] /\ p \notin new
    BY <1>2, <1>7
  <2>11. /\ InflightIsPut /\ InflightOwned /\ BatchesCover /\ OwedAccounted /\ EngineTyped
    BY <1>0 DEF EngineInv
  <2>12. inflight' \in [DOMAIN inflight' -> Nat]
    <3>1. \A p \in DOMAIN inflight' : inflight'[p] \in Nat
      BY <2>9, <2>10, <2>11 DEF EngineTyped
    <3>2. inflight' = [p \in DOMAIN inflight' |-> inflight'[p]]
      BY <1>7, <2>10
    <3> QED
      BY <3>1, <3>2
  <2>13. InflightIsPut'
    <3>1. ASSUME NEW p \in DOMAIN inflight'
          PROVE  /\ p # CatalogKey /\ inflight'[p] \in Calls'
                 /\ io'[inflight'[p]].op = "put" /\ io'[inflight'[p]].key = p
      <4>1. CASE p \in new
        BY <1>5, <2>9, <4>1, PagesArePages
      <4>2. CASE p \in DOMAIN inflight
        BY <2>7, <2>10, <2>11, <4>2 DEF InflightIsPut, Kept
      <4> QED
        BY <2>10, <4>1, <4>2
    <3> QED
      BY <3>1 DEF InflightIsPut
  <2>14. plan \subseteq DOMAIN inflight'
    BY <1>2, <2>10
  <2>15. PICK writes : writes = {inflight'[p] : p \in plan}
    OBVIOUS
  <2>16. PICK batch : batch = [path |-> path, writes |-> writes]
    OBVIOUS
  <2>17. batch \in Batch /\ batch.path = path /\ batch.writes = writes
    <3>1. writes \subseteq Nat
      BY <2>12, <2>14, <2>15
    <3> QED
      BY <1>4, <2>16, <3>1 DEF Batch
  <2>18. Covers(writes, path)'
    <3>1. \A i \in writes : i \in Calls' /\ io'[i].op = "put" /\ io'[i].key # CatalogKey
      BY <2>13, <2>14, <2>15 DEF InflightIsPut
    <3>2. ASSUME NEW p \in Pages(path), p \notin catalog' PROVE \E i \in writes : io'[i].key = p
      <4>1. p \in plan
        BY <1>3, <1>5, <3>2
      <4> QED
        BY <2>13, <2>14, <2>15, <4>1 DEF InflightIsPut
    <3> QED
      BY <3>1, <3>2 DEF Covers
  <2>19. batches' = Append(batches, batch)
    BY <1>7, <2>15, <2>16
  <2>20. batches' \in Seq(Batch) /\ Range(batches') = Range(batches) \cup {batch}
    <3>1. batches \in Seq(Batch)
      BY <2>11 DEF EngineTyped
    <3>2. /\ batches' \in Seq(Batch) /\ Len(batches') = Len(batches) + 1
          /\ \A i \in 1..Len(batches) : batches'[i] = batches[i]
          /\ batches'[Len(batches) + 1] = batch
          /\ Len(batches) \in Nat
      BY <2>17, <2>19, <3>1, AppendProperties, LenProperties
    <3>3. /\ Range(batches) = {batches[i] : i \in 1..Len(batches)}
          /\ Range(batches') = {batches'[i] : i \in 1..(Len(batches) + 1)}
      BY <3>1, <3>2, RangeEquality
    <3>4. 1..(Len(batches) + 1) = 1..Len(batches) \cup {Len(batches) + 1}
      BY <3>2
    <3> QED
      BY <3>2, <3>3, <3>4
  <2>21. BatchesCover'
    <3>1. ASSUME NEW b \in Range(batches) PROVE Covers(b.writes, b.path)'
      <4>1. PICK w, q : w = b.writes /\ q = b.path
        OBVIOUS
      <4>2. Covers(w, q)'
        BY <2>7, <2>11, <4>1, CoversKept DEF BatchesCover
      <4> QED
        BY <4>1, <4>2
    <3> QED
      BY <2>17, <2>18, <2>20, <3>1 DEF BatchesCover
  <2>22. InflightOwned'
    <3>1. ASSUME NEW p \in DOMAIN inflight'
          PROVE  \E b \in Range(batches') : inflight'[p] \in b.writes
      <4>1. CASE p \in new
        <5>1. inflight'[p] \in writes
          BY <1>2, <2>15, <4>1
        <5> QED
          BY <2>17, <2>20, <5>1
      <4>2. CASE p \in DOMAIN inflight
        BY <2>10, <2>11, <2>20, <4>2 DEF InflightOwned
      <4> QED
        BY <2>10, <4>1, <4>2
    <3> QED
      BY <3>1 DEF InflightOwned
  <2>23. OwedAccounted'
    <3>1. CASE hurt'
      BY <3>1 DEF OwedAccounted
    <3>2. CASE ~hurt'
      <4>1. ASSUME NEW q \in owed'
            PROVE  \/ \E b \in Range(batches') : b.path = q
                   \/ Pages(q) \subseteq catalog' /\ Saves' # {}
        <5>1. CASE q = path
          BY <2>17, <2>20, <5>1
        <5>2. CASE q \in owed
          BY <1>3, <2>7, <2>11, <2>20, <3>2, <5>2, SavesKept DEF OwedAccounted
        <5> QED
          BY <1>7, <5>1, <5>2
      <4> QED
        BY <4>1 DEF OwedAccounted
    <3> QED
      BY <3>1, <3>2
  <2>24. engine' \in Engines /\ engine'.pc = "idle"
    BY <1>3 DEF Idle, Engines
  <2>25. EngineReady'
    BY <2>24 DEF EngineReady
  <2>26. EngineTyped'
    BY <1>4, <1>7, <2>11, <2>12, <2>20, <2>24 DEF EngineTyped
  <2>27. EngineInv'
    BY <2>13, <2>21, <2>22, <2>23, <2>25, <2>26 DEF EngineInv
  <2> QED
    BY <2>6, <2>27 DEF IndInv
<1>8. \/ UNCHANGED <<inflight, batches, io, owed>>
      \/ Enqueues(engine.path, Unpublished(engine.path), Unpublished(engine.path) \ DOMAIN inflight)
  BY Zenon DEF SubmitWriteback, Submit, Enqueues
<1>9. UNCHANGED <<inflight, batches, io, owed>> \/ Enqueues(path, plan, new)
  BY <1>1, <1>2, <1>8, Zenon
<1>10. ASSUME Enqueues(path, plan, new) PROVE IndInv'
  BY <1>7, <1>10 DEF Enqueues
<1> QED
  BY <1>6, <1>9, <1>10

\* The sweep walks over a copy of the batches.
LEMMA ProcessStep ==
    ASSUME IndInv, NEW exiting \in BOOLEAN, ProcessRemoteWritebacks(exiting)
    PROVE  IndInv'
<1>0. StoreInv /\ EngineInv /\ StoreTyped /\ EngineTyped /\ BatchesCover
  BY DEF IndInv, StoreInv, EngineInv
<1>1. /\ UNCHANGED <<storeVars, catalog, io>> /\ inflight' = inflight /\ batches' = batches
      /\ owed' = owed /\ hurt' = hurt
      /\ engine' = [pc |-> "sweeping", todo |-> batches, exiting |-> exiting]
  BY DEF ProcessRemoteWritebacks, serviceVars, ghostVars
<1>2. engine' \in Engines
  BY <1>0, <1>1 DEF Engines, EngineTyped
<1>3. engine'.pc = "sweeping" /\ engine'.todo = batches
  BY <1>1
<1>4. \A b \in Range(batches) : Covers(b.writes, b.path)'
  <2>1. ASSUME NEW b \in Range(batches) PROVE Covers(b.writes, b.path)'
    <3>1. PICK w, path : w = b.writes /\ path = b.path
      OBVIOUS
    <3>2. Covers(w, path)'
      BY <1>0, <1>1, <3>1, CoversKept, KeptByStutter DEF BatchesCover
    <3> QED
      BY <3>1, <3>2
  <2> QED
    BY <2>1
<1>5. EngineReady'
  BY <1>1, <1>3, <1>4 DEF EngineReady
<1>6. StoreInv'
  BY <1>0, <1>1, SameCallsKeepStore DEF StoreTyped
<1>7. EngineInv'
  BY <1>0, <1>1, <1>2, <1>5, KeptByStutter, EngineMoves DEF EngineTyped
<1> QED
  BY <1>6, <1>7 DEF IndInv

LEMMA AdvanceTodo ==
    ASSUME engine \in Engines, engine.pc = "sweeping", engine.todo # <<>>, Advance
    PROVE  /\ engine' \in Engines /\ engine'.pc = "sweeping"
           /\ engine'.todo = Tail(engine.todo) /\ engine'.exiting = engine.exiting
           /\ Head(engine.todo) \in Range(engine.todo) /\ Head(engine.todo) \in Batch
           /\ Range(Tail(engine.todo)) \subseteq Range(engine.todo)
           /\ engine.todo \in Seq(Batch) /\ engine.exiting \in BOOLEAN
<1>1. /\ engine.todo \in Seq(Batch) /\ engine.exiting \in BOOLEAN
      /\ engine \in [pc : {"sweeping"}, todo : Seq(Batch), exiting : BOOLEAN]
  BY EngineFields
<1>2. PICK s \in Seq(Batch) : s = engine.todo /\ s # <<>>
  BY <1>1
<1>3. /\ Head(s) \in Batch /\ Tail(s) \in Seq(Batch) /\ Len(Tail(s)) = Len(s) - 1
      /\ \A i \in 1..Len(Tail(s)) : Tail(s)[i] = s[i + 1]
      /\ Len(s) \in Nat \ {0} /\ Head(s) = s[1]
  BY <1>2, HeadTailProperties, EmptySeq
<1>4. /\ Range(s) = {s[i] : i \in 1..Len(s)}
      /\ Range(Tail(s)) = {Tail(s)[i] : i \in 1..Len(Tail(s))}
  BY <1>3, RangeEquality, ZenonT(40)
<1>5. Head(s) \in Range(s) /\ Range(Tail(s)) \subseteq Range(s)
  BY <1>3, <1>4
<1>6. /\ engine' \in [pc : {"sweeping"}, todo : Seq(Batch), exiting : BOOLEAN]
      /\ engine'.pc = "sweeping" /\ engine'.todo = Tail(s) /\ engine'.exiting = engine.exiting
  BY <1>1, <1>2, <1>3 DEF Advance
<1> QED
  BY <1>1, <1>2, <1>3, <1>5, <1>6 DEF Engines

\* A batch ends: its path is registered, or something failed.
LEMMA SettleKeepsEngine ==
    ASSUME EngineInv, Kept, engine.pc = "sweeping", engine.todo # <<>>, Advance,
           NEW batch, batch = Head(engine.todo), Settle(batch), owed' = owed, hurt => hurt',
           hurt' \/ (Pages(batch.path) \subseteq catalog' /\ Saves' # {})
    PROVE  EngineInv'
<1>0. /\ EngineTyped /\ BatchesCover /\ InflightIsPut /\ InflightOwned /\ EngineReady
      /\ OwedAccounted
  BY DEF EngineInv
<1>1. /\ engine' \in Engines /\ engine'.pc = "sweeping"
      /\ engine'.todo = Tail(engine.todo) /\ engine'.exiting = engine.exiting
      /\ Range(Tail(engine.todo)) \subseteq Range(engine.todo)
      /\ engine.todo \in Seq(Batch)
  BY <1>0, AdvanceTodo DEF EngineTyped
<1>2. /\ inflight' = [p \in {q \in DOMAIN inflight : inflight[q] \notin batch.writes} |->
                        inflight[p]]
      /\ batches' = RemoveFirst(batches, batch)
  BY DEF Settle, Restrict
<1>3. /\ batches' \in Seq(Batch) /\ Range(batches') \subseteq Range(batches)
      /\ \A b \in Range(batches) : b # batch => b \in Range(batches')
      /\ batches # <<>> /\ batch = Head(batches) => batches' = Tail(batches)
  BY <1>0, <1>2, RemoveFirstProperties DEF EngineTyped
<1>4. /\ inflight' \in [DOMAIN inflight' -> Nat]
      /\ \A p \in DOMAIN inflight' : /\ p \in DOMAIN inflight /\ inflight'[p] = inflight[p]
                                     /\ inflight[p] \notin batch.writes
  BY <1>0, <1>2 DEF EngineTyped
<1>5. EngineTyped'
  BY <1>0, <1>1, <1>3, <1>4 DEF EngineTyped
<1>6. \A w, path : Covers(w, path) => Covers(w, path)'
  BY CoversKept
<1>7. BatchesCover'
  <2>1. ASSUME NEW b \in Range(batches') PROVE Covers(b.writes, b.path)'
    <3>1. PICK w, path : w = b.writes /\ path = b.path
      OBVIOUS
    <3>2. Covers(w, path)'
      BY <1>0, <1>3, <1>6, <3>1 DEF BatchesCover
    <3> QED
      BY <3>1, <3>2
  <2> QED
    BY <2>1 DEF BatchesCover
<1>8. InflightIsPut'
  BY <1>0, <1>4 DEF InflightIsPut, Kept
<1>9. InflightOwned'
  <2>1. ASSUME NEW p \in DOMAIN inflight' PROVE \E b \in Range(batches') : inflight'[p] \in b.writes
    <3>1. PICK b \in Range(batches) : inflight[p] \in b.writes
      BY <1>0, <1>4 DEF InflightOwned
    <3>2. b # batch
      BY <1>4, <3>1
    <3> QED
      BY <1>3, <1>4, <3>1, <3>2
  <2> QED
    BY <2>1 DEF InflightOwned
<1>10. EngineReady'
  <2>1. ASSUME NEW b \in Range(engine'.todo) PROVE Covers(b.writes, b.path)'
    <3>1. PICK w, path : w = b.writes /\ path = b.path
      OBVIOUS
    <3>2. Covers(w, path)'
      BY <1>0, <1>1, <1>6, <2>1, <3>1 DEF EngineReady
    <3> QED
      BY <3>1, <3>2
  <2>2. ASSUME engine'.exiting PROVE engine'.todo = batches'
    <3>1. engine.todo = batches
      BY <1>0, <1>1, <2>2 DEF EngineReady
    <3> QED
      BY <1>1, <1>3, <3>1
  <2> QED
    BY <1>1, <2>1, <2>2 DEF EngineReady
<1>11. OwedAccounted'
  <2>1. CASE hurt'
    BY <2>1 DEF OwedAccounted
  <2>2. CASE ~hurt'
    <3>1. ASSUME NEW path \in owed
          PROVE  \/ \E b \in Range(batches') : b.path = path
                 \/ Pages(path) \subseteq catalog' /\ Saves' # {}
      <4>1. CASE \E b \in Range(batches) : b.path = path
        BY <1>3, <2>2, <4>1
      <4>2. CASE Pages(path) \subseteq catalog /\ Saves # {}
        BY <4>2, SavesKept DEF Kept
      <4> QED
        BY <1>0, <2>2, <4>1, <4>2 DEF OwedAccounted
    <3> QED
      BY <3>1 DEF OwedAccounted
  <2> QED
    BY <2>1, <2>2
<1> QED
  BY <1>5, <1>7, <1>8, <1>9, <1>10, <1>11 DEF EngineInv

LEMMA SweepOneStep ==
    ASSUME IndInv, SweepOne
    PROVE  IndInv'
<1>0. /\ StoreInv /\ EngineInv /\ StoreTyped /\ EngineTyped /\ EngineReady /\ FailuresSeen
  BY DEF IndInv, StoreInv, EngineInv
<1>1. PICK batch : batch = Head(engine.todo)
  OBVIOUS
<1>2. /\ engine.pc = "sweeping" /\ engine.todo # <<>> /\ Advance
      /\ UNCHANGED <<storeVars, hurt>> /\ owed' = owed
  BY DEF SweepOne, ghostVars
<1>3. /\ engine' \in Engines /\ engine'.pc = "sweeping"
      /\ engine'.todo = Tail(engine.todo) /\ engine'.exiting = engine.exiting
      /\ batch \in Range(engine.todo) /\ batch \in Batch
      /\ Range(Tail(engine.todo)) \subseteq Range(engine.todo)
  BY <1>0, <1>1, <1>2, AdvanceTodo DEF EngineTyped
<1>4. PICK writes, path : writes = batch.writes /\ path = batch.path
  OBVIOUS
<1>5. Covers(writes, path) /\ path \in Paths
  BY <1>0, <1>2, <1>3, <1>4 DEF EngineReady, Batch
<1>6. CASE CompleteWriteback(batch)
  <2>1. /\ \A i \in writes : io[i].stage = "ok"
        /\ Register(path) /\ Settle(batch)
    BY <1>4, <1>6 DEF CompleteWriteback, BatchWritten
  <2>2. Pages(path) \subseteq stored \cup lost \cup catalog
    BY <1>0, <1>5, <2>1, CoveredIsWritten
  <2>3. /\ StoreInv'
        /\ io' = io \o <<PutCall(CatalogKey, Snapshot(catalog'))>>
        /\ catalog' = catalog \cup Pages(path)
        /\ PutCall(CatalogKey, Snapshot(catalog')) \in Call
    BY <1>0, <1>2, <1>5, <2>1, <2>2, RegisterKeepsStore
  <2>4. PICK c \in Call : c = PutCall(CatalogKey, Snapshot(catalog'))
    BY <2>3
  <2>5. <<c>> \in Seq(Call) /\ io' = io \o <<c>> /\ c.key = CatalogKey
        /\ Len(<<c>>) = 1 /\ <<c>>[1] = c
    BY <2>3, <2>4 DEF PutCall
  <2>6. Kept
    BY <1>0, <2>3, <2>5, KeptBySubmit
  <2>7. Saves' # {}
    <3>1. /\ Len(io) \in Nat /\ Len(io') = Len(io) + 1
          /\ \A j \in Calls' : j \notin Calls => io'[j] = <<c>>[j - Len(io)]
      BY <1>0, <2>5, SubmitCalls, CallTypes
    <3>2. Len(io) + 1 \in Calls' /\ Len(io) + 1 \notin Calls /\ (Len(io) + 1) - Len(io) = 1
      BY <3>1 DEF Calls
    <3>3. io'[Len(io) + 1] = c
      BY <2>5, <3>1, <3>2
    <3>4. Len(io) + 1 \in Saves'
      BY <2>5, <3>2, <3>3 DEF Saves
    <3> QED
      BY <3>4
  <2>8. Pages(batch.path) \subseteq catalog'
    BY <1>4, <2>3
  <2>9. EngineInv'
    BY <1>0, <1>1, <1>2, <2>1, <2>6, <2>7, <2>8, SettleKeepsEngine
  <2> QED
    BY <2>3, <2>9 DEF IndInv
<1>7. CASE BatchFailed(batch) /\ FailWriteback(batch)
  <2>1. Settle(batch) /\ catalog' = catalog /\ io' = io
    BY <1>7 DEF FailWriteback
  <2>2. PICK i \in writes : Failed(i)
    BY <1>4, <1>7 DEF BatchFailed
  <2>3. i \in Calls
    BY <1>5, <2>2 DEF Covers
  <2>4. hurt
    BY <1>0, <2>2, <2>3 DEF FailuresSeen
  <2>5. hurt' /\ hurt' \in BOOLEAN
    BY <1>0, <1>2, <2>4 DEF StoreTyped
  <2>6. StoreInv'
    BY <1>0, <1>2, <2>1, <2>5, SameCallsKeepStore
  <2>7. EngineInv'
    BY <1>0, <1>1, <1>2, <2>1, <2>5, KeptByStutter, SettleKeepsEngine
  <2> QED
    BY <2>6, <2>7 DEF IndInv
<1>8. CASE ~engine.exiting /\ UNCHANGED <<catalog, inflight, batches, saves, io>>
  <2>1. Kept
    BY <1>8, KeptByStutter
  <2>2. ASSUME NEW b \in Range(engine'.todo) PROVE Covers(b.writes, b.path)'
    <3>1. PICK w, q : w = b.writes /\ q = b.path
      OBVIOUS
    <3>2. Covers(w, q)'
      BY <1>0, <1>2, <1>3, <2>1, <2>2, <3>1, CoversKept DEF EngineReady
    <3> QED
      BY <3>1, <3>2
  <2>3. EngineReady'
    BY <1>3, <1>8, <2>2 DEF EngineReady
  <2>4. StoreInv'
    BY <1>0, <1>2, <1>8, SameCallsKeepStore DEF StoreTyped
  <2>5. EngineInv'
    BY <1>0, <1>2, <1>3, <1>8, <2>1, <2>3, EngineMoves DEF EngineTyped
  <2> QED
    BY <2>4, <2>5 DEF IndInv
<1> QED
  BY <1>1, <1>6, <1>7, <1>8 DEF SweepOne

LEMMA SweepTimesOutStep ==
    ASSUME IndInv, SweepTimesOut
    PROVE  IndInv'
<1>0. StoreInv /\ EngineInv
  BY DEF IndInv
<1>1. PICK batch : batch = Head(engine.todo)
  OBVIOUS
<1>2. /\ engine.pc = "sweeping" /\ engine.todo # <<>> /\ Advance /\ Settle(batch)
      /\ UNCHANGED <<storeVars, catalog, io>> /\ owed' = owed /\ hurt' = TRUE
  BY <1>1 DEF SweepTimesOut, FailWriteback
<1>3. StoreInv'
  BY <1>0, <1>2, SameCallsKeepStore
<1>4. EngineInv'
  BY <1>0, <1>1, <1>2, KeptByStutter, SettleKeepsEngine
<1> QED
  BY <1>3, <1>4 DEF IndInv

\* The end of a sweep; an exiting one has left no batch.
LEMMA SweepEndStep ==
    ASSUME IndInv, SweepEnd
    PROVE  IndInv'
<1>0. StoreInv /\ EngineInv /\ StoreTyped /\ EngineTyped /\ EngineReady
  BY DEF IndInv, StoreInv, EngineInv
<1>1. /\ engine.pc = "sweeping" /\ engine.todo = <<>>
      /\ UNCHANGED <<storeVars, catalog, io>> /\ owed' = owed /\ hurt' = hurt
      /\ inflight' = inflight /\ batches' = batches
      /\ engine' = IF engine.exiting THEN [pc |-> "flushing"] ELSE Idle
  BY DEF SweepEnd, ghostVars
<1>2. StoreInv'
  BY <1>0, <1>1, SameCallsKeepStore DEF StoreTyped
<1>3. CASE engine.exiting
  <2>1. engine'.pc = "flushing" /\ engine' \in Engines
    BY <1>1, <1>3 DEF Engines
  <2>2. batches' = <<>>
    BY <1>0, <1>1, <1>3 DEF EngineReady
  <2>3. EngineReady'
    BY <2>1, <2>2 DEF EngineReady
  <2>4. EngineInv'
    BY <1>0, <1>1, <2>1, <2>3, KeptByStutter, EngineMoves DEF EngineTyped
  <2> QED
    BY <1>2, <2>4 DEF IndInv
<1>4. CASE ~engine.exiting
  <2>1. EngineInv'
    BY <1>0, <1>1, <1>4, KeptByStutter, EngineReturnsIdle
  <2> QED
    BY <1>2, <2>1 DEF IndInv
<1> QED
  BY <1>3, <1>4

LEMMA FlushStep ==
    ASSUME IndInv, FlushOne \/ FlushTimesOut
    PROVE  IndInv'
<1>0. StoreInv /\ EngineInv /\ StoreTyped /\ EngineTyped /\ EngineReady
  BY DEF IndInv, StoreInv, EngineInv
<1>1. /\ engine.pc = "flushing" /\ engine' = engine
      /\ UNCHANGED <<storeVars, catalog, io>> /\ owed' = owed
      /\ inflight' = inflight /\ batches' = batches
      /\ hurt' = hurt \/ hurt' = TRUE
  BY DEF FlushOne, FlushTimesOut, ghostVars
<1>2. hurt' \in BOOLEAN /\ (hurt => hurt')
  BY <1>0, <1>1 DEF StoreTyped
<1>3. StoreInv'
  BY <1>0, <1>1, <1>2, SameCallsKeepStore
<1>4. EngineReady'
  BY <1>0, <1>1 DEF EngineReady
<1>5. EngineInv'
  BY <1>0, <1>1, <1>2, <1>4, KeptByStutter, EngineMoves DEF EngineTyped
<1> QED
  BY <1>3, <1>5 DEF IndInv

LEMMA CloseStep ==
    ASSUME IndInv, Close \/ CloseTimesOut
    PROVE  IndInv'
<1>0. StoreInv /\ EngineInv /\ StoreTyped /\ EngineTyped /\ EngineReady
  BY DEF IndInv, StoreInv, EngineInv
<1>1. /\ engine.pc = "flushing" /\ engine' = [pc |-> "closed"]
      /\ UNCHANGED <<storeVars, catalog, io>> /\ owed' = owed
      /\ inflight' = inflight \/ inflight' = <<>>
      /\ batches' = batches
      /\ hurt' = TRUE \/ (hurt' = hurt /\ \A i \in DOMAIN io : Resolved(i))
  BY DEF Close, CloseTimesOut, ghostVars, serviceVars
<1>2. hurt' \in BOOLEAN /\ (hurt => hurt')
  <2>1. hurt' = hurt \/ hurt' = TRUE
    BY <1>1
  <2> QED
    BY <1>0, <2>1 DEF StoreTyped
<1>3. StoreInv'
  BY <1>0, <1>1, <1>2, SameCallsKeepStore
<1>4. engine' \in Engines /\ engine'.pc = "closed"
  BY <1>1 DEF Engines
<1>5. hurt' \/ \A i \in Calls' : Resolved(i)'
  <2>1. Calls' = Calls /\ io' = io /\ Calls = DOMAIN io
    BY <1>0, <1>1, CallTypes DEF Calls
  <2>2. CASE hurt' = TRUE
    BY <2>2
  <2>3. CASE \A i \in DOMAIN io : Resolved(i)
    BY <2>1, <2>3 DEF Resolved
  <2> QED
    BY <1>1, <2>2, <2>3
<1>6. EngineReady'
  BY <1>0, <1>1, <1>4, <1>5 DEF EngineReady
<1>7. /\ inflight' \in [DOMAIN inflight' -> Nat]
      /\ \A p \in DOMAIN inflight' : p \in DOMAIN inflight /\ inflight'[p] = inflight[p]
  <2>1. CASE inflight' = inflight
    BY <1>0, <2>1 DEF EngineTyped
  <2>2. CASE inflight' = <<>>
    BY <2>2
  <2> QED
    BY <1>1, <2>1, <2>2
<1>8. EngineInv'
  BY <1>0, <1>1, <1>2, <1>4, <1>6, <1>7, KeptByStutter, EngineMoves
<1> QED
  BY <1>3, <1>8 DEF IndInv

LEMMA StartRestoreStep ==
    ASSUME IndInv, NEW path \in Paths, NEW local, StartRestore(path, local)
    PROVE  IndInv'
<1>0. StoreInv /\ EngineInv /\ StoreTyped
  BY DEF IndInv, StoreInv
<1>1. PICK wanted : wanted = {p \in Matched(path) : Len(p) > local}
  OBVIOUS
<1>2. /\ engine = Idle /\ engine' = engine /\ UNCHANGED <<storeVars, catalog, hurt>>
      /\ inflight' = inflight /\ batches' = batches /\ owed' = owed
  BY DEF StartRestore, ghostVars
<1>3. PICK pages \in InOrder(wanted) : io' = io \o [k \in DOMAIN pages |-> GetCall(pages[k])]
  BY <1>1 DEF StartRestore, Submit
<1>4. wanted \in SUBSET AllPages
  BY <1>1, PagesArePages DEF Matched
<1>5. pages \in Seq(wanted) /\ DOMAIN pages = 1..Len(pages) /\ Len(pages) \in Nat
  BY <1>3, <1>4, InOrderIsSeq
<1>6. PICK calls : calls = [k \in DOMAIN pages |-> GetCall(pages[k])]
  OBVIOUS
<1>7. \A k \in 1..Len(pages) :
          /\ pages[k] \in AllPages /\ calls[k] = GetCall(pages[k])
          /\ calls[k] \in Call /\ calls[k].key = pages[k]
          /\ calls[k].stage = "new" /\ calls[k].task = 0
  <2>1. \A k \in 1..Len(pages) : pages[k] \in AllPages /\ calls[k] = GetCall(pages[k])
    BY <1>4, <1>5, <1>6, ElementOfSeq
  <2> QED
    BY <2>1, PageCall
<1>8. calls \in Seq(Call) /\ Len(calls) = Len(pages)
  BY <1>5, <1>6, <1>7
<1>9. PageCalls(calls) /\ io' = io \o calls
  BY <1>3, <1>6, <1>7, <1>8 DEF PageCalls
<1>10. StoreInv'
  BY <1>0, <1>2, <1>9, SubmitKeepsStore
<1>11. Kept
  BY <1>0, <1>2, <1>8, <1>9, KeptBySubmit
<1>12. EngineInv'
  BY <1>0, <1>2, <1>11, EngineReturnsIdle
<1> QED
  BY <1>10, <1>12 DEF IndInv

LEMMA CrashStep ==
    ASSUME IndInv, Crash
    PROVE  IndInv'
<1>0. StoreInv
  BY DEF IndInv
<1>1. StoreInv'
  BY <1>0, CrashKeepsStore
<1>2. /\ inflight' = <<>> /\ batches' = <<>> /\ io' = <<>> /\ engine' = [pc |-> "down"]
      /\ owed' = {} /\ hurt' = FALSE
  BY DEF Crash
<1>3. engine' \in Engines /\ engine'.pc = "down"
  BY <1>2 DEF Engines
<1>4. Range(batches') = {} /\ DOMAIN inflight' = {} /\ batches' \in Seq(Batch)
  BY <1>2, EmptySeq DEF Range
<1>5. inflight' \in [DOMAIN inflight' -> Nat]
  BY <1>2
<1>6. EngineTyped'
  BY <1>2, <1>3, <1>4, <1>5 DEF EngineTyped
<1>7. BatchesCover' /\ InflightIsPut' /\ InflightOwned'
  BY <1>4 DEF BatchesCover, InflightIsPut, InflightOwned
<1>8. EngineReady'
  BY <1>2, <1>3 DEF EngineReady
<1>9. OwedAccounted'
  BY <1>2 DEF OwedAccounted
<1> QED
  BY <1>1, <1>6, <1>7, <1>8, <1>9 DEF IndInv, EngineInv

LEMMA RestartStep ==
    ASSUME IndInv, Restart
    PROVE  IndInv'
<1>0. StoreInv /\ EngineInv /\ EngineTyped /\ EngineReady
  BY DEF IndInv, EngineInv
<1>1. /\ engine.pc = "down" /\ engine' = Idle /\ io' = io /\ inflight' = inflight
      /\ batches' = batches /\ owed' = owed /\ hurt' = hurt
  BY DEF Restart, ghostVars
<1>2. io = <<>> /\ owed = {} /\ batches = <<>> /\ inflight = <<>>
  BY <1>0, <1>1 DEF EngineReady
<1>3. StoreInv'
  BY <1>0, <1>2, RestartKeepsStore
<1>4. engine' \in Engines /\ engine'.pc = "idle"
  BY <1>1 DEF Idle, Engines
<1>5. Range(batches') = {} /\ DOMAIN inflight' = {}
  BY <1>1, <1>2 DEF Range
<1>6. EngineTyped'
  BY <1>0, <1>1, <1>4 DEF EngineTyped
<1>7. BatchesCover' /\ InflightIsPut' /\ InflightOwned'
  BY <1>5 DEF BatchesCover, InflightIsPut, InflightOwned
<1>8. EngineReady'
  BY <1>4 DEF EngineReady
<1>9. OwedAccounted'
  BY <1>1, <1>2 DEF OwedAccounted
<1> QED
  BY <1>3, <1>6, <1>7, <1>8, <1>9 DEF IndInv, EngineInv

---------------------------------------------------------------------------
(* Theorems *)

LEMMA Initially ==
    ASSUME Init
    PROVE  IndInv
<1>1. /\ stored = {} /\ catalog = {} /\ io = <<>> /\ inflight = <<>> /\ batches = <<>>
      /\ engine = [pc |-> "down"] /\ owed = {} /\ hurt = FALSE /\ lost = {}
      /\ savedCatalog \in {NoCatalog, Unreadable}
  BY DEF Init
<1>2. StoreTyped
  <2>1. catalog \subseteq AllPages /\ io \in Seq(Call) /\ hurt \in BOOLEAN
    BY <1>1, EmptySeq
  <2> QED
    BY <1>1, <2>1 DEF StoreTyped
<1>3. CatalogClosed /\ CatalogBacked
  BY <1>1 DEF CatalogClosed, CatalogBacked
<1>4. SavedCatalogBacked
  BY <1>1 DEF SavedCatalogBacked, Merge
<1>5. StoreInv
  BY <1>1, <1>2, <1>3, <1>4, NoCallsStore
<1>6. engine \in Engines /\ engine.pc = "down"
  BY <1>1 DEF Engines
<1>7. Range(batches) = {} /\ DOMAIN inflight = {} /\ batches \in Seq(Batch)
  BY <1>1, EmptySeq DEF Range
<1>8. inflight \in [DOMAIN inflight -> Nat]
  BY <1>1
<1>9. EngineTyped
  BY <1>1, <1>6, <1>7, <1>8 DEF EngineTyped
<1>10. BatchesCover /\ InflightIsPut /\ InflightOwned
  BY <1>7 DEF BatchesCover, InflightIsPut, InflightOwned
<1>11. EngineReady
  BY <1>1, <1>6 DEF EngineReady
<1>12. OwedAccounted
  BY <1>1 DEF OwedAccounted
<1> QED
  BY <1>5, <1>9, <1>10, <1>11, <1>12 DEF IndInv, EngineInv

LEMMA ClientStep ==
    ASSUME IndInv, Client
    PROVE  IndInv'
<1>1. ASSUME NEW path \in Paths,
             \/ RegisterExistingPrefix(path) \/ PublishPrefix(path) \/ PagesRequiringWrite(path)
             \/ \E local \in 0..(Len(path) - 1) : StartRestore(path, local)
      PROVE  IndInv'
  BY <1>1, RegisterStep, PublishStep, RequiringWriteStep, StartRestoreStep
<1>2. ASSUME NEW gets \in restores, NEW cancelled \in BOOLEAN, EndRestore(gets, cancelled)
      PROVE  IndInv'
  <2>1. UNCHANGED <<storeVars, io, catalog, inflight, batches, engine, owed, hurt>>
    BY <1>2 DEF EndRestore, ghostVars
  <2>2. StoreInv' /\ EngineInv'
    BY <2>1, SameCallsKeepStore, SameEngineStep DEF IndInv, StoreInv, StoreTyped
  <2> QED
    BY <2>2 DEF IndInv
<1>3. ASSUME NEW exiting \in BOOLEAN, ProcessRemoteWritebacks(exiting)
      PROVE  IndInv'
  BY <1>3, ProcessStep
<1> QED
  BY <1>1, <1>2, <1>3 DEF Client

LEMMA NextStep ==
    ASSUME IndInv, [Next]_vars
    PROVE  IndInv'
<1>1. CASE Loop
  BY <1>1, LoopStep
<1>2. CASE EngineStep
  BY <1>2, PublishReturnsStep, GiveUpStep, SubmitWritebackStep, SweepOneStep, SweepEndStep,
     FlushStep, CloseStep DEF EngineStep
<1>3. CASE Timeouts
  BY <1>3, GiveUpStep, SweepTimesOutStep, FlushStep, CloseStep DEF Timeouts
<1>4. CASE Client
  BY <1>4, ClientStep
<1>5. ASSUME NEW p \in stored, Evicted(p) PROVE IndInv'
  <2>1. UNCHANGED <<io, catalog, inflight, batches, engine, owed, hurt>>
    BY <1>5 DEF Evicted, serviceVars, ghostVars
  <2> QED
    BY <1>5, <2>1, EvictedKeepsStore, SameEngineStep DEF IndInv
<1>6. CASE Crash
  BY <1>6, CrashStep
<1>7. CASE Restart
  BY <1>7, RestartStep
<1>8. CASE UNCHANGED vars
  <2>1. UNCHANGED <<storeVars, io, catalog, inflight, batches, engine, owed, hurt>>
    BY <1>8 DEF vars, serviceVars, ghostVars
  <2>2. StoreInv' /\ EngineInv'
    BY <2>1, SameCallsKeepStore, SameEngineStep DEF IndInv, StoreInv, StoreTyped
  <2> QED
    BY <2>2 DEF IndInv
<1>9. CASE Quiet
  BY <1>8, <1>9 DEF Quiet
<1> QED
  BY <1>1, <1>2, <1>3, <1>4, <1>5, <1>6, <1>7, <1>8, <1>9 DEF Next

\* The engine, its batches, the calls under way and the backend stay consistent
\* through every interleaving of the loop, the engine thread, failures, timeouts,
\* crashes and restarts.
THEOREM Invariance == Spec => []IndInv
<1>1. Init => IndInv
  BY Initially
<1>2. IndInv /\ [Next]_vars => IndInv'
  BY NextStep
<1> QED
  BY <1>1, <1>2, PTL DEF Spec

\* Whatever fails, is retried or shared between batches, the catalog in memory
\* lists only pages that were written (register_existing_prefix, publish_prefix
\* and complete_writeback register nothing else).
THEOREM CatalogStaysBacked == Spec => []CatalogBacked
<1>1. IndInv => CatalogBacked
  BY DEF IndInv, StoreInv
<1> QED
  BY <1>1, Invariance, PTL

\* A crash between any two steps, with any of the puts at the backend taking
\* effect, leaves no stored catalog that names a page never written.
THEOREM SavedCatalogStaysBacked == Spec => []SavedCatalogBacked
<1>1. IndInv => SavedCatalogBacked
  BY DEF IndInv, StoreInv
<1> QED
  BY <1>1, Invariance, PTL

\* Every mark of _inflight_writes belongs to a batch that will clear it, so no
\* page is kept from being written for ever.
THEOREM MarksStayOwned == Spec => []InflightOwned
<1>1. IndInv => InflightOwned
  BY DEF IndInv, EngineInv
<1> QED
  BY <1>1, Invariance, PTL

\* When the newest catalog save has succeeded, what is stored is the snapshot of
\* the catalog in memory: no older save overtakes it.
THEOREM NewestSaveIsStored == Spec => []LatestSaveWins
<1>1. IndInv => LatestSaveWins
  <2>1. SUFFICES ASSUME IndInv PROVE LatestSaveWins
    OBVIOUS
  <2>2. StoreTyped /\ LastSave
    BY <2>1 DEF IndInv, StoreInv
  <2>3. {i \in DOMAIN io : io[i].key = CatalogKey} = Saves
    BY <2>2, CallTypes DEF Saves
  <2>4. ASSUME NEW i \in Saves, io[i].stage = "ok", \A j \in Saves : j <= i
        PROVE  savedCatalog = Snapshot(catalog)
    BY <2>2, <2>4 DEF LastSave
  <2> QED
    BY <2>3, <2>4 DEF LatestSaveWins
<1> QED
  BY <1>1, Invariance, PTL

\* An exit during which nothing failed or timed out leaves every prefix that was
\* submitted for write-back in the stored catalog.
THEOREM ExitLosesNothing == Spec => []ExitKeepsWrites
<1>1. IndInv => ExitKeepsWrites
  <2>1. SUFFICES ASSUME IndInv, engine.pc = "closed", ~hurt, NEW path \in owed
                 PROVE  path \in Merge(savedCatalog)
    BY DEF ExitKeepsWrites
  <2>2. /\ StoreTyped /\ PutsOwnTasks /\ LastSave /\ FailuresSeen /\ CatalogClosed
        /\ EngineReady /\ OwedAccounted /\ EngineTyped
    BY <2>1 DEF IndInv, StoreInv, EngineInv
  <2>3. batches = <<>> /\ (\A i \in Calls : Resolved(i)) /\ \A i \in Calls : ~Failed(i)
    BY <2>1, <2>2 DEF EngineReady, FailuresSeen
  <2>4. Range(batches) = {}
    BY <2>3 DEF Range
  <2>5. Pages(path) \subseteq catalog /\ Saves # {}
    BY <2>1, <2>2, <2>4 DEF OwedAccounted
  <2>6. PICK g \in Saves : \A j \in Saves : j <= g
    <3>1. Len(io) \in Nat /\ Saves \in SUBSET (1..Len(io))
      BY <2>2, CallTypes DEF Saves, Calls
    <3> QED
      BY <2>5, <3>1, Greatest
  <2>7. io[g].stage = "ok"
    BY <2>2, <2>3, <2>6 DEF Saves, PutsOwnTasks, Resolved, Failed
  <2>8. savedCatalog = Snapshot(catalog)
    BY <2>2, <2>6, <2>7 DEF LastSave
  <2>9. catalog \subseteq Merge(savedCatalog)
    BY <2>2, <2>8, SnapshotKeepsAll DEF StoreTyped, CatalogClosed
  <2>10. path \in Pages(path)
    BY <2>1, <2>2, PagesArePages DEF EngineTyped
  <2> QED
    BY <2>5, <2>9, <2>10
<1> QED
  BY <1>1, Invariance, PTL

---------------------------------------------------------------------------
(* Why a fetch may miss *)

\* Only listed pages are fetched.
GetsListed == \A i \in Calls : io[i].op = "get" => io[i].key \in catalog

\* Nobody but publish_prefix writes a page after it was fetched.
PutsAfterGets ==
    \A i, j \in Calls : i < j /\ io[i].op = "get" /\ io[j].op = "put" /\ io[i].key = io[j].key =>
        io[i].key \in republished

\* Operations on one object end in order, and a fetch becomes an operation only
\* when no other is under way.
OwnInOrder ==
    \A i, j \in Calls :
        /\ i < j /\ io[i].key = io[j].key /\ io[i].task = i /\ io[j].task = j
        /\ io[j].op = "get" \/ Resolved(j)
        => Resolved(i)

\* A fetch joins the newest operation of its object.
JoinedBefore ==
    \A j \in Calls : io[j].task # 0 /\ io[j].task # j =>
        /\ io[j].op = "get" /\ io[j].task \in Calls /\ io[j].task < j
        /\ io[io[j].task].key = io[j].key
        /\ \A m \in Calls : m > io[j].task /\ io[m].task = m /\ io[m].key = io[j].key => m > j

FetchInv == GetsListed /\ PutsAfterGets /\ OwnInOrder /\ JoinedBefore /\ MissingExplained

LEMMA NewestIsLast ==
    ASSUME StoreTyped, NEW key
    PROVE  /\ Newest(key) = 0 => \A i \in Calls : ~(io[i].key = key /\ io[i].task = i)
           /\ Newest(key) # 0 => /\ Newest(key) \in Calls
                                 /\ io[Newest(key)].key = key /\ io[Newest(key)].task = Newest(key)
                                 /\ \A i \in Calls : io[i].key = key /\ io[i].task = i =>
                                        i <= Newest(key)
<1> DEFINE ops == {i \in DOMAIN io : io[i].key = key /\ io[i].task = i}
<1>0. Len(io) \in Nat /\ DOMAIN io = Calls
  BY CallTypes
<1>1. CASE ops = {}
  <2>1. Newest(key) = 0
    BY <1>1 DEF Newest
  <2> QED
    BY <1>0, <1>1, <2>1
<1>2. CASE ops # {}
  <2>1. ops \in SUBSET (1..Len(io))
    BY <1>0 DEF Calls
  <2>2. \E i \in ops : \A j \in ops : j <= i
    <3> HIDE DEF ops
    <3> QED
      BY <1>0, <1>2, <2>1, Greatest
  <2>3. PICK n : n = CHOOSE i \in ops : \A j \in ops : j <= i
    OBVIOUS
  <2>4. n \in ops /\ \A j \in ops : j <= n
    <3> HIDE DEF ops
    <3> QED
      BY <2>2, <2>3, Zenon
  <2>5. Newest(key) = n
    BY <1>2, <2>3 DEF Newest
  <2>6. n # 0
    BY <1>0, <2>1, <2>4
  <2> QED
    BY <1>0, <2>4, <2>5, <2>6
<1> QED
  BY <1>1, <1>2

\* Operation i is under way and no longer the newest: publish_prefix wrote the
\* page after every fetch that waits for i.
LEMMA Superseded ==
    ASSUME IndInv, FetchInv, NEW i \in Calls, io[i].stage = "open", io[i].task = i,
           Newest(io[i].key) # i,
           NEW j \in Calls, io[j].task = i, io[j].op = "get"
    PROVE  io[j].key = io[i].key /\ io[j].key \in republished
<1>0. /\ StoreTyped /\ PutsOwnTasks /\ GetsListed /\ PutsAfterGets /\ OwnInOrder /\ JoinedBefore
  BY DEF IndInv, StoreInv, FetchInv
<1>1. /\ Len(io) \in Nat /\ i \in Nat \ {0} /\ j \in Nat
      /\ \A k \in Calls : io[k].op \in {"put", "get"}
  BY <1>0, CallTypes DEF Calls
<1>2. PICK n : n = Newest(io[i].key)
  OBVIOUS
<1>3. /\ n \in Calls /\ io[n].key = io[i].key /\ io[n].task = n /\ i <= n /\ n # i
  BY <1>0, <1>2, NewestIsLast
<1>4. i < n /\ n \in Nat
  BY <1>1, <1>3 DEF Calls
<1>5. io[n].op = "put"
  <2>1. ~Resolved(i)
    BY DEF Resolved
  <2> QED
    BY <1>0, <1>1, <1>3, <1>4, <2>1 DEF OwnInOrder
<1>6. io[j].key = io[i].key /\ j < n
  <2>1. CASE j = i
    BY <1>4, <2>1
  <2>2. CASE j # i
    <3>1. io[j].task # 0 /\ io[j].task # j
      BY <1>1, <2>2
    <3>2. /\ io[i].key = io[j].key
          /\ \A m \in Calls : m > i /\ io[m].task = m /\ io[m].key = io[j].key => m > j
      BY <1>0, <3>1 DEF JoinedBefore
    <3>3. n > j
      BY <1>3, <1>4, <3>2
    <3> QED
      BY <1>1, <1>4, <3>2, <3>3
  <2> QED
    BY <2>1, <2>2
<1> QED
  BY <1>0, <1>3, <1>5, <1>6 DEF PutsAfterGets

LEMMA EndsKeepsFetches ==
    ASSUME IndInv, FetchInv, NEW i, NEW result, NEW answer, Ends(i, result, answer),
           republished' = republished, lost' = lost,
           result = "missing" => io[i].key \in lost \cup republished,
           \A j \in Calls : j # i /\ io[j].task = i /\ io[j].op = "get" /\ answer = "missing" =>
               io[j].key \in lost \cup republished
    PROVE  FetchInv'
<1>0. /\ StoreTyped /\ PutsOwnTasks
      /\ GetsListed /\ PutsAfterGets /\ OwnInOrder /\ JoinedBefore /\ MissingExplained
  BY DEF IndInv, StoreInv, FetchInv
<1>1. /\ KeepsCalls
      /\ io[i].stage = "open" /\ io'[i].stage = result /\ io[i].task = i
      /\ \A j \in Calls :
            /\ io'[j].task = io[j].task
            /\ j # i /\ io[j].task = i =>
                   io'[j].stage = answer /\ io[j].op = "get" /\ io[j].stage # "new"
            /\ j # i /\ io[j].task # i => io'[j] = io[j]
  BY <1>0, EndsCalls
<1>2. /\ i \in Calls /\ Calls' = Calls /\ catalog' = catalog
      /\ \A j \in Calls : /\ io'[j].op = io[j].op /\ io'[j].key = io[j].key
                          /\ io'[j].task = io[j].task
      /\ result \in {"ok", "missing", "failed"} /\ answer \in {"ok", "missing", "failed"}
  BY <1>1 DEF KeepsCalls, Ends, Calls
<1>3. GetsListed'
  BY <1>0, <1>2 DEF GetsListed
<1>4. PutsAfterGets'
  BY <1>0, <1>2 DEF PutsAfterGets
<1>5. OwnInOrder'
  <2>1. ASSUME NEW a \in Calls, NEW b \in Calls, a < b, io[a].key = io[b].key,
               io[a].task = a, io[b].task = b, io[b].op = "get" \/ Resolved(b)'
        PROVE  Resolved(a)'
    <3>1. Resolved(a) => Resolved(a)'
      BY <1>1, <1>2 DEF Resolved
    <3>2. CASE b = i
      <4>1. a \in 1..(i - 1)
        BY <1>0, <1>2, <2>1, <3>2, CallTypes DEF Calls
      <4>2. Resolved(a)
        BY <2>1, <3>2, <4>1 DEF Ends, Turn
      <4> QED
        BY <3>1, <4>2
    <3>3. CASE b # i
      <4>1. Resolved(b)' => Resolved(b)
        BY <1>1, <2>1, <3>3 DEF Resolved
      <4> QED
        BY <1>0, <2>1, <3>1, <4>1 DEF OwnInOrder
    <3> QED
      BY <3>2, <3>3
  <2>2. ASSUME NEW a \in Calls, NEW b \in Calls, a < b, io'[a].key = io'[b].key,
               io'[a].task = a, io'[b].task = b, io'[b].op = "get" \/ Resolved(b)'
        PROVE  Resolved(a)'
    BY <1>2, <2>1, <2>2
  <2> QED
    BY <1>2, <2>2 DEF OwnInOrder
<1>6. JoinedBefore'
  <2>1. ASSUME NEW j \in Calls, io'[j].task # 0, io'[j].task # j
        PROVE  /\ io'[j].op = "get" /\ io'[j].task \in Calls /\ io'[j].task < j
               /\ io'[io'[j].task].key = io'[j].key
               /\ \A m \in Calls : m > io'[j].task /\ io'[m].task = m /\ io'[m].key = io'[j].key
                                    => m > j
    BY <1>0, <1>2, <2>1 DEF JoinedBefore
  <2> QED
    BY <1>2, <2>1 DEF JoinedBefore
<1>7. MissingExplained'
  <2>1. DOMAIN io' = Calls /\ DOMAIN io = Calls
    BY <1>0, <1>1, CallTypes, LenProperties DEF KeepsCalls, Calls
  <2>2. ASSUME NEW j \in Calls, io'[j].stage = "missing" PROVE io[j].key \in lost \cup republished
    <3>1. CASE j = i
      BY <1>1, <2>2, <3>1
    <3>2. CASE j # i /\ io[j].task = i
      BY <1>1, <2>2, <3>2
    <3>3. CASE j # i /\ io[j].task # i
      BY <1>0, <1>1, <2>1, <2>2, <3>3 DEF MissingExplained
    <3> QED
      BY <3>1, <3>2, <3>3
  <2> QED
    BY <1>2, <2>1, <2>2 DEF MissingExplained
<1> QED
  BY <1>3, <1>4, <1>5, <1>6, <1>7 DEF FetchInv

LEMMA StartKeepsFetches ==
    ASSUME IndInv, FetchInv, NEW i \in DOMAIN io, Start(i)
    PROVE  FetchInv'
<1>0. /\ StoreInv /\ StoreTyped /\ PutsOwnTasks /\ InOrderStarts
      /\ GetsListed /\ PutsAfterGets /\ OwnInOrder /\ JoinedBefore /\ MissingExplained
  BY DEF IndInv, StoreInv, FetchInv
<1>1. /\ KeepsCalls /\ i \in Calls /\ io[i].stage = "new"
      /\ io'[i].stage \in {"ok", "open"}
      /\ io[i].op = "put" => io'[i].stage = "open" /\ io'[i].task = i
      /\ \A j \in Calls : j # i => io'[j] = io[j]
      /\ \A j \in Calls : j < i => io[j].stage # "new"
  BY <1>0, StartCalls
<1>2. /\ Calls' = Calls /\ catalog' = catalog /\ republished' = republished /\ lost' = lost
      /\ \A j \in Calls : /\ io'[j].op = io[j].op /\ io'[j].key = io[j].key
  BY <1>1 DEF KeepsCalls, Calls, Start, storeVars, serviceVars, ghostVars
<1>3. /\ Len(io) \in Nat /\ DOMAIN io = Calls /\ i \in Nat \ {0}
      /\ \A j \in Calls : /\ j \in Nat \ {0} /\ io[j] \in Call /\ io[j].op \in {"put", "get"}
                          /\ io[j].stage \in Stages
  BY <1>0, <1>1, CallTypes DEF Calls
\* Later calls have not started.
<1>4. \A j \in Calls : io[j].task # 0 => j < i
  <2>1. ASSUME NEW j \in Calls, io[j].task # 0 PROVE j < i
    <3>1. io[j].stage # "new"
      BY <1>0, <2>1 DEF PutsOwnTasks
    <3>2. ~(i < j) /\ i # j
      BY <1>0, <1>1, <3>1 DEF InOrderStarts
    <3> QED
      BY <1>3, <3>2
  <2> QED
    BY <2>1
<1>5. PICK n : n = Newest(io[i].key)
  OBVIOUS
<1>6. /\ n = 0 => \A j \in Calls : ~(io[j].key = io[i].key /\ io[j].task = j)
      /\ n # 0 => /\ n \in Calls /\ io[n].key = io[i].key /\ io[n].task = n
                  /\ \A j \in Calls : io[j].key = io[i].key /\ io[j].task = j => j <= n
  BY <1>0, <1>5, NewestIsLast
\* What the call becomes.
<1>7. \/ io'[i].task = 0
      \/ io'[i].task = i /\ (io[i].op = "get" => n = 0 \/ Resolved(n))
      \/ io'[i].task = n /\ n # 0 /\ io[i].op = "get"
  <2>1. CASE io[i].op = "get" /\ n # 0 /\ io[n].stage = "ok"
    <3>1. io' = [io EXCEPT ![i].stage = "ok"]
      BY <1>5, <2>1 DEF Start
    <3>2. io'[i].task = io[i].task
      BY <1>3, <3>1 DEF Call
    <3> QED
      BY <1>0, <1>1, <3>2 DEF PutsOwnTasks
  <2>2. CASE ~(io[i].op = "get" /\ n # 0 /\ io[n].stage = "ok")
    <3>1. io' = [io EXCEPT ![i].stage = "open",
                           ![i].task = IF io[i].op = "get" /\ n # 0 /\ io[n].stage = "open"
                                       THEN n ELSE i]
      BY <1>5, <2>2 DEF Start
    <3>2. io'[i].task = IF io[i].op = "get" /\ n # 0 /\ io[n].stage = "open" THEN n ELSE i
      BY <1>3, <3>1 DEF Call
    <3>3. CASE io[i].op = "get" /\ n # 0 /\ io[n].stage = "open"
      BY <3>2, <3>3
    <3>4. CASE ~(io[i].op = "get" /\ n # 0 /\ io[n].stage = "open")
      <4>1. io'[i].task = i
        BY <3>2, <3>4
      <4>2. ASSUME io[i].op = "get", n # 0 PROVE Resolved(n)
        <5>1. io[n].stage # "new" /\ io[n].stage \in Stages
          BY <1>0, <1>3, <1>6, <4>2 DEF PutsOwnTasks
        <5> QED
          BY <2>2, <3>4, <4>2, <5>1 DEF Resolved, Stages
      <4> QED
        BY <4>1, <4>2
    <3> QED
      BY <3>3, <3>4
  <2> QED
    BY <2>1, <2>2
<1>8. GetsListed' /\ PutsAfterGets'
  BY <1>0, <1>2 DEF GetsListed, PutsAfterGets
<1>9. \A j \in Calls : Resolved(j) => Resolved(j)'
  BY <1>1 DEF Resolved
<1>10. OwnInOrder'
  <2>1. ASSUME NEW a \in Calls, NEW b \in Calls, a < b, io'[a].key = io'[b].key,
               io'[a].task = a, io'[b].task = b, io'[b].op = "get" \/ Resolved(b)'
        PROVE  Resolved(a)'
    <3>1. io[a].key = io[b].key
      BY <1>2, <2>1
    <3>2. CASE b = i
      <4>1. io[a].task = a /\ a # i
        BY <1>1, <1>3, <2>1, <3>2
      <4>2. io[i].op = "get"
        BY <1>1, <1>2, <1>3, <2>1, <3>2 DEF Resolved
      <4>3. n # 0 /\ a <= n
        BY <1>6, <3>1, <3>2, <4>1
      <4>4. Resolved(n)
        <5>1. i # n
          BY <1>3, <1>4, <1>6, <4>3
        <5> QED
          BY <1>3, <1>7, <2>1, <3>2, <4>2, <4>3, <5>1
      <4>5. Resolved(a)
        <5>1. CASE a = n
          BY <4>4, <5>1
        <5>2. CASE a # n
          <6>1. a < n
            BY <1>3, <1>6, <4>3, <5>2
          <6> QED
            BY <1>0, <1>6, <3>1, <3>2, <4>1, <4>3, <4>4, <6>1 DEF OwnInOrder
        <5> QED
          BY <5>1, <5>2
      <4> QED
        BY <1>9, <4>5
    <3>3. CASE b # i
      <4>1. io'[b] = io[b] /\ io[b].task = b /\ b # 0
        BY <1>1, <1>3, <2>1, <3>3
      <4>2. b < i
        BY <1>4, <4>1
      <4>3. a # i
        BY <1>3, <2>1, <4>2
      <4>4. io[a].task = a /\ (io[b].op = "get" \/ Resolved(b))
        BY <1>1, <2>1, <4>1, <4>3 DEF Resolved
      <4> QED
        BY <1>0, <1>9, <2>1, <3>1, <4>1, <4>4 DEF OwnInOrder
    <3> QED
      BY <3>2, <3>3
  <2> QED
    BY <1>2, <2>1 DEF OwnInOrder
<1>11. JoinedBefore'
  <2>1. ASSUME NEW j \in Calls, io'[j].task # 0, io'[j].task # j
        PROVE  /\ io'[j].op = "get" /\ io'[j].task \in Calls /\ io'[j].task < j
               /\ io'[io'[j].task].key = io'[j].key
               /\ \A m \in Calls : m > io'[j].task /\ io'[m].task = m /\ io'[m].key = io'[j].key
                                    => m > j
    <3>1. CASE j = i
      <4>1. io'[i].task = n /\ n # 0 /\ io[i].op = "get"
        BY <1>7, <2>1, <3>1
      <4>2. n \in Calls /\ io[n].key = io[i].key /\ n < i
        BY <1>3, <1>4, <1>6, <4>1
      <4>3. ASSUME NEW m \in Calls, m > n, io'[m].task = m, io'[m].key = io'[i].key PROVE m > i
        <5>1. m # i
          BY <2>1, <3>1, <4>3
        <5>2. io[m].task = m /\ io[m].key = io[i].key
          BY <1>1, <1>2, <4>3, <5>1
        <5>3. m <= n
          BY <1>6, <4>1, <5>2
        <5> QED
          BY <1>3, <4>2, <4>3, <5>3
      <4> QED
        BY <1>2, <3>1, <4>1, <4>2, <4>3
    <3>2. CASE j # i
      <4>1. io'[j] = io[j] /\ io[j].task # 0 /\ io[j].task # j /\ j < i
        BY <1>1, <1>4, <2>1, <3>2
      <4>2. /\ io[j].op = "get" /\ io[j].task \in Calls /\ io[j].task < j
            /\ io[io[j].task].key = io[j].key
            /\ \A m \in Calls : m > io[j].task /\ io[m].task = m /\ io[m].key = io[j].key => m > j
        BY <1>0, <4>1 DEF JoinedBefore
      <4>3. ASSUME NEW m \in Calls, m > io[j].task, io'[m].task = m, io'[m].key = io[j].key
            PROVE  m > j
        <5>1. CASE m = i
          BY <1>3, <4>1, <5>1
        <5>2. CASE m # i
          BY <1>1, <4>2, <4>3, <5>2
        <5> QED
          BY <5>1, <5>2
      <4> QED
        BY <1>2, <4>1, <4>2, <4>3
    <3> QED
      BY <3>1, <3>2
  <2> QED
    BY <1>2, <2>1 DEF JoinedBefore
<1>12. MissingExplained'
  <2>1. DOMAIN io' = Calls
    BY <1>1, LenProperties DEF KeepsCalls, Calls
  <2>2. ASSUME NEW j \in Calls, io'[j].stage = "missing" PROVE io'[j].key \in lost \cup republished
    BY <1>0, <1>1, <1>3, <2>2 DEF MissingExplained
  <2> QED
    BY <1>2, <2>1, <2>2 DEF MissingExplained
<1> QED
  BY <1>8, <1>10, <1>11, <1>12 DEF FetchInv

LEMMA LoopKeepsFetches ==
    ASSUME IndInv, FetchInv, Loop
    PROVE  FetchInv'
<1>0. StoreInv /\ StoreTyped /\ CatalogBacked /\ GetsListed
  BY DEF IndInv, StoreInv, FetchInv
<1>1. PICK i \in DOMAIN io : Start(i) \/ PutSucceeds(i) \/ GetSucceeds(i) \/ IOFails(i)
  BY DEF Loop
<1>2. i \in Calls
  BY <1>0, CallTypes
<1>3. CASE Start(i)
  BY <1>3, StartKeepsFetches
<1>4. CASE PutSucceeds(i)
  <2>1. Ends(i, "ok", Answer(i, "ok"))
    BY <1>0, <1>4, PutEnds
  <2>2. republished' = republished /\ lost' = lost
    BY <1>4 DEF PutSucceeds, ghostVars, Written
  <2>3. io[i].stage = "open" /\ io[i].task = i
    BY <1>4 DEF PutSucceeds, Turn
  <2>4. ASSUME NEW j \in Calls, io[j].task = i, io[j].op = "get", Answer(i, "ok") = "missing"
        PROVE  io[j].key \in lost \cup republished
    <3>1. Newest(io[i].key) # i
      BY <2>4 DEF Answer
    <3> QED
      BY <1>2, <2>3, <2>4, <3>1, Superseded
  <2>5. PICK answer : answer = Answer(i, "ok")
    OBVIOUS
  <2> QED
    BY <2>1, <2>2, <2>4, <2>5, EndsKeepsFetches
<1>5. CASE GetSucceeds(i)
  <2>1. PICK found : found = Answer(i, IF io[i].key \in stored THEN "ok" ELSE "missing")
    OBVIOUS
  <2>2. /\ Turn(i) /\ io[i].op = "get" /\ Resolve(i, found, found)
        /\ UNCHANGED <<storeVars, catalog, hurt, republished>>
    BY <1>5, <2>1 DEF GetSucceeds, serviceVars, ghostVars
  <2>3. found \in {"ok", "missing"}
    BY <2>1 DEF Answer
  <2>4. Ends(i, found, found)
    BY <1>0, <1>2, <2>2, <2>3 DEF Ends, StoreTyped
  <2>5. io[i].stage = "open" /\ io[i].task = i /\ lost' = lost /\ republished' = republished
    BY <2>2 DEF Turn, storeVars
  <2>6. ASSUME NEW j \in Calls, io[j].task = i, io[j].op = "get", found = "missing"
        PROVE  io[j].key \in lost \cup republished
    <3>1. CASE Newest(io[i].key) # i
      BY <1>2, <2>5, <2>6, <3>1, Superseded
    <3>2. CASE Newest(io[i].key) = i
      <4>1. io[i].key \notin stored
        BY <2>1, <2>6, <3>2 DEF Answer
      <4>2. io[i].key \in lost
        BY <1>0, <1>2, <2>2, <4>1 DEF GetsListed, CatalogBacked
      <4>3. io[j].key = io[i].key
        <5>1. CASE j = i
          BY <5>1
        <5>2. CASE j # i
          <6>1. io[j].task # 0 /\ io[j].task # j
            BY <1>0, <1>2, <2>6, <5>2, CallTypes DEF Calls
          <6> QED
            BY <2>6, <6>1 DEF FetchInv, JoinedBefore
        <5> QED
          BY <5>1, <5>2
      <4> QED
        BY <4>2, <4>3
    <3> QED
      BY <3>1, <3>2
  <2> QED
    BY <1>2, <2>2, <2>4, <2>5, <2>6, EndsKeepsFetches
<1>6. CASE IOFails(i)
  <2>1. Ends(i, "failed", "failed")
    BY <1>0, <1>6, FailureEnds
  <2>2. republished' = republished /\ lost' = lost
    BY <1>6 DEF IOFails, Written, storeVars
  <2> QED
    BY <2>1, <2>2, EndsKeepsFetches
<1> QED
  BY <1>1, <1>3, <1>4, <1>5, <1>6

\* New calls are not started; they fetch listed pages, or write pages that are
\* not listed or that publish_prefix accounts for.
LEMMA SubmitKeepsFetches ==
    ASSUME StoreTyped, FetchInv, NEW calls \in Seq(Call), io' = io \o calls,
           catalog \subseteq catalog', lost' = lost, republished \subseteq republished',
           \A k \in 1..Len(calls) : calls[k].stage = "new" /\ calls[k].task = 0,
           \/ \A k \in 1..Len(calls) : calls[k].op = "get" /\ calls[k].key \in catalog'
           \/ \A k \in 1..Len(calls) :
                 /\ calls[k].op = "put"
                 /\ \/ calls[k].key \in republished'
                    \/ calls[k].key \notin catalog
    PROVE  FetchInv'
<1>0. GetsListed /\ PutsAfterGets /\ OwnInOrder /\ JoinedBefore /\ MissingExplained
  BY DEF FetchInv
<1>1. /\ io' \in Seq(Call) /\ Calls \subseteq Calls'
      /\ \A j \in Calls : io'[j] = io[j]
      /\ \A j \in Calls' : j \notin Calls =>
            j - Len(io) \in 1..Len(calls) /\ io'[j] = calls[j - Len(io)]
      /\ \A j \in Calls, k \in Calls' : k <= j => k \in Calls
  BY SubmitCalls
<1>2. /\ DOMAIN io = Calls /\ Len(io) \in Nat
      /\ \A j \in Calls' : j \in Nat \ {0}
  <2>1. DOMAIN io = Calls /\ Len(io) \in Nat
    BY CallTypes
  <2>2. Len(io') \in Nat
    BY <1>1, LenProperties
  <2> QED
    BY <2>1, <2>2 DEF Calls
<1>3. \A j \in Calls' : j \notin Calls =>
          /\ io'[j].stage = "new" /\ io'[j].task = 0 /\ io'[j].task # j
          /\ io'[j].op = "get" => io'[j].key \in catalog'
          /\ io'[j].op = "put" => io'[j].key \in republished' \/ io'[j].key \notin catalog
  BY <1>1, <1>2
<1>4. \/ \A j \in Calls' : j \notin Calls => io'[j].op = "get"
      \/ \A j \in Calls' : j \notin Calls => io'[j].op = "put"
  BY <1>1, ZenonT(40)
<1>5. GetsListed'
  BY <1>0, <1>1, <1>3, ZenonT(40) DEF GetsListed
<1>6. PutsAfterGets'
  <2>1. ASSUME NEW i \in Calls', NEW j \in Calls', i < j, io'[i].op = "get", io'[j].op = "put",
               io'[i].key = io'[j].key
        PROVE  io'[i].key \in republished'
    <3>1. CASE j \in Calls
      <4>1. i \in Calls
        BY <1>1, <1>2, <2>1, <3>1
      <4> QED
        <5>1. io'[i] = io[i] /\ io'[j] = io[j]
          BY <1>1, <3>1, <4>1
        <5>2. io[i].key \in republished
          BY <1>0, <2>1, <3>1, <4>1, <5>1 DEF PutsAfterGets
        <5> QED
          BY <5>1, <5>2
    <3>2. CASE j \notin Calls
      <4>1. i \in Calls
        BY <1>4, <2>1, <3>2
      <4>2. io[i].key \in catalog
        BY <1>0, <1>1, <2>1, <4>1 DEF GetsListed
      <4>3. io'[j].key \in republished' \/ io'[j].key \notin catalog
        BY <1>3, <2>1, <3>2
      <4>4. io'[i] = io[i]
        BY <1>1, <4>1
      <4> QED
        BY <2>1, <4>2, <4>3, <4>4
    <3> QED
      BY <3>1, <3>2
  <2> QED
    BY <2>1 DEF PutsAfterGets
<1>7. OwnInOrder'
  <2>1. ASSUME NEW a \in Calls', NEW b \in Calls', a < b, io'[a].key = io'[b].key,
               io'[a].task = a, io'[b].task = b, io'[b].op = "get" \/ Resolved(b)'
        PROVE  Resolved(a)'
    <3>1. a \in Calls /\ b \in Calls
      BY <1>3, <2>1
    <3>2. io'[a] = io[a] /\ io'[b] = io[b]
      BY <1>1, <3>1
    <3>3. Resolved(a)
      BY <1>0, <2>1, <3>1, <3>2 DEF OwnInOrder, Resolved
    <3> QED
      BY <3>2, <3>3 DEF Resolved
  <2> QED
    BY <2>1 DEF OwnInOrder
<1>8. JoinedBefore'
  <2>1. ASSUME NEW j \in Calls', io'[j].task # 0, io'[j].task # j
        PROVE  /\ io'[j].op = "get" /\ io'[j].task \in Calls' /\ io'[j].task < j
               /\ io'[io'[j].task].key = io'[j].key
               /\ \A m \in Calls' : m > io'[j].task /\ io'[m].task = m /\ io'[m].key = io'[j].key
                                     => m > j
    <3>1. j \in Calls /\ io'[j] = io[j]
      BY <1>1, <1>3, <2>1
    <3>2. /\ io[j].op = "get" /\ io[j].task \in Calls /\ io[j].task < j
          /\ io[io[j].task].key = io[j].key
          /\ \A m \in Calls : m > io[j].task /\ io[m].task = m /\ io[m].key = io[j].key => m > j
      BY <1>0, <2>1, <3>1 DEF JoinedBefore
    <3>3. ASSUME NEW m \in Calls', m > io[j].task, io'[m].task = m, io'[m].key = io[j].key
          PROVE  m > j
      <4>1. m \in Calls /\ io'[m] = io[m]
        BY <1>1, <1>3, <3>3
      <4> QED
        BY <3>2, <3>3, <4>1
    <3> QED
      BY <1>1, <3>1, <3>2, <3>3
  <2> QED
    BY <2>1 DEF JoinedBefore
<1>9. MissingExplained'
  <2>1. DOMAIN io' = Calls'
    BY <1>1, LenProperties DEF Calls
  <2>2. ASSUME NEW j \in Calls', io'[j].stage = "missing" PROVE io'[j].key \in lost \cup republished'
    BY <1>0, <1>1, <1>2, <1>3, <2>2 DEF MissingExplained
  <2> QED
    BY <2>1, <2>2 DEF MissingExplained
<1> QED
  BY <1>5, <1>6, <1>7, <1>8, <1>9 DEF FetchInv

LEMMA RegisterKeepsFetches ==
    ASSUME IndInv, FetchInv, NEW path \in Paths, Register(path), lost' = lost,
           republished' = republished
    PROVE  FetchInv'
<1>0. StoreTyped /\ CatalogClosed
  BY DEF IndInv, StoreInv
<1>1. PICK snap : snap = Snapshot(catalog')
  OBVIOUS
<1>2. catalog' = catalog \cup Pages(path) /\ catalog' \subseteq AllPages
  BY <1>0, PagesArePages DEF Register, StoreTyped
<1>3. snap \subseteq AllPages
  BY <1>1, <1>2 DEF Snapshot
<1>4. PICK c : c = PutCall(CatalogKey, snap)
  OBVIOUS
<1>5. /\ c \in Call /\ c.key = CatalogKey /\ c.op = "put" /\ c.stage = "new" /\ c.task = 0
  BY <1>3, <1>4 DEF Call, PutCall, Keys, Stages
<1>6. io' = io \o <<c>>
  BY <1>1, <1>4 DEF Register, ScheduleCatalogSave, Submit
<1>7. c.key \notin catalog
  BY <1>0, <1>5, PagesArePages DEF StoreTyped
<1>8. <<c>> \in Seq(Call) /\ Len(<<c>>) = 1 /\ \A k \in 1..Len(<<c>>) : <<c>>[k] = c
  BY <1>5
<1>9. PICK calls \in Seq(Call) : calls = <<c>> /\ \A k \in 1..Len(calls) : calls[k] = c
  BY <1>8
<1> QED
  BY <1>0, <1>2, <1>5, <1>6, <1>7, <1>9, SubmitKeepsFetches

LEMMA SameCallsKeepFetches ==
    ASSUME FetchInv, io' = io, catalog' = catalog, republished' = republished, lost \subseteq lost'
    PROVE  FetchInv'
<1>1. Calls' = Calls
  BY DEF Calls
<1>2. GetsListed' /\ PutsAfterGets' /\ OwnInOrder' /\ JoinedBefore'
  BY <1>1 DEF FetchInv, GetsListed, PutsAfterGets, OwnInOrder, JoinedBefore, Resolved
<1>3. MissingExplained'
  BY DEF FetchInv, MissingExplained
<1> QED
  BY <1>2, <1>3 DEF FetchInv

LEMMA PublishKeepsFetches ==
    ASSUME IndInv, FetchInv, NEW path \in Paths, PublishPrefix(path)
    PROVE  FetchInv'
<1>0. StoreTyped
  BY DEF IndInv, StoreInv
<1>1. PICK calls : /\ calls = [k \in 1..Len(path) |-> PutCall(PageSeq(path)[k], {})]
                   /\ io' = io \o calls
  BY DEF PublishPrefix, Submit
<1>2. /\ catalog' = catalog /\ lost' = lost /\ republished' = republished \cup Pages(path)
  BY DEF PublishPrefix, serviceVars, storeVars
<1>3. Len(path) \in Nat /\ path \in Seq(Range(path))
  BY PathsAssumption, LenProperties
<1>4. ASSUME NEW k \in 1..Len(path)
      PROVE  /\ calls[k] \in Call /\ calls[k].op = "put" /\ calls[k].key \in Pages(path)
             /\ calls[k].stage = "new" /\ calls[k].task = 0
  <2>1. k \in 0..Len(path) /\ 0 \in 0..k
    BY <1>3
  <2>2. Len(SubSeq(path, 1, k)) = k
    BY <1>3, <2>1, PrefixOfPrefix
  <2>3. SubSeq(path, 1, k) # <<>>
    BY <1>3, <2>2, EmptySeq
  <2>4. SubSeq(path, 1, k) \in Pages(path)
    BY <2>1, <2>3 DEF Pages, Prefixes
  <2>5. PICK p \in Pages(path) : p = SubSeq(path, 1, k)
    BY <2>4
  <2>6. p \in AllPages
    BY <2>5, PagesArePages
  <2>7. PICK c : c = calls[k] /\ c = PutCall(p, {})
    BY <1>1, <2>5 DEF PageSeq
  <2>8. c \in Call /\ c.op = "put" /\ c.key = p /\ c.stage = "new" /\ c.task = 0
    BY <2>6, <2>7, PageCall
  <2> QED
    BY <2>5, <2>7, <2>8, Zenon
<1>5. calls \in Seq(Call) /\ Len(calls) = Len(path)
  BY <1>1, <1>3, <1>4
<1> QED
  BY <1>0, <1>1, <1>2, <1>4, <1>5, SubmitKeepsFetches

LEMMA WritebackKeepsFetches ==
    ASSUME IndInv, FetchInv, SubmitWriteback
    PROVE  FetchInv'
<1>0. StoreTyped /\ EngineTyped
  BY DEF IndInv, StoreInv, EngineInv
<1>1. PICK path : path = engine.path
  OBVIOUS
<1>2. PICK plan, new : plan = Unpublished(path) /\ new = plan \ DOMAIN inflight
  OBVIOUS
<1>3. /\ engine.pc = "exporting" /\ catalog' = catalog /\ lost' = lost
      /\ republished' = republished
  BY DEF SubmitWriteback, storeVars
<1>4. path \in Paths
  BY <1>0, <1>1, <1>3, EngineFields DEF EngineTyped
<1>5. new \in SUBSET AllPages /\ \A p \in new : p \notin catalog
  BY <1>2, <1>4, PagesArePages DEF Unpublished
<1>6. \/ UNCHANGED <<inflight, batches, io, owed>>
      \/ Enqueues(engine.path, Unpublished(engine.path), Unpublished(engine.path) \ DOMAIN inflight)
  BY Zenon DEF SubmitWriteback, Submit, Enqueues
<1>7. UNCHANGED <<inflight, batches, io, owed>> \/ Enqueues(path, plan, new)
  BY <1>1, <1>2, <1>6, Zenon
<1>8. ASSUME Enqueues(path, plan, new) PROVE FetchInv'
  <2>1. PICK fresh \in InOrder(new) : io' = io \o [k \in DOMAIN fresh |-> PutCall(fresh[k], {})]
    BY <1>8 DEF Enqueues
  <2>2. fresh \in Seq(new) /\ DOMAIN fresh = 1..Len(fresh) /\ Len(fresh) \in Nat
    BY <1>5, <2>1, InOrderIsSeq
  <2>3. PICK calls : calls = [k \in DOMAIN fresh |-> PutCall(fresh[k], {})]
    OBVIOUS
  <2>4. \A k \in 1..Len(fresh) :
            /\ fresh[k] \in new /\ fresh[k] \in AllPages /\ calls[k] = PutCall(fresh[k], {})
    BY <1>5, <2>2, <2>3, ElementOfSeq
  <2>5. \A k \in 1..Len(fresh) :
            /\ calls[k] \in Call /\ calls[k].op = "put" /\ calls[k].key \notin catalog
            /\ calls[k].stage = "new" /\ calls[k].task = 0
    BY <1>5, <2>4, PageCall
  <2>6. calls \in Seq(Call) /\ Len(calls) = Len(fresh)
    BY <2>2, <2>3, <2>5
  <2> QED
    BY <1>0, <1>3, <2>1, <2>3, <2>5, <2>6, SubmitKeepsFetches
<1> QED
  BY <1>3, <1>7, <1>8, SameCallsKeepFetches

LEMMA RestoreKeepsFetches ==
    ASSUME IndInv, FetchInv, NEW path \in Paths, NEW local, StartRestore(path, local)
    PROVE  FetchInv'
<1>0. StoreTyped
  BY DEF IndInv, StoreInv
<1>1. PICK wanted : wanted = {p \in Matched(path) : Len(p) > local}
  OBVIOUS
<1>2. catalog' = catalog /\ lost' = lost /\ republished' = republished
  BY DEF StartRestore, ghostVars, storeVars
<1>3. PICK pages \in InOrder(wanted) : io' = io \o [k \in DOMAIN pages |-> GetCall(pages[k])]
  BY <1>1 DEF StartRestore, Submit
<1>4. wanted \in SUBSET AllPages /\ wanted \subseteq catalog
  <2>1. ASSUME NEW p \in wanted PROVE p \in AllPages /\ p \in catalog
    <3>1. p \in Pages(path) /\ Pages(p) \subseteq catalog
      BY <1>1 DEF Matched
    <3>2. p \in AllPages
      BY <3>1, PagesArePages
    <3> QED
      BY <3>1, <3>2, PagesArePages
  <2> QED
    BY <2>1
<1>5. pages \in Seq(wanted) /\ DOMAIN pages = 1..Len(pages) /\ Len(pages) \in Nat
  BY <1>3, <1>4, InOrderIsSeq
<1>6. PICK calls : calls = [k \in DOMAIN pages |-> GetCall(pages[k])]
  OBVIOUS
<1>7. \A k \in 1..Len(pages) :
          pages[k] \in AllPages /\ pages[k] \in catalog /\ calls[k] = GetCall(pages[k])
  BY <1>4, <1>5, <1>6, ElementOfSeq
<1>8. \A k \in 1..Len(pages) :
          /\ calls[k] \in Call /\ calls[k].op = "get" /\ calls[k].key \in catalog
          /\ calls[k].stage = "new" /\ calls[k].task = 0
  BY <1>7, PageCall
<1>9. calls \in Seq(Call) /\ Len(calls) = Len(pages)
  BY <1>5, <1>6, <1>8
<1> QED
  BY <1>0, <1>2, <1>3, <1>6, <1>8, <1>9, SubmitKeepsFetches

LEMMA NoCallsFetches ==
    ASSUME io = <<>>
    PROVE  FetchInv
<1>1. Calls = {} /\ DOMAIN io = {}
  BY EmptySeq DEF Calls
<1> QED
  BY <1>1 DEF FetchInv, GetsListed, PutsAfterGets, OwnInOrder, JoinedBefore, MissingExplained

LEMMA FetchStep ==
    ASSUME IndInv, FetchInv, [Next]_vars
    PROVE  FetchInv'
<1>0. EngineReady /\ EngineTyped
  BY DEF IndInv, EngineInv
<1>1. CASE Loop
  BY <1>1, LoopKeepsFetches
<1>2. CASE EngineStep
  <2>1. CASE PublishReturns
    <3>1. PICK path : path = engine.path
      OBVIOUS
    <3>2. engine.pc = "publishing" /\ Register(path) /\ lost' = lost /\ republished' = republished
      BY <2>1, <3>1 DEF PublishReturns, storeVars, ghostVars
    <3>3. path \in Paths
      BY <1>0, <3>1, <3>2, EngineFields DEF EngineTyped
    <3> QED
      BY <3>2, <3>3, RegisterKeepsFetches
  <2>2. CASE SubmitWriteback
    BY <2>2, WritebackKeepsFetches
  <2>3. CASE SweepOne
    <3>1. PICK batch : batch = Head(engine.todo)
      OBVIOUS
    <3>2. /\ engine.pc = "sweeping" /\ engine.todo # <<>> /\ Advance
          /\ lost' = lost /\ republished' = republished
      BY <2>3 DEF SweepOne, ghostVars, storeVars
    <3>3. \/ CompleteWriteback(batch)
          \/ io' = io /\ catalog' = catalog
      BY <2>3, <3>1 DEF SweepOne, FailWriteback
    <3>4. batch \in Batch
      BY <1>0, <3>1, <3>2, AdvanceTodo DEF EngineTyped
    <3>5. PICK path \in Paths : path = batch.path
      BY <3>4 DEF Batch
    <3> QED
      BY <3>2, <3>3, <3>5, RegisterKeepsFetches, SameCallsKeepFetches DEF CompleteWriteback
  <2>4. CASE PublishRaises \/ SweepEnd \/ FlushOne \/ Close
    <3>1. io' = io /\ catalog' = catalog /\ lost' = lost /\ republished' = republished
      BY <2>4 DEF PublishRaises, SweepEnd, FlushOne, Close, storeVars, serviceVars, ghostVars
    <3> QED
      BY <3>1, SameCallsKeepFetches
  <2> QED
    BY <1>2, <2>1, <2>2, <2>3, <2>4 DEF EngineStep
<1>3. CASE Timeouts
  <2>1. io' = io /\ catalog' = catalog /\ lost' = lost /\ republished' = republished
    BY <1>3 DEF Timeouts, PublishTimesOut, ExportFails, SweepTimesOut, FlushTimesOut,
                CloseTimesOut, FailWriteback, storeVars, serviceVars
  <2> QED
    BY <2>1, SameCallsKeepFetches
<1>4. ASSUME NEW path \in Paths, RegisterExistingPrefix(path) PROVE FetchInv'
  <2>1. Register(path) /\ lost' = lost /\ republished' = republished
    BY <1>4 DEF RegisterExistingPrefix, storeVars, ghostVars
  <2> QED
    BY <2>1, RegisterKeepsFetches
<1>5. ASSUME NEW path \in Paths, PagesRequiringWrite(path) PROVE FetchInv'
  <2>1. io' = io /\ catalog' = catalog /\ lost' = lost /\ republished' = republished
    BY <1>5 DEF PagesRequiringWrite, storeVars, ghostVars
  <2> QED
    BY <2>1, SameCallsKeepFetches
<1>6. ASSUME NEW gets, NEW cancelled, EndRestore(gets, cancelled) PROVE FetchInv'
  <2>1. io' = io /\ catalog' = catalog /\ lost' = lost /\ republished' = republished
    BY <1>6 DEF EndRestore, storeVars, ghostVars
  <2> QED
    BY <2>1, SameCallsKeepFetches
<1>7. ASSUME NEW exiting, ProcessRemoteWritebacks(exiting) PROVE FetchInv'
  <2>1. io' = io /\ catalog' = catalog /\ lost' = lost /\ republished' = republished
    BY <1>7 DEF ProcessRemoteWritebacks, storeVars, serviceVars, ghostVars
  <2> QED
    BY <2>1, SameCallsKeepFetches
<1>8. CASE Client
  BY <1>4, <1>5, <1>6, <1>7, <1>8, PublishKeepsFetches, RestoreKeepsFetches DEF Client
<1>9. ASSUME NEW p \in stored, Evicted(p) PROVE FetchInv'
  <2>1. io' = io /\ catalog' = catalog /\ lost \subseteq lost' /\ republished' = republished
    BY <1>9 DEF Evicted, serviceVars, ghostVars
  <2> QED
    BY <2>1, SameCallsKeepFetches
<1>10. CASE Crash
  <2>1. io' = <<>>
    BY <1>10 DEF Crash
  <2>2. Calls' = {} /\ DOMAIN io' = {}
    BY <2>1, EmptySeq DEF Calls
  <2> QED
    BY <2>2 DEF FetchInv, GetsListed, PutsAfterGets, OwnInOrder, JoinedBefore, MissingExplained
<1>11. CASE Restart
  <2>1. io = <<>> /\ io' = io
    BY <1>0, <1>11 DEF Restart, EngineReady
  <2>2. Calls' = {} /\ DOMAIN io' = {}
    BY <2>1, EmptySeq DEF Calls
  <2> QED
    BY <2>2 DEF FetchInv, GetsListed, PutsAfterGets, OwnInOrder, JoinedBefore, MissingExplained
<1>12. CASE UNCHANGED vars
  <2>1. io' = io /\ catalog' = catalog /\ lost' = lost /\ republished' = republished
    BY <1>12 DEF vars, storeVars, serviceVars, ghostVars
  <2> QED
    BY <2>1, SameCallsKeepFetches
<1>13. CASE Quiet
  BY <1>12, <1>13 DEF Quiet
<1> QED
  BY <1>1, <1>2, <1>3, <1>8, <1>9, <1>10, <1>11, <1>12, <1>13 DEF Next

\* A planned restore misses a page only if the backend dropped it or
\* publish_prefix wrote it again meanwhile: no order of puts, gets, joined
\* futures and failures makes a listed page look absent.
THEOREM MissesAreExplained == Spec => []MissingExplained
<1>1. Init => FetchInv
  BY NoCallsFetches DEF Init
<1>2. IndInv /\ FetchInv /\ [Next]_vars => FetchInv'
  BY FetchStep
<1>3. FetchInv => MissingExplained
  BY DEF FetchInv
<1> QED
  BY <1>1, <1>2, <1>3, Invariance, PTL DEF Spec

=============================================================================
