------------------------ MODULE BlockManagerProofs ------------------------
(***************************************************************************)
(* Proofs about BlockManager, for any requests, pages, page size, token    *)
(* sequences and either backend: no page is leaked or freed while mapped,  *)
(* every cached token has its own KV in the slot attention reads, a page   *)
(* of the prefix index holds the prefix it is indexed under, and the slots *)
(* a batch writes belong to nobody else.                                   *)
(*                                                                         *)
(* None of these is inductive alone: a page is mapped twice unless two     *)
(* keys of the index name different pages, which holds because the KV      *)
(* says so, which survives a batch because the pages it writes are private *)
(* and not indexed, which needs the counters of num_cached_tokens to agree *)
(* with the tables.  They are proved together.                             *)
(***************************************************************************)
EXTENDS BlockManager, SequenceTheorems, FiniteSetTheorems, WellFoundedInduction, TLAPS

\* The requests whose table maps page b.
HeldBy(table, b) == {s \in Seqs : b \in Range(table[s])}

Slots == [1..BlockSize -> Seq(Token)]

TypeOK ==
    /\ tokens \in [Seqs -> Seq(Token)]
    /\ blockTable \in [Seqs -> Seq(Blocks)]
    /\ numCached \in [Seqs -> Nat] /\ numPhysical \in [Seqs -> Nat]
    /\ numScheduled \in [Seqs -> Nat]
    /\ logical \in [Seqs -> Seq(Nat)]
    /\ compressed \in [Seqs -> BOOLEAN]
    /\ freeBlocks \subseteq Blocks /\ usedBlocks \subseteq Blocks
    /\ refCount \in [Blocks -> Nat]
    /\ blockHash \in [Blocks -> Seq(Token)]
    /\ index \in [DOMAIN index -> Blocks] /\ DOMAIN index \subseteq Seq(Token)
    /\ kv \in [Blocks -> Slots]

\* A table has a logical index per page, ascending.
Ascending(s) ==
    /\ Len(logical[s]) = Retained(s)
    /\ \A i \in 1..Retained(s) : logical[s][i] >= 1
    /\ \A i, j \in 1..Retained(s) : i < j => logical[s][i] < logical[s][j]

\* A table with all its pages covers what is cached and what is scheduled.
Whole(s) ==
    /\ \A i \in 1..Retained(s) : logical[s][i] = i
    /\ numPhysical[s] = numCached[s]
    /\ numCached[s] <= Retained(s) * BlockSize
    /\ Retained(s) <= NumBlocks(s)
    /\ numScheduled[s] > 0 => Retained(s) = NumBlocks(s)

\* A table with pages dropped from the middle keeps the page being filled, and
\* the missing pages are whole ones.
Thinned(s) ==
    /\ Retained(s) > 0 /\ NewestMissing(s) /\ numScheduled[s] <= 1
    /\ logical[s][Retained(s)] = Pages(numCached[s] + numScheduled[s])
    /\ Retained(s) = Pages(numPhysical[s] + numScheduled[s])
    /\ numPhysical[s] % BlockSize = numCached[s] % BlockSize

TableAt(s) ==
    /\ Len(tokens[s]) > 0
    /\ numCached[s] + numScheduled[s] <= Len(tokens[s])
    /\ Ascending(s)
    /\ IF compressed[s] THEN Thinned(s) ELSE Whole(s)

TableInv == \A s \in Seqs : TableAt(s)

\* The i-th page of s has positions whose KV is still to be computed.
Open(s, i) == logical[s][i] * BlockSize > numCached[s]

\* Such a page is mapped by s alone and not offered by the prefix cache.
PrivateAt(s) ==
    \A i \in 1..Retained(s) :
        Open(s, i) => /\ HeldBy(blockTable, blockTable[s][i]) = {s}
                      /\ blockTable[s][i] \notin Range(index)

OpenPagesPrivate == \A s \in Seqs : PrivateAt(s)

\* Block.hash is the key of every entry of the dict ...
IndexHashed ==
    Backend = "hash" => \A key \in DOMAIN index : blockHash[index[key]] = key

\* ... and of every page that a whole table has completed.
HashedAt(s) ==
    Backend = "hash" /\ ~compressed[s] =>
        \A i \in 1..Retained(s) :
            i * BlockSize <= numCached[s] => blockHash[blockTable[s][i]] = ChainKey(s, i)

HashesAgree == IndexHashed /\ \A s \in Seqs : HashedAt(s)

\* CachedPrefixIntact for one request.
IntactAt(s) ==
    \A i \in 1..Retained(s), j \in 1..BlockSize :
        (logical[s][i] - 1) * BlockSize + j <= numCached[s] =>
            kv[blockTable[s][i]][j] = SubSeq(tokens[s], 1, (logical[s][i] - 1) * BlockSize + j)

IndInv ==
    /\ TypeOK
    /\ PoolConsistent
    /\ TableInv
    /\ OpenPagesPrivate
    /\ HashesAgree
    /\ CachedPrefixIntact
    /\ IndexedPageIntact

---------------------------------------------------------------------------
(* Pages and positions *)

\* A non-empty set of naturals has a least member.
LEMMA Least ==
    ASSUME NEW S, S \subseteq Nat, S # {}
    PROVE  \E n \in S : \A m \in S : n <= m
<1> DEFINE R == {p \in Nat \X Nat : p[1] < p[2]}
<1>1. IsWellFoundedOn(R, Nat)
  BY NatLessThanWellFounded, Zenon DEF OpToRel
<1> HIDE DEF R
<1>2. PICK n \in S : \A y \in S : ~(<<y, n>> \in R)
  BY <1>1, WFMin, Zenon
<1>3. \A y \in S : ~(y < n)
  BY <1>2 DEF R
<1> QED
  BY <1>3

LEMMA PagesBounds ==
    ASSUME NEW n \in Nat
    PROVE  /\ Pages(n) \in Nat /\ n <= Pages(n) * BlockSize
           /\ n > 0 => Pages(n) > 0 /\ (Pages(n) - 1) * BlockSize < n
  BY BlockSizeAssumption DEF Pages

LEMMA PagesUnique ==
    ASSUME NEW n \in Nat, NEW k \in Nat, (k - 1) * BlockSize < n, n <= k * BlockSize
    PROVE  Pages(n) = k
  BY BlockSizeAssumption DEF Pages

LEMMA PageOrder ==
    ASSUME NEW i \in Nat, NEW j \in Nat
    PROVE  /\ i * BlockSize \in Nat
           /\ i <= j => i * BlockSize <= j * BlockSize
           /\ i < j => i * BlockSize + BlockSize <= j * BlockSize
           /\ i * BlockSize < j * BlockSize => i < j
           /\ i * BlockSize = j * BlockSize => i = j
  BY BlockSizeAssumption

LEMMA DivPage ==
    ASSUME NEW n \in Nat
    PROVE  /\ n \div BlockSize \in Nat
           /\ (n \div BlockSize) * BlockSize <= n
           /\ n < (n \div BlockSize + 1) * BlockSize
           /\ n % BlockSize \in 0..(BlockSize - 1)
           /\ n = (n \div BlockSize) * BlockSize + (n % BlockSize)
  BY BlockSizeAssumption

LEMMA MulDiv ==
    ASSUME NEW n \in Nat
    PROVE  (n * BlockSize) \div BlockSize = n /\ (n * BlockSize) % BlockSize = 0
  BY BlockSizeAssumption

LEMMA ModPage ==
    ASSUME NEW d \in Nat, NEW r \in 0..(BlockSize - 1)
    PROVE  (d * BlockSize + r) % BlockSize = r /\ (d * BlockSize + r) \div BlockSize = d
  BY BlockSizeAssumption

\* The page and the slot of a position.
LEMMA SlotBounds ==
    ASSUME NEW p \in Nat, p >= 1
    PROVE  /\ SlotOf(p) \in 1..BlockSize /\ (p - 1) \div BlockSize \in Nat
           /\ p = ((p - 1) \div BlockSize) * BlockSize + SlotOf(p)
           /\ Pages(p) = (p - 1) \div BlockSize + 1
  BY BlockSizeAssumption DEF SlotOf, Pages

LEMMA SlotUnique ==
    ASSUME NEW i \in Nat, i >= 1, NEW j \in 1..BlockSize
    PROVE  /\ (i - 1) * BlockSize + j \in Nat /\ (i - 1) * BlockSize + j >= 1
           /\ SlotOf((i - 1) * BlockSize + j) = j
           /\ (((i - 1) * BlockSize + j) - 1) \div BlockSize = i - 1
           /\ (i - 1) * BlockSize + j <= i * BlockSize
  BY BlockSizeAssumption DEF SlotOf

---------------------------------------------------------------------------
(* Prefixes *)

LEMMA PrefixType ==
    ASSUME NEW t \in Seq(Token), NEW n \in 0..Len(t)
    PROVE  SubSeq(t, 1, n) \in Seq(Token) /\ Len(SubSeq(t, 1, n)) = n
  BY SubSeqProperties

LEMMA PrefixOfPrefix ==
    ASSUME NEW t \in Seq(Token), NEW n \in 0..Len(t), NEW m \in 0..n
    PROVE  SubSeq(SubSeq(t, 1, n), 1, m) = SubSeq(t, 1, m)
<1>1. /\ SubSeq(t, 1, n) \in Seq(Token) /\ Len(SubSeq(t, 1, n)) = n
      /\ SubSeq(t, 1, m) \in Seq(Token) /\ Len(SubSeq(t, 1, m)) = m
      /\ SubSeq(SubSeq(t, 1, n), 1, m) \in Seq(Token)
      /\ Len(SubSeq(SubSeq(t, 1, n), 1, m)) = m
  BY PrefixType, LenProperties
<1>2. \A i \in 1..m : SubSeq(SubSeq(t, 1, n), 1, m)[i] = SubSeq(t, 1, m)[i]
  BY <1>1, SubSeqProperties
<1> QED
  BY <1>1, <1>2, SeqEqual

LEMMA PrefixOfAppend ==
    ASSUME NEW t \in Seq(Token), NEW x \in Token, NEW n \in 0..Len(t)
    PROVE  SubSeq(Append(t, x), 1, n) = SubSeq(t, 1, n)
<1>1. /\ Append(t, x) \in Seq(Token) /\ Len(Append(t, x)) = Len(t) + 1 /\ Len(t) \in Nat
      /\ \A i \in 1..Len(t) : Append(t, x)[i] = t[i]
  BY AppendProperties, LenProperties
<1>2. /\ SubSeq(Append(t, x), 1, n) \in Seq(Token) /\ Len(SubSeq(Append(t, x), 1, n)) = n
      /\ SubSeq(t, 1, n) \in Seq(Token) /\ Len(SubSeq(t, 1, n)) = n
  BY <1>1, PrefixType
<1>3. \A i \in 1..n : SubSeq(Append(t, x), 1, n)[i] = SubSeq(t, 1, n)[i]
  BY <1>1, <1>2, SubSeqProperties
<1> QED
  BY <1>2, <1>3, SeqEqual

LEMMA WholePrefix ==
    ASSUME NEW t \in Seq(Token)
    PROVE  SubSeq(t, 1, Len(t)) = t
  BY SubSeqFull

LEMMA PrefixConcat ==
    ASSUME NEW t \in Seq(Token), NEW n \in 0..Len(t), NEW m \in 0..n
    PROVE  SubSeq(t, 1, m) \o SubSeq(t, m + 1, n) = SubSeq(t, 1, n)
  BY ConcatAdjacentSubSeq, LenProperties

---------------------------------------------------------------------------
(* Lookups *)

LEMMA KeyType ==
    ASSUME TypeOK, NEW s \in Seqs, NEW i \in Nat, i * BlockSize <= Len(tokens[s])
    PROVE  ChainKey(s, i) \in Seq(Token) /\ Len(ChainKey(s, i)) = i * BlockSize
<1>1. tokens[s] \in Seq(Token) /\ i * BlockSize \in 0..Len(tokens[s])
  BY BlockSizeAssumption, LenProperties DEF TypeOK
<1> QED
  BY <1>1, PrefixType DEF ChainKey

LEMMA TableSizes ==
    ASSUME TypeOK, TableInv, NEW s \in Seqs
    PROVE  /\ Len(tokens[s]) \in Nat /\ Len(tokens[s]) > 0
           /\ NumBlocks(s) \in Nat /\ CacheableBlocks(s) \in Nat
           /\ NumBlocks(s) = CacheableBlocks(s) + 1
           /\ CacheableBlocks(s) * BlockSize < Len(tokens[s])
           /\ Len(tokens[s]) <= NumBlocks(s) * BlockSize
           /\ Retained(s) \in Nat /\ DOMAIN blockTable[s] = 1..Retained(s)
           /\ \A i \in 1..Retained(s) : blockTable[s][i] \in Blocks
<1>1. tokens[s] \in Seq(Token) /\ blockTable[s] \in Seq(Blocks)
  BY DEF TypeOK
<1>2. Len(tokens[s]) \in Nat /\ Len(tokens[s]) > 0
  BY <1>1, LenProperties DEF TableInv, TableAt
<1>3. /\ Retained(s) \in Nat /\ DOMAIN blockTable[s] = 1..Retained(s)
      /\ \A i \in 1..Retained(s) : blockTable[s][i] \in Blocks
  BY <1>1, LenProperties, ElementOfSeq DEF Retained
<1>4. Pages(Len(tokens[s])) \in Nat /\ Len(tokens[s]) <= Pages(Len(tokens[s])) * BlockSize
      /\ Pages(Len(tokens[s])) > 0 /\ (Pages(Len(tokens[s])) - 1) * BlockSize < Len(tokens[s])
  BY <1>2, PagesBounds
<1> QED
  BY <1>2, <1>3, <1>4 DEF NumBlocks, CacheableBlocks

LEMMA CacheableKey ==
    ASSUME TypeOK, TableInv, NEW s \in Seqs, NEW i \in 0..CacheableBlocks(s)
    PROVE  i * BlockSize \in Nat /\ i * BlockSize < Len(tokens[s])
<1>1. /\ CacheableBlocks(s) \in Nat /\ CacheableBlocks(s) * BlockSize < Len(tokens[s])
      /\ Len(tokens[s]) \in Nat
  BY TableSizes
<1>2. i \in Nat /\ i <= CacheableBlocks(s)
  BY <1>1
<1>3. i * BlockSize \in Nat /\ i * BlockSize <= CacheableBlocks(s) * BlockSize
  BY <1>1, <1>2, PageOrder
<1>4. CacheableBlocks(s) * BlockSize \in Nat
  BY <1>1, PageOrder
<1> QED
  BY <1>1, <1>3, <1>4

\* _lookup_cached_blocks stops at the first page that misses.
LEMMA MatchIsHits ==
    ASSUME TypeOK, TableInv, NEW s \in Seqs
    PROVE  /\ MatchLength(s) \in 0..CacheableBlocks(s)
           /\ \A i \in 1..MatchLength(s) : Hit(ChainKey(s, i))
           /\ \/ MatchLength(s) = CacheableBlocks(s)
              \/ ~Hit(ChainKey(s, MatchLength(s) + 1))
<1> DEFINE C == CacheableBlocks(s)
           S == {n \in 0..C : n = C \/ ~Hit(ChainKey(s, n + 1))}
<1>1. C \in Nat
  BY TableSizes
<1> HIDE DEF C
<1>2. C \in S /\ S \subseteq Nat
  BY <1>1
<1>3. PICK n \in S : \A m \in S : n <= m
  BY <1>2, Least
<1>4. n \in 0..C /\ (n = C \/ ~Hit(ChainKey(s, n + 1)))
  OBVIOUS
<1>5. ASSUME NEW i \in 1..n PROVE Hit(ChainKey(s, i))
  <2>1. i - 1 \in 0..C /\ i - 1 # C /\ ~(n <= i - 1) /\ (i - 1) + 1 = i
    BY <1>1, <1>4, <1>5
  <2>2. i - 1 \notin S
    BY <1>3, <2>1
  <2> QED
    BY <2>1, <2>2
<1>6. \E m \in 0..C : /\ \A i \in 1..m : Hit(ChainKey(s, i))
                      /\ m = C \/ ~Hit(ChainKey(s, m + 1))
  BY <1>4, <1>5
<1> QED
  BY <1>6 DEF MatchLength, C

LEMMA FunctionIsSeq ==
    ASSUME NEW S, NEW n \in Nat, NEW f \in [1..n -> S]
    PROVE  f \in Seq(S) /\ Len(f) = n
  BY SeqDef, LenProperties

\* Page b is what the prefix cache offers s for its p-th page.
OfferedPage(s, b, p) ==
    /\ p \in 1..CacheableBlocks(s)
    /\ b \in Range(index)
    /\ \A j \in 1..BlockSize : kv[b][j] = SubSeq(tokens[s], 1, (p - 1) * BlockSize + j)
    /\ Backend = "hash" => blockHash[b] = ChainKey(s, p)

\* Pages ids are offered to s for its pages after the k-th.
Offered(s, ids, k) ==
    /\ ids \in Seq(Blocks)
    /\ IsInjective(ids)
    /\ \A i \in 1..Len(ids) : OfferedPage(s, ids[i], k + i)

LEMMA IndexedKey ==
    ASSUME TypeOK, TableInv, IndexedPageIntact, NEW s \in Seqs,
           NEW i \in 1..CacheableBlocks(s), Hit(ChainKey(s, i))
    PROVE  /\ ChainKey(s, i) \in DOMAIN index
           /\ index[ChainKey(s, i)] \in Blocks /\ index[ChainKey(s, i)] \in Range(index)
           /\ \A j \in 1..BlockSize : kv[index[ChainKey(s, i)]][j]
                 = SubSeq(tokens[s], 1, (i - 1) * BlockSize + j)
           /\ Backend = "hash" => blockHash[index[ChainKey(s, i)]] = ChainKey(s, i)
           /\ kv[index[ChainKey(s, i)]][BlockSize] = ChainKey(s, i)
           /\ Len(ChainKey(s, i)) = i * BlockSize
<1>0. i \in Nat /\ i >= 1 /\ i \in 0..CacheableBlocks(s) /\ BlockSize \in Nat /\ BlockSize >= 2
  BY TableSizes, BlockSizeAssumption
<1>1. i * BlockSize \in Nat /\ i * BlockSize < Len(tokens[s]) /\ tokens[s] \in Seq(Token)
      /\ Len(tokens[s]) \in Nat
  BY <1>0, CacheableKey, TableSizes DEF TypeOK
<1>2. ChainKey(s, i) \in Seq(Token) /\ Len(ChainKey(s, i)) = i * BlockSize
  BY <1>0, <1>1, KeyType
<1>3. ChainKey(s, i) \in DOMAIN index /\ (Backend = "hash" =>
         blockHash[index[ChainKey(s, i)]] = ChainKey(s, i))
  BY DEF Hit
<1>4. index[ChainKey(s, i)] \in Blocks /\ index[ChainKey(s, i)] \in Range(index)
  BY <1>3 DEF TypeOK, Range
<1>5. ASSUME NEW j \in 1..BlockSize
      PROVE  kv[index[ChainKey(s, i)]][j] = SubSeq(tokens[s], 1, (i - 1) * BlockSize + j)
  <2>1. kv[index[ChainKey(s, i)]][j]
           = SubSeq(ChainKey(s, i), 1, i * BlockSize - BlockSize + j)
    BY <1>2, <1>3, <1>5 DEF IndexedPageIntact
  <2>2. /\ i * BlockSize - BlockSize + j = (i - 1) * BlockSize + j
        /\ (i - 1) * BlockSize + j \in 0..(i * BlockSize)
        /\ i * BlockSize \in 0..Len(tokens[s])
    BY <1>0, <1>1, SlotUnique
  <2> QED
    BY <1>1, <2>1, <2>2, PrefixOfPrefix DEF ChainKey
<1>6. kv[index[ChainKey(s, i)]][BlockSize] = ChainKey(s, i)
  <2>1. (i - 1) * BlockSize + BlockSize = i * BlockSize
    BY <1>0
  <2> QED
    BY <1>0, <1>5, <2>1 DEF ChainKey
<1> QED
  BY <1>2, <1>3, <1>4, <1>5, <1>6

LEMMA LookupOffered ==
    ASSUME TypeOK, TableInv, IndexedPageIntact, NEW s \in Seqs
    PROVE  /\ Offered(s, LookupCachedBlocks(s), 0)
           /\ Len(LookupCachedBlocks(s)) \in 0..CacheableBlocks(s)
<1> DEFINE n == MatchLength(s)
           ids == LookupCachedBlocks(s)
<1>1. n \in 0..CacheableBlocks(s) /\ \A i \in 1..n : Hit(ChainKey(s, i))
  BY MatchIsHits
<1>2. n \in Nat /\ \A i \in 1..n : i \in 1..CacheableBlocks(s)
  BY <1>1, TableSizes
<1>3. ids = [i \in 1..n |-> index[ChainKey(s, i)]]
  BY DEF LookupCachedBlocks
<1> HIDE DEF n, ids
<1>4. ids \in [1..n -> Blocks] /\ \A i \in 1..n : ids[i] = index[ChainKey(s, i)]
  BY <1>1, <1>2, <1>3, IndexedKey
<1>5. ids \in Seq(Blocks) /\ Len(ids) = n /\ DOMAIN ids = 1..n
  BY <1>2, <1>4, FunctionIsSeq
<1>6. IsInjective(ids)
  <2> SUFFICES ASSUME NEW i \in 1..n, NEW j \in 1..n, ids[i] = ids[j] PROVE i = j
    BY <1>5 DEF IsInjective
  <2>1. ChainKey(s, i) = ChainKey(s, j)
    BY <1>1, <1>2, <1>4, IndexedKey
  <2>2. i * BlockSize = j * BlockSize
    BY <1>1, <1>2, <2>1, IndexedKey
  <2> QED
    BY <1>2, <2>2, PageOrder
<1>7. ASSUME NEW i \in 1..n PROVE OfferedPage(s, ids[i], 0 + i)
  <2>1. 0 + i = i /\ i \in 1..CacheableBlocks(s) /\ Hit(ChainKey(s, i))
        /\ ids[i] = index[ChainKey(s, i)]
    BY <1>1, <1>2, <1>4
  <2>2. OfferedPage(s, ids[i], i)
    BY <2>1, IndexedKey DEF OfferedPage
  <2> QED
    BY <2>1, <2>2
<1>8. Offered(s, ids, 0)
  BY <1>5, <1>6, <1>7 DEF Offered
<1> QED
  BY <1>1, <1>5, <1>8 DEF ids, n

\* What resume may claim follows the retained pages and repeats none of them.
LEMMA SuffixOffered ==
    ASSUME TypeOK, TableInv, IndexedPageIntact, NEW s \in Seqs
    PROVE  /\ Offered(s, ResumeSuffix(s), Retained(s))
           /\ Range(ResumeSuffix(s)) \cap Range(blockTable[s]) = {}
           /\ Retained(s) + Len(ResumeSuffix(s)) <= CacheableBlocks(s)
              \/ ResumeSuffix(s) = <<>>
<1> DEFINE all == LookupCachedBlocks(s)
           R == Retained(s)
           ids == ResumeSuffix(s)
<1>1. /\ all \in Seq(Blocks) /\ IsInjective(all) /\ Offered(s, all, 0)
      /\ Len(all) \in 0..CacheableBlocks(s)
  BY LookupOffered DEF Offered
<1>2. R \in Nat /\ DOMAIN blockTable[s] = 1..R /\ CacheableBlocks(s) \in Nat
  BY TableSizes
<1>3. DOMAIN all = 1..Len(all) /\ Len(all) \in Nat /\ \A i \in 1..Len(all) : all[i] \in Blocks
  BY <1>1, LenProperties, ElementOfSeq
<1>4. CASE ids = <<>>
  <2>1. /\ ids \in Seq(Blocks) /\ Len(ids) = 0 /\ DOMAIN ids = {}
    BY <1>4, EmptySeq
  <2>2. Range(ids) = {} /\ IsInjective(ids)
    BY <2>1 DEF Range, IsInjective
  <2> QED
    BY <1>4, <2>1, <2>2 DEF Offered
<1>5. CASE R <= Len(all) /\ SubSeq(all, 1, R) = blockTable[s]
           /\ ids = SubSeq(all, R + 1, Len(all))
  <2> HIDE DEF all, R, ids
  <2>0. R \in Nat /\ Len(all) \in Nat /\ R <= Len(all)
    BY <1>2, <1>3, <1>5
  <2>1. /\ ids \in Seq(Blocks) /\ Len(ids) = Len(all) - R
        /\ \A i \in 1..Len(ids) : ids[i] = all[R + i]
    <3>1. /\ R + 1 \in Int /\ Len(all) \in Int
          /\ \A i \in (R + 1)..Len(all) : all[i] \in Blocks
      BY <1>3, <2>0
    <3>2. /\ SubSeq(all, R + 1, Len(all)) \in Seq(Blocks)
          /\ Len(SubSeq(all, R + 1, Len(all)))
                = IF R + 1 <= Len(all) THEN Len(all) - (R + 1) + 1 ELSE 0
          /\ \A i \in 1..(Len(all) - (R + 1) + 1) :
                SubSeq(all, R + 1, Len(all))[i] = all[(R + 1) + i - 1]
      BY <3>1, SubSeqProperties
    <3>3. Len(ids) = Len(all) - R
      BY <1>5, <2>0, <3>2
    <3>4. ASSUME NEW i \in 1..Len(ids) PROVE ids[i] = all[R + i]
      <4>1. i \in 1..(Len(all) - (R + 1) + 1) /\ (R + 1) + i - 1 = R + i
        BY <2>0, <3>3
      <4> QED
        BY <1>5, <3>2, <4>1
    <3> QED
      BY <1>5, <3>2, <3>3, <3>4
  <2>2. \A i \in 1..R : blockTable[s][i] = all[i]
    BY <1>2, <1>3, <1>5, SubSeqProperties
  <2>3. DOMAIN ids = 1..Len(ids) /\ Len(ids) \in Nat
    BY <2>1, LenProperties
  <2>4. \A i \in 1..Len(ids) : R + i \in 1..Len(all)
    <3>1. Len(ids) = Len(all) - R
      BY <2>1
    <3> QED
      BY <2>0, <3>1
  <2>5. \A i, j \in 1..Len(all) : all[i] = all[j] => i = j
    BY <1>1, <1>3 DEF IsInjective
  <2>6. IsInjective(ids)
    BY <1>2, <2>1, <2>3, <2>4, <2>5, SMTT(30) DEF IsInjective
  <2>7. Range(ids) \cap Range(blockTable[s]) = {}
    <3> SUFFICES ASSUME NEW i \in 1..Len(ids), NEW j \in 1..R, ids[i] = blockTable[s][j]
                 PROVE  FALSE
      BY <1>2, <2>3 DEF Range
    <3>0. /\ ids[i] = all[R + i] /\ blockTable[s][j] = all[j] /\ R + i \in 1..Len(all)
          /\ j \in 1..Len(all)
      <4>1. ids[i] = all[R + i] /\ R + i \in 1..Len(all)
        BY <2>1, <2>4, Zenon
      <4>2. blockTable[s][j] = all[j]
        BY <2>2, Zenon
      <4>3. j \in 1..Len(all)
        BY <2>0
      <4> QED
        BY <4>1, <4>2, <4>3
    <3>1. R + i = j
      BY <2>5, <3>0, Zenon
    <3> QED
      BY <1>2, <3>1
  <2>8. ASSUME NEW i \in 1..Len(ids) PROVE OfferedPage(s, ids[i], R + i)
    <3>1. PICK k \in 1..Len(all) : k = R + i /\ ids[i] = all[k] /\ 0 + k = k
      BY <2>0, <2>1, <2>4
    <3>2. OfferedPage(s, all[k], 0 + k)
      BY <1>1 DEF Offered
    <3> QED
      BY <3>1, <3>2
  <2>9. Offered(s, ids, R)
    BY <2>1, <2>6, <2>8 DEF Offered
  <2>10. R + Len(ids) <= CacheableBlocks(s)
    BY <1>1, <1>2, <1>3, <2>1
  <2> QED
    BY <2>7, <2>9, <2>10 DEF ids, R
<1> QED
  BY <1>4, <1>5, Zenon DEF ResumeSuffix

---------------------------------------------------------------------------
(* Taking pages *)

\* t lists the pages of a, b and c, in this order and without repeats.
Joins(t, a, b, c) ==
    /\ t \in Seq(Blocks) /\ IsInjective(t)
    /\ Len(t) = Len(a) + Len(b) + Len(c)
    /\ \A i \in 1..Len(a) : t[i] = a[i]
    /\ \A i \in 1..Len(b) : t[Len(a) + i] = b[i]
    /\ \A i \in 1..Len(c) : t[Len(a) + Len(b) + i] = c[i]
    /\ Range(t) = Range(a) \cup Range(b) \cup Range(c)

\* The concatenation of three disjoint lists of pages without repeats.
LEMMA ConcatPages ==
    ASSUME NEW a \in Seq(Blocks), NEW b \in Seq(Blocks), NEW c \in Seq(Blocks),
           IsInjective(a), IsInjective(b), IsInjective(c),
           Range(a) \cap Range(b) = {}, Range(a) \cap Range(c) = {},
           Range(b) \cap Range(c) = {}
    PROVE  Joins(a \o b \o c, a, b, c)
<1>1. /\ Len(a) \in Nat /\ DOMAIN a = 1..Len(a) /\ Len(b) \in Nat /\ DOMAIN b = 1..Len(b)
      /\ Len(c) \in Nat /\ DOMAIN c = 1..Len(c)
  BY LenProperties
<1>2. /\ a \o b \in Seq(Blocks) /\ Len(a \o b) = Len(a) + Len(b)
      /\ \A i \in 1..(Len(a) + Len(b)) :
            (a \o b)[i] = IF i <= Len(a) THEN a[i] ELSE b[i - Len(a)]
  BY ConcatProperties
<1> DEFINE t == a \o b \o c
<1>3. /\ t \in Seq(Blocks) /\ Len(t) = Len(a) + Len(b) + Len(c)
      /\ \A i \in 1..(Len(a \o b) + Len(c)) :
            t[i] = IF i <= Len(a \o b) THEN (a \o b)[i] ELSE c[i - Len(a \o b)]
  BY <1>2, ConcatProperties
<1>4. DOMAIN t = 1..(Len(a) + Len(b) + Len(c))
  BY <1>3, LenProperties
<1> HIDE DEF t
<1>5. /\ \A i \in 1..Len(a) : t[i] = a[i]
      /\ \A i \in 1..Len(b) : t[Len(a) + i] = b[i]
      /\ \A i \in 1..Len(c) : t[Len(a) + Len(b) + i] = c[i]
  <2>1. ASSUME NEW i \in 1..Len(a) PROVE t[i] = a[i]
    BY <1>1, <1>2, <1>3
  <2>2. ASSUME NEW i \in 1..Len(b) PROVE t[Len(a) + i] = b[i]
    <3>1. /\ Len(a) + i \in 1..(Len(a) + Len(b)) /\ Len(a) + i \in 1..(Len(a \o b) + Len(c))
          /\ Len(a) + i <= Len(a \o b) /\ ~(Len(a) + i <= Len(a)) /\ Len(a) + i - Len(a) = i
      BY <1>1, <1>2
    <3> QED
      BY <1>2, <1>3, <3>1
  <2>3. ASSUME NEW i \in 1..Len(c) PROVE t[Len(a) + Len(b) + i] = c[i]
    <3>1. /\ Len(a) + Len(b) + i \in 1..(Len(a \o b) + Len(c))
          /\ ~(Len(a) + Len(b) + i <= Len(a \o b))
          /\ Len(a) + Len(b) + i - Len(a \o b) = i
      BY <1>1, <1>2
    <3> QED
      BY <1>3, <3>1
  <2> QED
    BY <2>1, <2>2, <2>3
<1>6. \A i \in DOMAIN t : \/ i \in DOMAIN a /\ t[i] = a[i]
                          \/ i - Len(a) \in DOMAIN b /\ t[i] = b[i - Len(a)]
                          \/ /\ i - Len(a) - Len(b) \in DOMAIN c
                             /\ t[i] = c[i - Len(a) - Len(b)]
  <2> SUFFICES ASSUME NEW i \in 1..(Len(a) + Len(b) + Len(c))
               PROVE  \/ i \in DOMAIN a /\ t[i] = a[i]
                      \/ i - Len(a) \in DOMAIN b /\ t[i] = b[i - Len(a)]
                      \/ /\ i - Len(a) - Len(b) \in DOMAIN c
                         /\ t[i] = c[i - Len(a) - Len(b)]
    BY <1>4
  <2>1. CASE i <= Len(a)
    BY <1>1, <1>5, <2>1
  <2>2. CASE i > Len(a) /\ i <= Len(a) + Len(b)
    <3>1. i - Len(a) \in 1..Len(b) /\ Len(a) + (i - Len(a)) = i
      BY <1>1, <2>2
    <3> QED
      BY <1>1, <1>5, <3>1
  <2>3. CASE i > Len(a) + Len(b)
    <3>1. /\ i - Len(a) - Len(b) \in 1..Len(c)
          /\ Len(a) + Len(b) + (i - Len(a) - Len(b)) = i
      BY <1>1, <2>3
    <3> QED
      BY <1>1, <1>5, <3>1
  <2> QED
    BY <1>1, <2>1, <2>2, <2>3
<1>7. Range(t) = Range(a) \cup Range(b) \cup Range(c)
  <2>1. Range(t) \subseteq Range(a) \cup Range(b) \cup Range(c)
    BY <1>6 DEF Range
  <2>2. /\ \A i \in 1..Len(a) : i \in DOMAIN t
        /\ \A i \in 1..Len(b) : Len(a) + i \in DOMAIN t
        /\ \A i \in 1..Len(c) : Len(a) + Len(b) + i \in DOMAIN t
    BY <1>1, <1>4
  <2>3. Range(a) \subseteq Range(t)
    BY <1>1, <1>5, <2>2 DEF Range
  <2>4. Range(b) \subseteq Range(t)
    BY <1>1, <1>5, <2>2 DEF Range
  <2>5. Range(c) \subseteq Range(t)
    BY <1>1, <1>5, <2>2 DEF Range
  <2> QED
    BY <2>1, <2>3, <2>4, <2>5
<1>8. IsInjective(t)
  <2> SUFFICES ASSUME NEW i \in DOMAIN t, NEW j \in DOMAIN t, t[i] = t[j] PROVE i = j
    BY DEF IsInjective
  <2>1. i \in Int /\ j \in Int
    BY <1>4
  <2>2. /\ \A x \in DOMAIN a, y \in DOMAIN b : a[x] # b[y]
        /\ \A x \in DOMAIN a, y \in DOMAIN c : a[x] # c[y]
        /\ \A x \in DOMAIN b, y \in DOMAIN c : b[x] # c[y]
    BY DEF Range
  <2>3. CASE i \in DOMAIN a /\ t[i] = a[i]
    BY <1>6, <2>2, <2>3 DEF IsInjective
  <2>4. CASE i - Len(a) \in DOMAIN b /\ t[i] = b[i - Len(a)]
    <3>1. j - Len(a) \in DOMAIN b /\ t[j] = b[j - Len(a)]
      BY <1>6, <2>2, <2>4
    <3>2. i - Len(a) = j - Len(a)
      BY <2>4, <3>1 DEF IsInjective
    <3> QED
      BY <1>1, <2>1, <3>2
  <2>5. CASE i - Len(a) - Len(b) \in DOMAIN c /\ t[i] = c[i - Len(a) - Len(b)]
    <3>1. j - Len(a) - Len(b) \in DOMAIN c /\ t[j] = c[j - Len(a) - Len(b)]
      BY <1>6, <2>2, <2>5
    <3>2. i - Len(a) - Len(b) = j - Len(a) - Len(b)
      BY <2>5, <3>1 DEF IsInjective
    <3> QED
      BY <1>1, <2>1, <3>2
  <2> QED
    BY <1>6, <2>3, <2>4, <2>5
<1> QED
  BY <1>3, <1>5, <1>7, <1>8 DEF t, Joins

LEMMA HoldersFinite ==
    ASSUME NEW b
    PROVE  IsFiniteSet(HeldBy(blockTable, b)) /\ Cardinality(HeldBy(blockTable, b)) \in Nat
  BY SeqsAssumption, FS_Subset, FS_CardinalityType DEF HeldBy

LEMMA FreeIsUnheld ==
    ASSUME PoolConsistent, NEW b \in Blocks
    PROVE  /\ b \in freeBlocks <=> HeldBy(blockTable, b) = {}
           /\ b \in usedBlocks <=> b \notin freeBlocks
           /\ b \in freeBlocks => refCount[b] = 0
           /\ refCount[b] = Cardinality(HeldBy(blockTable, b)) /\ refCount[b] \in Nat
<1>1. Holders(b) = HeldBy(blockTable, b)
  BY DEF Holders, HeldBy
<1>2. /\ freeBlocks \cap usedBlocks = {} /\ freeBlocks \cup usedBlocks = Blocks
      /\ refCount[b] = Cardinality(HeldBy(blockTable, b))
      /\ b \in freeBlocks <=> refCount[b] = 0
  BY <1>1 DEF PoolConsistent
<1>3. IsFiniteSet(HeldBy(blockTable, b)) /\ Cardinality(HeldBy(blockTable, b)) \in Nat
  BY HoldersFinite
<1>4. Cardinality(HeldBy(blockTable, b)) = 0 <=> HeldBy(blockTable, b) = {}
  BY <1>3, FS_EmptySet
<1> QED
  BY <1>2, <1>3, <1>4

\* s now maps the pages ids and then the pages fresh, which were free.
TableTaken(s, ids, m, fresh) ==
    /\ fresh \in Seq(Blocks) /\ Len(fresh) = m
    /\ Range(fresh) \subseteq freeBlocks \ Range(ids)
    /\ blockTable' \in [Seqs -> Seq(Blocks)]
    /\ \A q \in Seqs \ {s} : blockTable'[q] = blockTable[q]
    /\ IsInjective(blockTable'[s])
    /\ Len(blockTable'[s]) = Retained(s) + Len(ids) + m
    /\ \A i \in 1..Retained(s) : blockTable'[s][i] = blockTable[s][i]
    /\ \A i \in 1..Len(ids) : blockTable'[s][Retained(s) + i] = ids[i]
    /\ \A i \in 1..m : blockTable'[s][Retained(s) + Len(ids) + i] = fresh[i]
    /\ \A b : HeldBy(blockTable', b) = IF b \in Range(ids) \cup Range(fresh)
                                       THEN HeldBy(blockTable, b) \cup {s}
                                       ELSE HeldBy(blockTable, b)

PoolTyped ==
    /\ freeBlocks \subseteq Blocks /\ usedBlocks \subseteq Blocks
    /\ refCount \in [Blocks -> Nat]

\* The pages fresh are blank and no longer indexed, the others as they were.
PagesReset(fresh) ==
    /\ blockHash' \in [Blocks -> Seq(Token)] /\ kv' \in [Blocks -> Slots]
    /\ index' \in [DOMAIN index' -> Blocks] /\ DOMAIN index' \subseteq Seq(Token)
    /\ \A b \in Blocks \ Range(fresh) : kv'[b] = kv[b] /\ blockHash'[b] = blockHash[b]
    /\ Range(index') \subseteq Range(index) \ Range(fresh)

\* The effect of TakePages on the table, the references and the free list.
LEMMA TakeTable ==
    ASSUME TypeOK, PoolConsistent, TableInv, NEW s \in Seqs,
           NEW ids \in Seq(Blocks), IsInjective(ids),
           Range(ids) \cap Range(blockTable[s]) = {},
           NEW m \in Nat, NEW fresh \in FreshPages(m, freeBlocks \ Range(ids)),
           TakePages(s, ids, fresh)
    PROVE  TableTaken(s, ids, m, fresh)
<1>1. fresh \in [1..m -> freeBlocks \ Range(ids)] /\ IsInjective(fresh)
  BY DEF FreshPages
<1>2. fresh \in [1..m -> Blocks] /\ Range(fresh) \subseteq freeBlocks \ Range(ids)
  BY <1>1 DEF TypeOK, Range
<1>3. fresh \in Seq(Blocks) /\ Len(fresh) = m
  BY <1>2, FunctionIsSeq
<1>4. /\ blockTable[s] \in Seq(Blocks) /\ IsInjective(blockTable[s])
      /\ Range(blockTable[s]) \cap Range(fresh) = {} /\ Range(ids) \cap Range(fresh) = {}
      /\ Range(blockTable[s]) \cap Range(ids) = {}
  <2>1. blockTable[s] \in Seq(Blocks) /\ IsInjective(blockTable[s])
    BY DEF TypeOK, PoolConsistent
  <2>2. \A b \in Range(fresh) : HeldBy(blockTable, b) = {}
    BY <1>2, FreeIsUnheld DEF TypeOK
  <2> QED
    BY <1>2, <2>1, <2>2 DEF HeldBy
<1> DEFINE t == blockTable[s] \o ids \o fresh
<1>5. Joins(t, blockTable[s], ids, fresh)
  BY <1>1, <1>3, <1>4, ConcatPages
<1>6. blockTable' = [blockTable EXCEPT ![s] = t]
  BY DEF TakePages
<1> HIDE DEF t
<1>7. /\ blockTable' \in [Seqs -> Seq(Blocks)] /\ blockTable'[s] = t
      /\ \A q \in Seqs \ {s} : blockTable'[q] = blockTable[q]
  BY <1>5, <1>6 DEF TypeOK, Joins
<1>8. ASSUME NEW b
      PROVE  HeldBy(blockTable', b) = IF b \in Range(ids) \cup Range(fresh)
                           THEN HeldBy(blockTable, b) \cup {s} ELSE HeldBy(blockTable, b)
  <2>1. ASSUME NEW q \in Seqs
        PROVE  b \in Range(blockTable'[q]) <=>
                 b \in Range(blockTable[q]) \/ (q = s /\ b \in Range(ids) \cup Range(fresh))
    BY <1>5, <1>7 DEF Joins
  <2> QED
    BY <2>1 DEF HeldBy
<1> QED
  BY <1>2, <1>3, <1>5, <1>7, <1>8 DEF Retained, Joins, TableTaken

LEMMA TakePool ==
    ASSUME TypeOK, PoolConsistent, TableInv, NEW s \in Seqs,
           NEW ids \in Seq(Blocks), IsInjective(ids),
           Range(ids) \cap Range(blockTable[s]) = {},
           NEW m \in Nat, NEW fresh \in FreshPages(m, freeBlocks \ Range(ids)),
           TakePages(s, ids, fresh)
    PROVE  PoolConsistent' /\ PoolTyped'
<1>0. TableTaken(s, ids, m, fresh)
  BY TakeTable
<1>1. /\ Range(fresh) \subseteq freeBlocks \ Range(ids) /\ Range(fresh) \subseteq Blocks
      /\ Range(ids) \subseteq Blocks
      /\ \A q \in Seqs \ {s} : blockTable'[q] = blockTable[q]
      /\ IsInjective(blockTable'[s])
      /\ \A b : HeldBy(blockTable', b) = IF b \in Range(ids) \cup Range(fresh)
                              THEN HeldBy(blockTable, b) \cup {s} ELSE HeldBy(blockTable, b)
  BY <1>0, RangeOfSeq DEF TypeOK, TableTaken
<1>2. /\ freeBlocks' = (freeBlocks \ Range(ids)) \ Range(fresh)
      /\ usedBlocks' = usedBlocks \cup Range(ids) \cup Range(fresh)
      /\ refCount' = [b \in Blocks |->
              CASE b \in Range(fresh) -> 1
                [] b \in Range(ids) \ Range(fresh) ->
                     IF b \in usedBlocks THEN refCount[b] + 1 ELSE 1
                [] OTHER -> refCount[b]]
  BY DEF TakePages
<1>3. \A b \in Range(ids) \cup Range(fresh) : s \notin HeldBy(blockTable, b)
  <2>1. \A b \in Range(fresh) : HeldBy(blockTable, b) = {}
    BY <1>1, FreeIsUnheld
  <2> QED
    BY <2>1 DEF HeldBy
<1>4. ASSUME NEW b \in Blocks
      PROVE  refCount'[b] = Cardinality(HeldBy(blockTable', b)) /\ refCount'[b] \in Nat
             /\ (b \in freeBlocks' <=> refCount'[b] = 0)
  <2>1. /\ b \in freeBlocks <=> HeldBy(blockTable, b) = {}
        /\ b \in usedBlocks <=> b \notin freeBlocks
        /\ b \in freeBlocks => refCount[b] = 0
        /\ refCount[b] = Cardinality(HeldBy(blockTable, b)) /\ refCount[b] \in Nat
    BY FreeIsUnheld
  <2>2. CASE b \in Range(ids) \cup Range(fresh)
    <3>1. Cardinality(HeldBy(blockTable', b)) = refCount[b] + 1
      <4>1. HeldBy(blockTable', b) = HeldBy(blockTable, b) \cup {s} /\ s \notin HeldBy(blockTable, b)
        BY <1>1, <1>3, <2>2
      <4>2. IsFiniteSet(HeldBy(blockTable, b))
        BY HoldersFinite
      <4>3. Cardinality(HeldBy(blockTable, b) \cup {s})
              = IF s \in HeldBy(blockTable, b) THEN Cardinality(HeldBy(blockTable, b))
                                               ELSE Cardinality(HeldBy(blockTable, b)) + 1
        BY <4>2, FS_AddElement, Zenon
      <4> QED
        BY <2>1, <4>1, <4>3
    <3>2. refCount'[b] = refCount[b] + 1
      BY <1>1, <1>2, <2>1, <2>2
    <3> QED
      BY <1>2, <2>1, <2>2, <3>1, <3>2
  <2>3. CASE b \notin Range(ids) \cup Range(fresh)
    <3>1. refCount'[b] = refCount[b] /\ HeldBy(blockTable', b) = HeldBy(blockTable, b)
      BY <1>1, <1>2, <2>3
    <3>2. refCount[b] = 0 <=> b \in freeBlocks
      BY DEF PoolConsistent
    <3> QED
      BY <1>2, <2>1, <2>3, <3>1, <3>2
  <2> QED
    BY <2>2, <2>3
<1>5. freeBlocks' \cap usedBlocks' = {} /\ freeBlocks' \cup usedBlocks' = Blocks
  BY <1>1, <1>2 DEF PoolConsistent
<1>6. \A q \in Seqs : IsInjective(blockTable'[q])
  BY <1>1 DEF PoolConsistent
<1>7. refCount' \in [Blocks -> Nat]
  BY <1>2, <1>4
<1>8. \A b \in Blocks : Holders(b)' = HeldBy(blockTable', b)
  BY DEF Holders, HeldBy
<1> QED
  BY <1>4, <1>5, <1>6, <1>7, <1>8 DEF PoolConsistent, PoolTyped

LEMMA TableAtUse ==
    ASSUME TypeOK, TableInv, NEW s \in Seqs
    PROVE  /\ numCached[s] \in Nat /\ numScheduled[s] \in Nat /\ numPhysical[s] \in Nat
           /\ numCached[s] + numScheduled[s] <= Len(tokens[s])
           /\ Len(logical[s]) = Retained(s)
           /\ \A i \in 1..Retained(s) : logical[s][i] \in Nat /\ logical[s][i] >= 1
           /\ ~compressed[s] => /\ \A i \in 1..Retained(s) : logical[s][i] = i
                                /\ numPhysical[s] = numCached[s]
                                /\ numCached[s] <= Retained(s) * BlockSize
                                /\ Retained(s) <= NumBlocks(s)
                                /\ numScheduled[s] > 0 => Retained(s) = NumBlocks(s)
           /\ compressed[s] => Thinned(s)
<1>1. TableAt(s) /\ logical[s] \in Seq(Nat) /\ Len(logical[s]) = Retained(s)
  BY DEF TableInv, TableAt, TypeOK, Ascending
<1>2. \A i \in 1..Retained(s) : logical[s][i] \in Nat
  BY <1>1, ElementOfSeq
<1>3. numCached[s] \in Nat /\ numScheduled[s] \in Nat /\ numPhysical[s] \in Nat
  BY DEF TypeOK
<1> QED
  BY <1>1, <1>2, <1>3 DEF TableAt, Ascending, Whole

LEMMA IntactSplit ==
    ASSUME TypeOK
    PROVE  CachedPrefixIntact <=> \A s \in Seqs : IntactAt(s)
<1>1. \A s \in Seqs : DOMAIN blockTable[s] = 1..Retained(s)
  BY LenProperties DEF TypeOK, Retained
<1> QED
  BY <1>1 DEF CachedPrefixIntact, IntactAt

\* Resetting the pages fresh removes them from the index.
LEMMA TakeIndex ==
    ASSUME TypeOK, PoolConsistent, TableInv, IndexHashed, IndexedPageIntact,
           NEW s \in Seqs, NEW ids, NEW fresh, Range(fresh) \subseteq Blocks,
           TakePages(s, ids, fresh)
    PROVE  PagesReset(fresh) /\ IndexHashed' /\ IndexedPageIntact'
<1> DEFINE F == Range(fresh)
<1>1. /\ blockHash' = [b \in Blocks |-> IF b \in F THEN NoHash ELSE blockHash[b]]
      /\ index' = EvictFrom(index, F)
      /\ kv' = [b \in Blocks |-> IF b \in F THEN Junk ELSE kv[b]]
  BY DEF TakePages
<1> HIDE DEF F
<1>2. Junk \in Slots /\ NoHash \in Seq(Token)
  BY EmptySeq DEF Junk, NoHash, Slots
<1>3. blockHash' \in [Blocks -> Seq(Token)] /\ kv' \in [Blocks -> Slots]
  BY <1>1, <1>2 DEF TypeOK
<1>4. \A b \in Blocks \ F : kv'[b] = kv[b] /\ blockHash'[b] = blockHash[b]
  BY <1>1
<1>5. PICK D : /\ index' = Restrict(index, D) /\ D \subseteq DOMAIN index
               /\ \A key \in D : index[key] \notin F
  <2>1. CASE Backend = "hash"
    <3>1. ASSUME NEW key \in DOMAIN index, ~ \E b \in F : blockHash[b] = key /\ index[key] = b
          PROVE  index[key] \notin F
      BY <2>1, <3>1 DEF IndexHashed
    <3> QED
      BY <1>1, <2>1, <3>1 DEF EvictFrom
  <2>2. CASE Backend # "hash"
    <3>1. ASSUME NEW key \in DOMAIN index,
                 ~ \E q \in DOMAIN index : /\ index[q] \in F
                                           /\ Len(q) <= Len(key)
                                           /\ SubSeq(key, 1, Len(q)) = q
          PROVE  index[key] \notin F
      <4>1. key \in Seq(Token) /\ Len(key) <= Len(key) /\ SubSeq(key, 1, Len(key)) = key
        BY WholePrefix, LenProperties DEF TypeOK
      <4> QED
        BY <3>1, <4>1
    <3> DEFINE D == {p \in DOMAIN index : ~ \E q \in DOMAIN index : /\ index[q] \in F
                                                     /\ Len(q) <= Len(p)
                                                     /\ SubSeq(p, 1, Len(q)) = q}
    <3>2. index' = Restrict(index, D)
      BY <1>1, <2>2, Zenon DEF EvictFrom
    <3>3. D \subseteq DOMAIN index /\ \A key \in D : index[key] \notin F
      BY <3>1
    <3> QED
      BY <3>2, <3>3
  <2> QED
    BY <2>1, <2>2
<1>6. /\ DOMAIN index' = D /\ \A key \in D : index'[key] = index[key]
      /\ index' \in [D -> Blocks]
  BY <1>5 DEF Restrict, TypeOK
<1>7. Range(index') \subseteq Range(index) \ F
  BY <1>5, <1>6 DEF Range
<1>8. ASSUME NEW key \in D
      PROVE  /\ index'[key] = index[key] /\ kv'[index[key]] = kv[index[key]]
             /\ blockHash'[index[key]] = blockHash[index[key]] /\ key \in DOMAIN index
  BY <1>4, <1>5, <1>6 DEF TypeOK
<1>9. IndexHashed'
  BY <1>6, <1>8 DEF IndexHashed
<1>10. IndexedPageIntact'
  BY <1>6, <1>8 DEF IndexedPageIntact
<1> QED
  BY <1>3, <1>4, <1>5, <1>6, <1>7, <1>9, <1>10 DEF F, TypeOK, PagesReset

\* Nothing that concerns the table of q changes, apart from the pool.
Untouched(q) ==
    /\ tokens'[q] = tokens[q] /\ blockTable'[q] = blockTable[q]
    /\ numCached'[q] = numCached[q] /\ numPhysical'[q] = numPhysical[q]
    /\ numScheduled'[q] = numScheduled[q]
    /\ logical'[q] = logical[q] /\ compressed'[q] = compressed[q]

LEMMA UntouchedTable ==
    ASSUME NEW q \in Seqs, Untouched(q), TableAt(q)
    PROVE  TableAt(q)'
  BY DEF TableAt, Untouched, Ascending, Thinned, Whole, Retained, NewestMissing, NumBlocks

\* What a request keeps when its own fields do not change.
LEMMA UntouchedPages ==
    ASSUME TypeOK, TableInv, NEW q \in Seqs, Untouched(q),
           PrivateAt(q), HashedAt(q), IntactAt(q),
           \A b \in Range(blockTable[q]) :
               /\ kv'[b] = kv[b] /\ blockHash'[b] = blockHash[b]
               /\ HeldBy(blockTable, b) = {q} /\ b \notin Range(index) =>
                      HeldBy(blockTable', b) = {q} /\ b \notin Range(index')
    PROVE  PrivateAt(q)' /\ HashedAt(q)' /\ IntactAt(q)'
<1>0. \A i \in 1..Retained(q) : blockTable[q][i] \in Range(blockTable[q])
  BY TableSizes DEF Range
<1>1. Retained(q)' = Retained(q) /\ \A i : Open(q, i)' = Open(q, i) /\ ChainKey(q, i)' = ChainKey(q, i)
  BY DEF Retained, Open, ChainKey, Untouched
<1>2. PrivateAt(q)'
  <2> SUFFICES ASSUME NEW i \in 1..Retained(q), Open(q, i)
               PROVE  HeldBy(blockTable', blockTable'[q][i]) = {q} /\ blockTable'[q][i] \notin Range(index')
    BY <1>1 DEF PrivateAt
  <2>1. PICK b \in Range(blockTable[q]) : b = blockTable[q][i] /\ blockTable'[q][i] = b
    BY <1>0 DEF Untouched
  <2>2. HeldBy(blockTable, b) = {q} /\ b \notin Range(index)
    BY <2>1 DEF PrivateAt
  <2>3. HeldBy(blockTable', b) = {q} /\ b \notin Range(index')
    BY <2>2
  <2> QED
    BY <2>1, <2>3 DEF HeldBy
<1>3. HashedAt(q)'
  BY <1>0, <1>1 DEF HashedAt, Untouched
<1>4. IntactAt(q)'
  BY <1>0, <1>1 DEF IntactAt, Untouched
<1> QED
  BY <1>2, <1>3, <1>4

\* The pages ids and fresh can be taken by s, and are.
Takes(s, ids, m, fresh) ==
    /\ Offered(s, ids, Retained(s))
    /\ Range(ids) \cap Range(blockTable[s]) = {}
    /\ fresh \in FreshPages(m, freeBlocks \ Range(ids))
    /\ TakePages(s, ids, fresh)

\* All that TakePages does to the pool.
LEMMA TakeEffect ==
    ASSUME IndInv, NEW s \in Seqs, NEW ids, NEW m \in Nat, NEW fresh, Takes(s, ids, m, fresh)
    PROVE  /\ ids \in Seq(Blocks) /\ Range(ids) \subseteq Range(index)
           /\ Range(fresh) \subseteq Blocks
           /\ \A b \in Range(fresh) : HeldBy(blockTable, b) = {}
           /\ TableTaken(s, ids, m, fresh) /\ PoolConsistent' /\ PoolTyped'
           /\ PagesReset(fresh) /\ IndexHashed' /\ IndexedPageIntact'
<1>1. /\ ids \in Seq(Blocks) /\ IsInjective(ids)
      /\ Range(ids) \cap Range(blockTable[s]) = {}
      /\ fresh \in FreshPages(m, freeBlocks \ Range(ids))
      /\ TakePages(s, ids, fresh)
      /\ \A i \in 1..Len(ids) : ids[i] \in Range(index)
  BY DEF Takes, Offered, OfferedPage
<1>2. Range(ids) \subseteq Range(index)
  BY <1>1, LenProperties DEF Range
<1>3. /\ TypeOK /\ PoolConsistent /\ TableInv /\ IndexHashed /\ IndexedPageIntact
  BY DEF IndInv, HashesAgree
<1>4. TableTaken(s, ids, m, fresh)
  BY <1>1, <1>3, TakeTable
<1>5. Range(fresh) \subseteq Blocks /\ \A b \in Range(fresh) : HeldBy(blockTable, b) = {}
  BY <1>3, <1>4, FreeIsUnheld DEF TypeOK, TableTaken
<1>6. PoolConsistent' /\ PoolTyped'
  BY <1>1, <1>3, TakePool
<1>7. PagesReset(fresh) /\ IndexHashed' /\ IndexedPageIntact'
  BY <1>1, <1>3, <1>5, TakeIndex
<1> QED
  BY <1>1, <1>2, <1>4, <1>5, <1>6, <1>7

LEMMA TakeOthers ==
    ASSUME IndInv, NEW s \in Seqs, NEW ids, NEW m \in Nat, NEW fresh, Takes(s, ids, m, fresh),
           NEW q \in Seqs \ {s}, Untouched(q)
    PROVE  PrivateAt(q)' /\ HashedAt(q)' /\ IntactAt(q)'
<1>1. /\ TypeOK /\ TableInv /\ PrivateAt(q) /\ HashedAt(q) /\ IntactAt(q)
  BY IntactSplit DEF IndInv, OpenPagesPrivate, HashesAgree
<1>2. /\ Range(ids) \subseteq Range(index) /\ Range(fresh) \subseteq Blocks
      /\ \A b \in Range(fresh) : HeldBy(blockTable, b) = {}
      /\ TableTaken(s, ids, m, fresh) /\ PagesReset(fresh)
  BY TakeEffect
<1>3. ASSUME NEW b \in Range(blockTable[q])
      PROVE  /\ kv'[b] = kv[b] /\ blockHash'[b] = blockHash[b]
             /\ HeldBy(blockTable, b) = {q} /\ b \notin Range(index) =>
                    HeldBy(blockTable', b) = {q} /\ b \notin Range(index')
  <2>1. q \in HeldBy(blockTable, b)
    BY DEF HeldBy
  <2>2. b \in Blocks
    BY <1>1, RangeOfSeq DEF TypeOK
  <2>3. b \notin Range(fresh)
    BY <1>2, <2>1
  <2>4. kv'[b] = kv[b] /\ blockHash'[b] = blockHash[b]
    BY <1>2, <2>2, <2>3 DEF PagesReset
  <2>5. ASSUME HeldBy(blockTable, b) = {q}, b \notin Range(index)
        PROVE  HeldBy(blockTable', b) = {q} /\ b \notin Range(index')
    <3>1. b \notin Range(ids) \cup Range(fresh)
      BY <1>2, <2>3, <2>5
    <3>2. HeldBy(blockTable', b) = HeldBy(blockTable, b)
      BY <1>2, <3>1 DEF TableTaken
    <3> QED
      BY <1>2, <2>5, <3>2 DEF PagesReset
  <2> QED
    BY <2>4, <2>5
<1> QED
  BY <1>1, <1>3, UntouchedPages

\* The p-th page of s is counted as cached ...
CachedPage(s, p) == logical'[s][p] = p /\ p * BlockSize <= numCached'[s]

\* ... or lies beyond what is cached.
BlankPage(s, p) ==
    /\ logical'[s][p] \in Nat /\ logical'[s][p] >= 1
    /\ (logical'[s][p] - 1) * BlockSize >= numCached'[s]
    /\ ~compressed[s] => logical'[s][p] = p

\* The i-th page of s, which it had before, keeps its place, and the count of
\* cached tokens stands if the page is open.
OldPage(s, i) ==
    /\ logical'[s][i] = logical[s][i]
    /\ Open(s, i) => numCached'[s] = numCached[s]

\* The fields of s after it took its pages.
Extends(s, ids, m) ==
    /\ tokens'[s] = tokens[s] /\ compressed'[s] = compressed[s]
    /\ numCached'[s] \in Nat /\ numCached'[s] >= numCached[s]
    /\ \A i \in 1..Retained(s) : OldPage(s, i)
    /\ \A i \in 1..Len(ids) : CachedPage(s, Retained(s) + i)
    /\ \A i \in 1..m : BlankPage(s, Retained(s) + Len(ids) + i)

LEMMA TakeSelf ==
    ASSUME IndInv, NEW s \in Seqs, NEW ids, NEW m \in Nat, NEW fresh, Takes(s, ids, m, fresh),
           Extends(s, ids, m)
    PROVE  PrivateAt(s)' /\ HashedAt(s)' /\ IntactAt(s)'
<1> DEFINE R == Retained(s)
           L == Len(ids)
           T == blockTable'[s]
<1>1. /\ TypeOK /\ TableInv /\ PrivateAt(s) /\ HashedAt(s) /\ IntactAt(s)
  BY IntactSplit DEF IndInv, OpenPagesPrivate, HashesAgree
<1>2. /\ ids \in Seq(Blocks) /\ Range(ids) \subseteq Range(index) /\ Range(fresh) \subseteq Blocks
      /\ \A b \in Range(fresh) : HeldBy(blockTable, b) = {}
      /\ TableTaken(s, ids, m, fresh) /\ PagesReset(fresh)
  BY TakeEffect
<1>3. /\ R \in Nat /\ L \in Nat /\ Retained(s)' = R + L + m
      /\ DOMAIN ids = 1..L /\ fresh \in Seq(Blocks) /\ DOMAIN fresh = 1..m
      /\ \A i \in 1..R : blockTable[s][i] \in Blocks /\ blockTable[s][i] \in Range(blockTable[s])
      /\ BlockSize \in Nat /\ BlockSize >= 2
  BY <1>1, <1>2, LenProperties, TableSizes, BlockSizeAssumption DEF TableTaken, Retained, Range
<1>4. /\ numCached[s] \in Nat /\ \A i \in 1..R : logical[s][i] \in Nat /\ logical[s][i] >= 1
      /\ ~compressed[s] => \A i \in 1..R : logical[s][i] = i
      /\ compressed[s] \in BOOLEAN /\ numCached'[s] \in Nat /\ numCached'[s] >= numCached[s]
  BY <1>1, TableAtUse DEF TypeOK, Extends
<1>5. ASSUME NEW i \in 1..(R + L + m)
      PROVE  \/ i \in 1..R
             \/ \E k \in 1..L : i = R + k
             \/ \E k \in 1..m : i = R + L + k
  <2>1. i > R /\ i <= R + L => i - R \in 1..L /\ i = R + (i - R)
    BY <1>3
  <2>2. i > R + L => i - R - L \in 1..m /\ i = R + L + (i - R - L)
    BY <1>3
  <2> QED
    BY <1>3, <2>1, <2>2
\* An old page.
<1>6. ASSUME NEW i \in 1..R
      PROVE  /\ T[i] = blockTable[s][i] /\ logical'[s][i] = logical[s][i]
             /\ Open(s, i) => numCached'[s] = numCached[s]
             /\ T[i] \notin Range(fresh)
             /\ kv'[T[i]] = kv[blockTable[s][i]]
             /\ blockHash'[T[i]] = blockHash[blockTable[s][i]]
  <2>1. T[i] = blockTable[s][i] /\ logical'[s][i] = logical[s][i]
        /\ (Open(s, i) => numCached'[s] = numCached[s])
    BY <1>2 DEF TableTaken, Extends, OldPage, CachedPage
  <2>2. s \in HeldBy(blockTable, blockTable[s][i])
    BY <1>3 DEF HeldBy
  <2>3. blockTable[s][i] \notin Range(fresh)
    BY <1>2, <2>2
  <2> QED
    BY <1>2, <1>3, <2>1, <2>3 DEF PagesReset
\* A claimed page.
<1>7. ASSUME NEW k \in 1..L
      PROVE  /\ T[R + k] = ids[k] /\ logical'[s][R + k] = R + k
             /\ (R + k) * BlockSize <= numCached'[s]
             /\ OfferedPage(s, ids[k], R + k)
             /\ kv'[ids[k]] = kv[ids[k]] /\ blockHash'[ids[k]] = blockHash[ids[k]]
  <2>1. T[R + k] = ids[k] /\ logical'[s][R + k] = R + k
        /\ (R + k) * BlockSize <= numCached'[s]
    BY <1>2 DEF TableTaken, Extends, OldPage, CachedPage
  <2>2. OfferedPage(s, ids[k], R + k)
    BY DEF Takes, Offered
  <2>3. ids[k] \in Blocks /\ ids[k] \in Range(ids)
    BY <1>2, <1>3, ElementOfSeq DEF Range
  <2>4. ids[k] \notin Range(fresh)
    BY <1>2, <2>3 DEF TableTaken
  <2> QED
    BY <1>2, <2>1, <2>2, <2>3, <2>4 DEF PagesReset
\* A fresh page.
<1>8. ASSUME NEW k \in 1..m
      PROVE  /\ T[R + L + k] = fresh[k] /\ fresh[k] \in Range(fresh)
             /\ HeldBy(blockTable', fresh[k]) = {s} /\ fresh[k] \notin Range(index')
             /\ logical'[s][R + L + k] \in Nat /\ logical'[s][R + L + k] >= 1
             /\ (logical'[s][R + L + k] - 1) * BlockSize >= numCached'[s]
             /\ ~compressed[s] => logical'[s][R + L + k] = R + L + k
  <2>1. T[R + L + k] = fresh[k] /\ fresh[k] \in Range(fresh)
    BY <1>2, <1>3 DEF TableTaken, Range
  <2>2. HeldBy(blockTable', fresh[k]) = {s} /\ fresh[k] \notin Range(index')
    BY <1>2, <2>1 DEF TableTaken, PagesReset
  <2> QED
    BY <2>1, <2>2 DEF Extends, BlankPage
<1> HIDE DEF R, L, T
<1>9. PrivateAt(s)'
  <2> SUFFICES ASSUME NEW i \in 1..(R + L + m), logical'[s][i] * BlockSize > numCached'[s]
               PROVE  HeldBy(blockTable', T[i]) = {s} /\ T[i] \notin Range(index')
    BY <1>3 DEF PrivateAt, Open, T
  <2>1. CASE i \in 1..R
    <3>1. Open(s, i)
      <4>1. logical'[s][i] = logical[s][i] /\ logical[s][i] \in Nat
        BY <1>4, <1>6, <2>1
      <4>2. logical[s][i] * BlockSize \in Nat
        BY <1>3, <4>1
      <4> QED
        BY <1>4, <4>1, <4>2 DEF Open
    <3>2. HeldBy(blockTable, blockTable[s][i]) = {s} /\ blockTable[s][i] \notin Range(index)
      BY <1>1, <2>1, <3>1 DEF PrivateAt, R
    <3>3. T[i] = blockTable[s][i] /\ T[i] \notin Range(fresh)
      BY <1>6, <2>1
    <3>4. T[i] \notin Range(ids) \cup Range(fresh)
      BY <1>2, <3>2, <3>3
    <3>5. HeldBy(blockTable', T[i]) = HeldBy(blockTable, T[i])
      BY <1>2, <3>4 DEF TableTaken
    <3> QED
      BY <1>2, <3>2, <3>3, <3>5 DEF PagesReset
  <2>2. CASE \E k \in 1..L : i = R + k
    <3>1. PICK k \in 1..L : i = R + k
      BY <2>2
    <3>2. logical'[s][i] = R + k /\ (R + k) * BlockSize <= numCached'[s]
      BY <1>7, <3>1
    <3>3. (R + k) * BlockSize \in Nat
      BY <1>3
    <3> QED
      BY <1>4, <3>2, <3>3
  <2>3. CASE \E k \in 1..m : i = R + L + k
    BY <1>8, <2>3
  <2> QED
    BY <1>5, <2>1, <2>2, <2>3
<1>10. HashedAt(s)'
  <2> SUFFICES ASSUME Backend = "hash", ~compressed[s], NEW i \in 1..(R + L + m),
                      i * BlockSize <= numCached'[s]
               PROVE  blockHash'[T[i]] = ChainKey(s, i)
    BY <1>3 DEF HashedAt, Extends, ChainKey, T
  <2>1. CASE i \in 1..R
    <3>1. logical[s][i] = i /\ (Open(s, i) <=> i * BlockSize > numCached[s])
      BY <1>4, <2>1 DEF Open
    <3>2. i * BlockSize <= numCached[s]
      BY <1>3, <1>4, <1>6, <2>1, <3>1 DEF Extends
    <3> QED
      BY <1>1, <1>6, <2>1, <3>2 DEF HashedAt, R
  <2>2. CASE \E k \in 1..L : i = R + k
    BY <1>7, <2>2 DEF OfferedPage
  <2>3. CASE \E k \in 1..m : i = R + L + k
    <3>1. logical'[s][i] = i /\ (i - 1) * BlockSize >= numCached'[s]
      BY <1>8, <2>3
    <3> QED
      BY <1>3, <3>1 DEF Extends
  <2> QED
    BY <1>5, <2>1, <2>2, <2>3
<1>11. IntactAt(s)'
  <2> SUFFICES ASSUME NEW i \in 1..(R + L + m), NEW j \in 1..BlockSize,
                      (logical'[s][i] - 1) * BlockSize + j <= numCached'[s]
               PROVE  kv'[T[i]][j] = SubSeq(tokens[s], 1, (logical'[s][i] - 1) * BlockSize + j)
    BY <1>3 DEF IntactAt, Extends, T
  <2>1. CASE i \in 1..R
    <3>1. logical[s][i] \in Nat /\ logical[s][i] >= 1 /\ logical'[s][i] = logical[s][i]
      BY <1>4, <1>6, <2>1
    <3>2. (logical[s][i] - 1) * BlockSize + j <= logical[s][i] * BlockSize
      BY <3>1, SlotUnique
    <3>3. Open(s, i) \/ logical[s][i] * BlockSize <= numCached[s]
      BY <1>3, <1>4, <3>1, SMTT(30) DEF Open
    <3>4. (logical[s][i] - 1) * BlockSize + j <= numCached[s]
      <4>1. (logical[s][i] - 1) * BlockSize + j \in Nat /\ logical[s][i] * BlockSize \in Nat
        BY <3>1, SlotUnique, PageOrder
      <4>2. PICK x \in Nat, y \in Nat :
              x = (logical[s][i] - 1) * BlockSize + j /\ y = logical[s][i] * BlockSize
        BY <4>1
      <4>3. x <= y /\ x <= numCached'[s]
        BY <3>1, <3>2, <4>2
      <4>4. numCached'[s] = numCached[s] \/ y <= numCached[s]
        BY <1>6, <2>1, <3>3, <4>2
      <4>5. x <= numCached[s]
        BY <1>4, <4>3, <4>4
      <4> QED
        BY <4>2, <4>5
    <3> QED
      BY <1>1, <1>6, <2>1, <3>1, <3>4 DEF IntactAt, R
  <2>2. CASE \E k \in 1..L : i = R + k
    BY <1>7, <2>2 DEF OfferedPage
  <2>3. CASE \E k \in 1..m : i = R + L + k
    <3>1. logical'[s][i] \in Nat /\ (logical'[s][i] - 1) * BlockSize >= numCached'[s]
      BY <1>8, <2>3
    <3>2. PICK x \in Int : x = (logical'[s][i] - 1) * BlockSize
      BY <1>3, <3>1
    <3>3. x >= numCached'[s] /\ x + j <= numCached'[s] /\ j \in Nat /\ j >= 1
      BY <1>3, <3>1, <3>2
    <3>4. FALSE
      BY <1>4, <3>2, <3>3
    <3> QED
      BY <3>4
  <2> QED
    BY <1>5, <2>1, <2>2, <2>3
<1> QED
  BY <1>9, <1>10, <1>11

SeqTyped ==
    /\ tokens \in [Seqs -> Seq(Token)]
    /\ numCached \in [Seqs -> Nat] /\ numPhysical \in [Seqs -> Nat]
    /\ numScheduled \in [Seqs -> Nat]
    /\ logical \in [Seqs -> Seq(Nat)]
    /\ compressed \in [Seqs -> BOOLEAN]

LEMMA SeqTypes ==
    ASSUME TypeOK
    PROVE  SeqTyped
  BY DEF TypeOK, SeqTyped

\* The parts of the inductive invariant, put together.
LEMMA Assemble ==
    ASSUME SeqTyped', PoolTyped', PoolConsistent',
           blockTable' \in [Seqs -> Seq(Blocks)],
           blockHash' \in [Blocks -> Seq(Token)], kv' \in [Blocks -> Slots],
           index' \in [DOMAIN index' -> Blocks], DOMAIN index' \subseteq Seq(Token),
           IndexHashed', IndexedPageIntact',
           \A q \in Seqs : TableAt(q)' /\ PrivateAt(q)' /\ HashedAt(q)' /\ IntactAt(q)'
    PROVE  IndInv'
<1>1. TypeOK'
  BY DEF TypeOK, SeqTyped, PoolTyped
<1>2. CachedPrefixIntact'
  <2>1. \A q \in Seqs : DOMAIN blockTable'[q] = 1..Retained(q)'
    BY <1>1, LenProperties DEF TypeOK, Retained
  <2> QED
    BY <2>1 DEF CachedPrefixIntact, IntactAt
<1>3. TableInv' /\ OpenPagesPrivate' /\ HashesAgree'
  BY DEF TableInv, OpenPagesPrivate, HashesAgree
<1> QED
  BY <1>1, <1>2, <1>3 DEF IndInv

LEMMA TakeKeeps ==
    ASSUME IndInv, NEW s \in Seqs, NEW ids, NEW m \in Nat, NEW fresh, Takes(s, ids, m, fresh),
           Extends(s, ids, m), SeqTyped', TableAt(s)', \A q \in Seqs \ {s} : Untouched(q)
    PROVE  IndInv'
<1>1. /\ TableTaken(s, ids, m, fresh) /\ PagesReset(fresh)
      /\ PoolConsistent' /\ PoolTyped' /\ IndexHashed' /\ IndexedPageIntact'
  BY TakeEffect
<1>2. /\ blockTable' \in [Seqs -> Seq(Blocks)]
      /\ blockHash' \in [Blocks -> Seq(Token)] /\ kv' \in [Blocks -> Slots]
      /\ index' \in [DOMAIN index' -> Blocks] /\ DOMAIN index' \subseteq Seq(Token)
  BY <1>1 DEF TableTaken, PagesReset
<1>3. PrivateAt(s)' /\ HashedAt(s)' /\ IntactAt(s)'
  BY TakeSelf
<1>4. ASSUME NEW q \in Seqs \ {s}
      PROVE  TableAt(q)' /\ PrivateAt(q)' /\ HashedAt(q)' /\ IntactAt(q)'
  <2>1. TableAt(q)'
    BY UntouchedTable DEF IndInv, TableInv
  <2> QED
    BY <2>1, TakeOthers
<1>5. \A q \in Seqs : TableAt(q)' /\ PrivateAt(q)' /\ HashedAt(q)' /\ IntactAt(q)'
  BY <1>3, <1>4
<1> QED
  BY <1>1, <1>2, <1>5, Assemble

\* One more token needs another page exactly when the pages are full.
LEMMA PageStep ==
    ASSUME NEW n \in Nat
    PROVE  /\ (n + 1) % BlockSize = 1 <=> n % BlockSize = 0
           /\ n % BlockSize = 0 => Pages(n + 1) = Pages(n) + 1 /\ n = Pages(n) * BlockSize
           /\ n % BlockSize # 0 => Pages(n + 1) = Pages(n)
<1>1. PICK d \in Nat, r \in 0..(BlockSize - 1) :
        n = d * BlockSize + r /\ n % BlockSize = r /\ BlockSize \in Nat /\ BlockSize >= 2
  BY BlockSizeAssumption, DivPage
<1>2. CASE r = 0
  <2>1. Pages(n) = d
    BY <1>1, <1>2, PagesUnique
  <2>2. Pages(n + 1) = d + 1 /\ n + 1 = d * BlockSize + 1
    <3>1. n + 1 \in Nat /\ d + 1 \in Nat /\ (d + 1) - 1 = d
      OBVIOUS
    <3>2. (d + 1) * BlockSize = d * BlockSize + BlockSize
      BY <1>1
    <3> QED
      BY <1>1, <1>2, <3>1, <3>2, PagesUnique
  <2>3. (n + 1) % BlockSize = 1
    BY <1>1, <2>2, ModPage
  <2> QED
    BY <1>1, <1>2, <2>1, <2>2, <2>3
<1>3. CASE r # 0
  <2>1. /\ (d + 1) * BlockSize = d * BlockSize + BlockSize /\ (d + 1) - 1 = d /\ d + 1 \in Nat
    BY <1>1
  <2>2. Pages(n) = d + 1 /\ Pages(n + 1) = d + 1
    <3>1. n + 1 \in Nat /\ d * BlockSize < n /\ n + 1 <= (d + 1) * BlockSize
      BY <1>1, <1>3, <2>1
    <3> QED
      BY <1>1, <2>1, <3>1, PagesUnique
  <2>3. (n + 1) % BlockSize # 1
    <3>1. CASE r + 1 < BlockSize
      BY <1>1, <1>3, <3>1
    <3>2. CASE r + 1 = BlockSize
      <4>1. n + 1 = (d + 1) * BlockSize
        BY <1>1, <2>1, <3>2
      <4> QED
        BY <2>1, <4>1, MulDiv
    <3> QED
      BY <1>1, <3>1, <3>2
  <2> QED
    BY <1>1, <1>3, <2>2, <2>3
<1> QED
  BY <1>2, <1>3

LEMMA IdentityTable ==
    ASSUME NEW n \in Nat
    PROVE  [i \in 1..n |-> i] \in Seq(Nat) /\ Len([i \in 1..n |-> i]) = n
<1>1. [i \in 1..n |-> i] \in [1..n -> Nat]
  OBVIOUS
<1> QED
  BY <1>1, FunctionIsSeq

\* A table with all its pages.
LEMMA RegularTable ==
    ASSUME NEW s \in Seqs, NEW n \in Nat, Len(blockTable'[s]) = n,
           tokens'[s] = tokens[s], Len(tokens[s]) \in Nat, Len(tokens[s]) > 0, NumBlocks(s) = n,
           logical'[s] = [i \in 1..n |-> i], ~compressed'[s], numPhysical'[s] = numCached'[s],
           numCached'[s] \in Nat, numScheduled'[s] \in Nat,
           numCached'[s] + numScheduled'[s] <= Len(tokens[s])
    PROVE  TableAt(s)'
<1>1. Retained(s)' = n /\ NumBlocks(s)' = n /\ Len(logical'[s]) = n
  BY IdentityTable DEF Retained, NumBlocks
<1>2. \A i \in 1..n : logical'[s][i] = i
  OBVIOUS
<1>3. Ascending(s)'
  BY <1>1, <1>2 DEF Ascending
<1>4. numCached'[s] <= n * BlockSize
  <2>1. Len(tokens[s]) <= n * BlockSize
    BY PagesBounds DEF NumBlocks
  <2> QED
    BY <2>1, BlockSizeAssumption
<1>5. Whole(s)'
  BY <1>1, <1>2, <1>4 DEF Whole
<1> QED
  BY <1>3, <1>5 DEF TableAt

LEMMA AllocateStep ==
    ASSUME IndInv, NEW s \in Seqs, NEW n \in 0..CacheableBlocks(s), NEW k \in Nat, Allocate(s, n, k)
    PROVE  IndInv'
<1> DEFINE ids == LookupCachedBlocks(s)
           m == NumBlocks(s) - n
<1>1. TypeOK /\ TableInv /\ IndexedPageIntact
  BY DEF IndInv
<1>2a. Offered(s, ids, 0)
  BY <1>1, LookupOffered
<1>2b. Len(ids) = n
  BY DEF Allocate, AllocateOp
<1>2c. /\ NumBlocks(s) \in Nat /\ NumBlocks(s) = CacheableBlocks(s) + 1
       /\ CacheableBlocks(s) \in Nat /\ Len(tokens[s]) \in Nat /\ Len(tokens[s]) > 0
  BY <1>1, TableSizes
<1>2d. n * BlockSize \in Nat
  BY <1>1, CacheableKey
<1>2. /\ Offered(s, ids, 0) /\ Len(ids) = n
      /\ NumBlocks(s) \in Nat /\ n \in Nat /\ n < NumBlocks(s) /\ m \in Nat
      /\ Len(tokens[s]) \in Nat /\ Len(tokens[s]) > 0 /\ BlockSize \in Nat
      /\ n * BlockSize \in Nat /\ numCached[s] \in Nat /\ compressed[s] \in BOOLEAN
  BY <1>1, <1>2a, <1>2b, <1>2c, <1>2d, BlockSizeAssumption, SMTT(30) DEF TypeOK
<1>3. /\ blockTable[s] = <<>> /\ k \in 0..(Len(tokens[s]) - n * BlockSize)
      /\ logical' = [logical EXCEPT ![s] = [i \in 1..NumBlocks(s) |-> i]]
      /\ numCached' = [numCached EXCEPT ![s] = n * BlockSize]
      /\ numPhysical' = [numPhysical EXCEPT ![s] = n * BlockSize]
      /\ numScheduled' = [numScheduled EXCEPT ![s] = k]
      /\ tokens' = tokens /\ compressed' = compressed
  BY DEF Allocate, AllocateOp
<1>4. PICK fresh \in FreshPages(m, freeBlocks \ Range(ids)) : TakePages(s, ids, fresh)
  BY DEF Allocate, AllocateOp
<1>5. Retained(s) = 0 /\ Range(blockTable[s]) = {}
  BY <1>3, EmptySeq DEF Retained, Range
<1> HIDE DEF ids, m
<1>6. Takes(s, ids, m, fresh)
  BY <1>2, <1>4, <1>5 DEF Takes
<1>7. ~compressed[s] /\ numCached[s] = 0
  <2>1. ~compressed[s]
    BY <1>1, <1>2, <1>5, TableAtUse DEF Thinned
  <2> QED
    BY <1>1, <1>2, <1>5, <2>1, TableAtUse
<1>8. SeqTyped /\ [i \in 1..NumBlocks(s) |-> i] \in Seq(Nat)
  BY <1>1, <1>2, SeqTypes, IdentityTable
<1>9. SeqTyped'
  BY <1>2, <1>3, <1>8 DEF SeqTyped
<1>10. /\ logical'[s] = [i \in 1..NumBlocks(s) |-> i] /\ numCached'[s] = n * BlockSize
       /\ numPhysical'[s] = n * BlockSize /\ numScheduled'[s] = k
  BY <1>3, <1>8 DEF SeqTyped
<1>11. TableTaken(s, ids, m, fresh)
  BY <1>2, <1>6, TakeEffect
<1>12. Len(blockTable'[s]) = NumBlocks(s)
  BY <1>2, <1>5, <1>11 DEF TableTaken, m
<1>13. numCached'[s] + numScheduled'[s] <= Len(tokens[s])
  BY <1>2, <1>3, <1>10
<1>14. TableAt(s)'
  BY <1>2, <1>3, <1>7, <1>10, <1>12, <1>13, RegularTable
<1>15. Extends(s, ids, m)
  <2>1. ASSUME NEW i \in 1..n PROVE i * BlockSize <= n * BlockSize
    BY <1>2, PageOrder
  <2>2. ASSUME NEW i \in 1..m
        PROVE  /\ 0 + n + i \in 1..NumBlocks(s) /\ (n + i - 1) * BlockSize >= n * BlockSize
               /\ 0 + n + i = n + i /\ n + i \in Nat /\ n + i >= 1
    <3>1. n + i \in 1..NumBlocks(s) /\ n + i - 1 \in Nat /\ n <= n + i - 1
      BY <1>2 DEF m
    <3>2. (n + i - 1) * BlockSize >= n * BlockSize
      <4>1. n * BlockSize <= (n + i - 1) * BlockSize
        BY <1>2, <3>1, PageOrder
      <4> QED
        BY <4>1
    <3>3. 0 + n + i = n + i /\ n + i \in Nat /\ n + i >= 1
      BY <1>2, <3>1
    <3> QED
      BY <3>1, <3>2, <3>3
  <2>3. \A i \in 1..n : 0 + i = i /\ i \in 1..NumBlocks(s)
    BY <1>2
  <2>4. ASSUME NEW i \in 1..Len(ids) PROVE CachedPage(s, Retained(s) + i)
    <3>1. Retained(s) + i = i /\ i \in 1..n /\ i \in 1..NumBlocks(s)
      BY <1>2, <1>5
    <3> QED
      BY <1>10, <2>1, <3>1 DEF CachedPage
  <2>5. ASSUME NEW i \in 1..m PROVE BlankPage(s, Retained(s) + Len(ids) + i)
    <3>1. Retained(s) + Len(ids) + i = n + i /\ logical'[s][n + i] = n + i
      BY <1>2, <1>5, <1>10, <2>2
    <3> QED
      BY <1>10, <2>2, <3>1 DEF BlankPage
  <2>6. 1..Retained(s) = {}
    BY <1>5
  <2>7. /\ tokens'[s] = tokens[s] /\ compressed'[s] = compressed[s]
        /\ numCached'[s] \in Nat /\ numCached'[s] >= numCached[s]
    BY <1>2, <1>3, <1>7, <1>10
  <2> QED
    BY <2>4, <2>5, <2>6, <2>7 DEF Extends
<1>16. \A q \in Seqs \ {s} : Untouched(q)
  BY <1>1, <1>3, <1>11 DEF Untouched, TableTaken, TypeOK
<1> QED
  BY <1>2, <1>6, <1>9, <1>14, <1>15, <1>16, TakeKeeps

LEMMA ResumeStep ==
    ASSUME IndInv, NEW s \in Seqs, Resume(s)
    PROVE  IndInv'
<1> DEFINE ids == ResumeSuffix(s)
           R == Retained(s)
           L == Len(ids)
           N == NumBlocks(s)
           m == N - R - L
<1>1. TypeOK /\ TableInv /\ IndexedPageIntact
  BY DEF IndInv
<1>2. /\ Offered(s, ids, R) /\ Range(ids) \cap Range(blockTable[s]) = {} /\ ids \in Seq(Blocks)
      /\ R + L <= CacheableBlocks(s) \/ ids = <<>>
  BY <1>1, SuffixOffered DEF Offered
<1>3. /\ N \in Nat /\ CacheableBlocks(s) \in Nat /\ N = CacheableBlocks(s) + 1 /\ R \in Nat
      /\ Len(tokens[s]) \in Nat /\ Len(tokens[s]) > 0
      /\ CacheableBlocks(s) * BlockSize < Len(tokens[s])
  BY <1>1, TableSizes
<1>4. /\ numScheduled[s] = 0 /\ ~compressed[s] /\ pendingResume[s] = ids
      /\ R < N => numCached[s] = R * BlockSize
  BY DEF Resume, Idle
<1>5. /\ logical' = [logical EXCEPT ![s] = [i \in 1..N |-> i]]
      /\ numCached' = [numCached EXCEPT ![s] = @ + L * BlockSize]
      /\ numPhysical' = [numPhysical EXCEPT ![s] = @ + L * BlockSize]
      /\ tokens' = tokens /\ numScheduled' = numScheduled /\ compressed' = compressed
  BY <1>4 DEF Resume, ResumeOp
<1>6. PICK fresh \in FreshPages(m, freeBlocks \ Range(ids)) : TakePages(s, ids, fresh)
  BY <1>4 DEF Resume, ResumeOp
<1>7. /\ numCached[s] \in Nat /\ numPhysical[s] = numCached[s]
      /\ numCached[s] <= R * BlockSize /\ R <= N /\ numCached[s] <= Len(tokens[s])
      /\ \A i \in 1..R : logical[s][i] = i
  BY <1>1, <1>3, <1>4, TableAtUse
<1>8. L \in Nat /\ (ids = <<>> => L = 0) /\ BlockSize \in Nat /\ BlockSize >= 2
  BY <1>2, LenProperties, EmptySeq, BlockSizeAssumption
<1> HIDE DEF ids, R, L, N
<1>9. m \in Nat /\ (R = N => L = 0) /\ R + L + m = N
  <2>1. N \in Nat /\ R \in Nat /\ L \in Nat /\ R <= N
    BY <1>3, <1>7, <1>8
  <2>2. R + L <= N - 1 \/ L = 0
    BY <1>2, <1>3, <1>8
  <2> QED
    BY <2>1, <2>2
<1> HIDE DEF m
<1>10. Takes(s, ids, m, fresh)
  BY <1>2, <1>6 DEF Takes, R
<1>11. SeqTyped /\ [i \in 1..N |-> i] \in Seq(Nat)
  BY <1>1, <1>3, SeqTypes, IdentityTable
<1>12. L * BlockSize \in Nat
  BY <1>8
<1>13. /\ logical'[s] = [i \in 1..N |-> i] /\ numCached'[s] = numCached[s] + L * BlockSize
       /\ numPhysical'[s] = numCached[s] + L * BlockSize
       /\ numScheduled'[s] = 0 /\ numCached'[s] \in Nat
  BY <1>4, <1>5, <1>7, <1>11, <1>12 DEF SeqTyped
<1>14. SeqTyped'
  BY <1>5, <1>7, <1>11, <1>12 DEF SeqTyped
<1>15. TableTaken(s, ids, m, fresh)
  BY <1>9, <1>10, TakeEffect
<1>16. Len(blockTable'[s]) = N
  BY <1>3, <1>8, <1>9, <1>15 DEF TableTaken, R, L
<1>17. /\ numCached'[s] <= Len(tokens[s])
       /\ L > 0 \/ m > 0 => numCached'[s] = (R + L) * BlockSize
  <2>1. CASE R < N
    <3>1. numCached'[s] = (R + L) * BlockSize
      BY <1>3, <1>4, <1>8, <1>13, <2>1
    <3>2. CASE ids = <<>>
      <4>1. numCached'[s] = numCached[s]
        BY <1>7, <1>8, <1>13, <3>2
      <4> QED
        BY <1>7, <3>1, <4>1
    <3>3. CASE R + L <= CacheableBlocks(s)
      <4>1. (R + L) * BlockSize <= CacheableBlocks(s) * BlockSize
        BY <1>3, <1>8, <3>3, PageOrder
      <4>2. (R + L) * BlockSize \in Nat /\ CacheableBlocks(s) * BlockSize \in Nat
        BY <1>3, <1>8
      <4> QED
        BY <1>3, <3>1, <4>1, <4>2
    <3> QED
      BY <1>2, <3>2, <3>3
  <2>2. CASE R = N
    <3>1. L = 0 /\ m = 0
      BY <1>3, <1>9, <2>2
    <3>2. numCached'[s] = numCached[s]
      BY <1>7, <1>8, <1>13, <3>1
    <3> QED
      BY <1>7, <3>1, <3>2
  <2> QED
    BY <1>3, <1>7, <2>1, <2>2
<1>18. TableAt(s)'
  <2>1. numPhysical'[s] = numCached'[s] /\ ~compressed'[s]
        /\ numCached'[s] + numScheduled'[s] <= Len(tokens[s]) /\ tokens'[s] = tokens[s]
        /\ numScheduled'[s] \in Nat /\ NumBlocks(s) = N
    BY <1>3, <1>4, <1>5, <1>13, <1>17 DEF N
  <2> QED
    BY <1>3, <1>13, <1>16, <2>1, RegularTable
<1>19. Extends(s, ids, m)
  <2>1. ASSUME NEW i \in 1..R PROVE OldPage(s, i)
    <3>1. logical'[s][i] = i /\ logical[s][i] = i
      BY <1>3, <1>7, <1>13
    <3>2. CASE L = 0
      <4>1. numCached'[s] = numCached[s]
        BY <1>7, <1>8, <1>13, <3>2
      <4> QED
        BY <3>1, <4>1 DEF OldPage
    <3>3. CASE L > 0
      <4>1. numCached[s] = R * BlockSize
        BY <1>4, <1>3, <1>7, <1>8, <1>9, <3>3
      <4>2. i * BlockSize <= R * BlockSize /\ i * BlockSize \in Nat /\ R * BlockSize \in Nat
        BY <1>3, PageOrder, SMTT(30)
      <4>3. ~Open(s, i)
        BY <3>1, <4>1, <4>2 DEF Open
      <4> QED
        BY <3>1, <4>3 DEF OldPage
    <3> QED
      BY <1>8, <3>2, <3>3
  <2>2. ASSUME NEW i \in 1..L PROVE CachedPage(s, R + i)
    <3>1. R + i \in 1..N /\ numCached'[s] = (R + L) * BlockSize /\ R + i <= R + L
      BY <1>3, <1>8, <1>9, <1>17
    <3>2. (R + i) * BlockSize <= (R + L) * BlockSize
      BY <1>3, <1>8, <3>1, PageOrder
    <3> QED
      BY <1>13, <3>1, <3>2 DEF CachedPage
  <2>3. ASSUME NEW i \in 1..m PROVE BlankPage(s, R + L + i)
    <3>1. /\ R + L + i \in 1..N /\ numCached'[s] = (R + L) * BlockSize
          /\ R + L <= R + L + i - 1 /\ R + L + i - 1 \in Nat /\ R + L \in Nat
      BY <1>3, <1>8, <1>9, <1>17
    <3>2. (R + L) * BlockSize <= (R + L + i - 1) * BlockSize
      BY <3>1, PageOrder
    <3>3. logical'[s][R + L + i] = R + L + i
      BY <1>13, <3>1
    <3>4. (R + L) * BlockSize \in Nat /\ (R + L + i - 1) * BlockSize \in Nat
      BY <3>1, PageOrder
    <3> QED
      BY <3>1, <3>2, <3>3, <3>4 DEF BlankPage
  <2>4. /\ tokens'[s] = tokens[s] /\ compressed'[s] = compressed[s]
        /\ numCached'[s] \in Nat /\ numCached'[s] >= numCached[s]
    BY <1>5, <1>7, <1>12, <1>13
  <2> QED
    BY <2>1, <2>2, <2>3, <2>4 DEF Extends, R, L
<1>20. \A q \in Seqs \ {s} : Untouched(q)
  BY <1>1, <1>5, <1>15 DEF Untouched, TableTaken, TypeOK
<1> QED
  BY <1>9, <1>10, <1>14, <1>18, <1>19, <1>20, TakeKeeps

\* Steps that touch neither the pool nor the tables.
LEMMA SamePool ==
    ASSUME IndInv, SeqTyped', \A q \in Seqs : TableAt(q)',
           UNCHANGED <<tokens, blockTable, numCached, logical, compressed, poolVars, kv>>
    PROVE  IndInv'
<1>1. /\ UNCHANGED <<tokens, blockTable, numCached, logical, compressed>>
      /\ UNCHANGED <<freeBlocks, usedBlocks, refCount, blockHash, index, kv>>
  BY DEF poolVars
<1>2. TypeOK /\ PoolConsistent /\ IndexHashed /\ IndexedPageIntact
      /\ \A q \in Seqs : PrivateAt(q) /\ HashedAt(q) /\ IntactAt(q)
  BY IntactSplit DEF IndInv, HashesAgree, OpenPagesPrivate
<1>3. PoolTyped' /\ PoolConsistent'
  BY <1>1, <1>2 DEF TypeOK, PoolTyped, PoolConsistent, Holders
<1>4. /\ blockTable' \in [Seqs -> Seq(Blocks)]
      /\ blockHash' \in [Blocks -> Seq(Token)] /\ kv' \in [Blocks -> Slots]
      /\ index' \in [DOMAIN index' -> Blocks] /\ DOMAIN index' \subseteq Seq(Token)
  BY <1>1, <1>2 DEF TypeOK
<1>5. IndexHashed' /\ IndexedPageIntact'
  BY <1>1, <1>2 DEF IndexHashed, IndexedPageIntact
<1>6. ASSUME NEW q \in Seqs PROVE PrivateAt(q)' /\ HashedAt(q)' /\ IntactAt(q)'
  <2>1. PrivateAt(q)'
    BY <1>1, <1>2 DEF PrivateAt, Open, Retained
  <2>2. HashedAt(q)'
    BY <1>1, <1>2 DEF HashedAt, ChainKey, Retained
  <2>3. IntactAt(q)'
    BY <1>1, <1>2 DEF IntactAt, Retained
  <2> QED
    BY <2>1, <2>2, <2>3
<1> QED
  BY <1>3, <1>4, <1>5, <1>6, Assemble

LEMMA ScheduleKeeps ==
    ASSUME IndInv, NEW s \in Seqs, NEW k \in Nat,
           numScheduled' = [numScheduled EXCEPT ![s] = k], TableAt(s)',
           UNCHANGED <<tokens, blockTable, numCached, numPhysical, logical, compressed,
                       poolVars, kv>>
    PROVE  IndInv'
<1>1. SeqTyped /\ TableInv
  BY SeqTypes DEF IndInv
<1>2. SeqTyped'
  BY <1>1 DEF SeqTyped
<1>3. ASSUME NEW q \in Seqs \ {s} PROVE TableAt(q)'
  <2>1. Untouched(q)
    BY <1>1 DEF Untouched, SeqTyped
  <2> QED
    BY <1>1, <2>1, UntouchedTable DEF TableInv
<1>4. \A q \in Seqs : TableAt(q)'
  BY <1>3
<1> QED
  BY <1>2, <1>4, SamePool

LEMMA ScheduleStep ==
    ASSUME IndInv, NEW s \in Seqs, NEW k \in Nat, Schedule(s, k)
    PROVE  IndInv'
<1>1. TypeOK /\ TableInv /\ TableAt(s)
  BY DEF IndInv, TableInv
<1>2. /\ ~compressed[s] /\ Retained(s) = NumBlocks(s)
      /\ k \in 1..(Len(tokens[s]) - numCached[s])
      /\ numScheduled' = [numScheduled EXCEPT ![s] = k]
      /\ UNCHANGED <<tokens, blockTable, numCached, numPhysical, logical, compressed, poolVars, kv>>
  BY DEF Schedule, ScheduleOp
<1>3. /\ numCached[s] \in Nat /\ Len(tokens[s]) \in Nat /\ numScheduled'[s] = k
  BY <1>1, <1>2, TableSizes DEF TypeOK
<1>4. numCached[s] + k <= Len(tokens[s])
  BY <1>2, <1>3
<1>5. TableAt(s)'
  BY <1>1, <1>2, <1>3, <1>4 DEF TableAt, Ascending, Whole, Retained, NumBlocks
<1> QED
  BY <1>2, <1>5, ScheduleKeeps

\* The page counts of a request whose newest token is the only one without KV.
LEMMA DecodeReadyPages ==
    ASSUME TypeOK, TableInv, NEW s \in Seqs, Idle(s), DecodeReady(s)
    PROVE  /\ numCached[s] \in Nat /\ numPhysical[s] \in Nat
           /\ Len(tokens[s]) = numCached[s] + 1
           /\ Retained(s) \in Nat /\ Retained(s) >= 1
           /\ Retained(s) = Pages(numPhysical[s])
           /\ logical[s][Retained(s)] = Pages(numCached[s])
           /\ numPhysical[s] % BlockSize = numCached[s] % BlockSize
           /\ NumBlocks(s) = Pages(numCached[s] + 1)
           /\ ~compressed[s] => Retained(s) = Pages(numCached[s])
<1>1. /\ numCached[s] \in Nat /\ numPhysical[s] \in Nat /\ numScheduled[s] = 0
      /\ Len(tokens[s]) = numCached[s] + 1 /\ blockTable[s] # <<>>
      /\ Retained(s) = Pages(numPhysical[s])
  BY TableSizes DEF TypeOK, Idle, DecodeReady, NewestMissing
<1>2. Retained(s) \in Nat /\ Retained(s) >= 1
  <2>1. Retained(s) \in Nat /\ Retained(s) # 0
    BY <1>1, EmptySeq, LenProperties DEF Retained, TypeOK
  <2> QED
    BY <2>1
<1>3. NumBlocks(s) = Pages(numCached[s] + 1)
  BY <1>1 DEF NumBlocks
<1>4. CASE compressed[s]
  <2>1. /\ logical[s][Retained(s)] = Pages(numCached[s] + numScheduled[s])
        /\ numPhysical[s] % BlockSize = numCached[s] % BlockSize
    BY <1>4, TableAtUse DEF Thinned
  <2> QED
    BY <1>1, <1>2, <1>3, <1>4, <2>1
<1>5. CASE ~compressed[s]
  <2>1. numPhysical[s] = numCached[s] /\ logical[s][Retained(s)] = Retained(s)
    BY <1>2, <1>5, TableAtUse
  <2> QED
    BY <1>1, <1>2, <1>3, <2>1
<1> QED
  BY <1>4, <1>5

LEMMA DecodeWithinPage ==
    ASSUME IndInv, NEW s \in Seqs, MayAppend(s), ~NeedsPage(s)
    PROVE  IndInv'
<1>1. TypeOK /\ TableInv /\ TableAt(s) /\ Idle(s) /\ DecodeReady(s) /\ NewestMissing(s)
  BY DEF IndInv, TableInv, MayAppend, DecodeReady
<1>2. /\ numScheduled' = [numScheduled EXCEPT ![s] = 1]
      /\ UNCHANGED <<tokens, blockTable, numCached, numPhysical, logical, compressed, poolVars, kv>>
  BY DEF MayAppend, MayAppendOp
<1>3. /\ numCached[s] \in Nat /\ numPhysical[s] \in Nat
      /\ Len(tokens[s]) = numCached[s] + 1
      /\ Retained(s) \in Nat /\ Retained(s) >= 1
      /\ Retained(s) = Pages(numPhysical[s])
      /\ logical[s][Retained(s)] = Pages(numCached[s])
      /\ numPhysical[s] % BlockSize = numCached[s] % BlockSize
      /\ NumBlocks(s) = Pages(numCached[s] + 1)
      /\ ~compressed[s] => Retained(s) = Pages(numCached[s])
  BY <1>1, DecodeReadyPages
<1>4. /\ Pages(numCached[s] + 1) = Pages(numCached[s])
      /\ Pages(numPhysical[s] + 1) = Pages(numPhysical[s])
  BY <1>3, PageStep DEF NeedsPage
<1>5. numScheduled'[s] = 1
  BY <1>1, <1>2 DEF TypeOK
<1>6. Ascending(s)'
  BY <1>1, <1>2 DEF TableAt, Ascending, Retained
<1>7. CASE compressed[s]
  <2>1. Thinned(s)'
    BY <1>1, <1>2, <1>3, <1>4, <1>5 DEF Thinned, Retained, NewestMissing
  <2>2. TableAt(s)'
    BY <1>2, <1>3, <1>5, <1>6, <1>7, <2>1 DEF TableAt
  <2> QED
    BY <1>2, <2>2, ScheduleKeeps
<1>8. CASE ~compressed[s]
  <2>1. Whole(s)'
    BY <1>1, <1>2, <1>3, <1>4, <1>8 DEF TableAt, Whole, Retained, NumBlocks
  <2>2. TableAt(s)'
    BY <1>2, <1>3, <1>5, <1>6, <1>8, <2>1 DEF TableAt
  <2> QED
    BY <1>2, <2>2, ScheduleKeeps
<1> QED
  BY <1>7, <1>8

LEMMA DecodeNewPage ==
    ASSUME IndInv, NEW s \in Seqs, MayAppend(s), NeedsPage(s)
    PROVE  IndInv'
<1> DEFINE R == Retained(s)
<1>1. TypeOK /\ TableInv /\ TableAt(s) /\ Idle(s) /\ DecodeReady(s) /\ NewestMissing(s) /\ SeqTyped
  BY SeqTypes DEF IndInv, TableInv, MayAppend, DecodeReady
<1>2. /\ logical' = [logical EXCEPT ![s] = Append(@, NumBlocks(s))]
      /\ numScheduled' = [numScheduled EXCEPT ![s] = 1]
      /\ UNCHANGED <<tokens, numCached, numPhysical, compressed>>
  BY DEF MayAppend, MayAppendOp
<1>3. PICK fresh \in FreshPages(1, freeBlocks) : TakePages(s, <<>>, fresh)
  BY DEF MayAppend, MayAppendOp
<1>4. Range(<<>>) = {} /\ IsInjective(<<>>) /\ <<>> \in Seq(Blocks) /\ Len(<<>>) = 0
  BY EmptySeq DEF Range, IsInjective
<1>5. Takes(s, <<>>, 1, fresh)
  <2>1. freeBlocks \ Range(<<>>) = freeBlocks
    BY <1>4
  <2>2. Offered(s, <<>>, R)
    BY <1>4 DEF Offered
  <2>3. Range(<<>>) \cap Range(blockTable[s]) = {}
    BY <1>4
  <2> QED
    BY <1>3, <2>1, <2>2, <2>3 DEF Takes
<1>6. TableTaken(s, <<>>, 1, fresh)
  BY <1>5, TakeEffect
<1>7. /\ numCached[s] \in Nat /\ numPhysical[s] \in Nat
      /\ Len(tokens[s]) = numCached[s] + 1
      /\ R \in Nat /\ R >= 1
      /\ R = Pages(numPhysical[s])
      /\ logical[s][R] = Pages(numCached[s])
      /\ numPhysical[s] % BlockSize = numCached[s] % BlockSize
      /\ NumBlocks(s) = Pages(numCached[s] + 1)
      /\ ~compressed[s] => R = Pages(numCached[s])
  BY <1>1, DecodeReadyPages
<1>8. /\ Pages(numCached[s] + 1) = Pages(numCached[s]) + 1
      /\ numCached[s] = Pages(numCached[s]) * BlockSize
      /\ Pages(numPhysical[s] + 1) = Pages(numPhysical[s]) + 1
      /\ Pages(numCached[s]) \in Nat
  BY <1>7, PageStep, PagesBounds DEF NeedsPage
<1>9. /\ numScheduled'[s] = 1 /\ logical'[s] = Append(logical[s], NumBlocks(s))
  BY <1>1, <1>2 DEF TypeOK
<1>10. /\ logical'[s] \in Seq(Nat) /\ Len(logical'[s]) = R + 1
       /\ \A i \in 1..R : logical'[s][i] = logical[s][i]
       /\ logical'[s][R + 1] = Pages(numCached[s]) + 1
  <2>1. logical[s] \in Seq(Nat) /\ Len(logical[s]) = R /\ NumBlocks(s) \in Nat
    BY <1>1, <1>7, <1>8, SMTT(30) DEF TypeOK, TableAt, Ascending
  <2> QED
    BY <1>7, <1>8, <1>9, <2>1, AppendProperties
<1>11. Len(blockTable'[s]) = R + 1
  BY <1>4, <1>6, <1>7 DEF TableTaken
<1>12. SeqTyped'
  BY <1>1, <1>2, <1>9, <1>10 DEF SeqTyped
<1> HIDE DEF R
<1>13. Ascending(s)'
  <2>1. /\ \A i \in 1..R : logical[s][i] >= 1 /\ logical[s][i] \in Nat
        /\ \A i, j \in 1..R : i < j => logical[s][i] < logical[s][j]
    BY <1>1, TableAtUse DEF TableAt, Ascending, R
  <2>2. \A i \in 1..R : logical[s][i] <= Pages(numCached[s])
    BY <1>7, <1>8, <2>1
  <2>3. Retained(s)' = R + 1
    BY <1>11 DEF Retained
  <2>4. ASSUME NEW i \in 1..(R + 1) PROVE logical'[s][i] >= 1
    <3>1. CASE i \in 1..R
      BY <1>10, <2>1, <3>1
    <3>2. CASE i = R + 1
      BY <1>8, <1>10, <3>2
    <3> QED
      BY <1>7, <3>1, <3>2
  <2>5. ASSUME NEW i \in 1..(R + 1), NEW j \in 1..(R + 1), i < j
        PROVE  logical'[s][i] < logical'[s][j]
    <3>1. i \in 1..R
      BY <1>7, <2>5
    <3>2. CASE j \in 1..R
      BY <1>10, <2>1, <2>5, <3>1, <3>2
    <3>3. CASE j = R + 1
      <4>1. logical'[s][i] <= Pages(numCached[s]) /\ logical'[s][i] \in Nat
        BY <1>10, <2>1, <2>2, <3>1
      <4> QED
        BY <1>8, <1>10, <3>3, <4>1
    <3> QED
      BY <1>7, <3>2, <3>3
  <2> QED
    BY <1>10, <2>3, <2>4, <2>5 DEF Ascending
<1>14. TableAt(s)'
  <2>1. CASE compressed[s]
    <3>1. Thinned(s)'
      BY <1>1, <1>2, <1>7, <1>8, <1>9, <1>10, <1>11, SMTT(30) DEF Thinned, Retained, NewestMissing
    <3> QED
      BY <1>2, <1>7, <1>9, <1>13, <2>1, <3>1 DEF TableAt
  <2>2. CASE ~compressed[s]
    <3>1. /\ Retained(s)' = R + 1 /\ NumBlocks(s)' = R + 1
      BY <1>2, <1>7, <1>8, <1>11, <2>2 DEF Retained, NumBlocks
    <3>2. \A i \in 1..R : logical[s][i] = i
      BY <1>1, <2>2, TableAtUse DEF R
    <3>3. \A i \in 1..(R + 1) : logical'[s][i] = i
      <4> SUFFICES ASSUME NEW i \in 1..(R + 1) PROVE logical'[s][i] = i
        OBVIOUS
      <4>1. CASE i \in 1..R
        BY <1>10, <3>2, <4>1
      <4>2. CASE i = R + 1
        BY <1>7, <1>10, <2>2, <4>2
      <4> QED
        BY <1>7, <4>1, <4>2
    <3>4. numCached[s] <= (R + 1) * BlockSize /\ numPhysical[s] = numCached[s]
      BY <1>1, <1>7, <1>8, <2>2, BlockSizeAssumption DEF TableAt, Whole
    <3>5. Whole(s)'
      <4>1. R + 1 <= R + 1
        BY <1>7
      <4>2. numPhysical'[s] = numCached'[s] /\ numCached'[s] <= (R + 1) * BlockSize
        BY <1>2, <3>4
      <4> QED
        BY <3>1, <3>3, <4>1, <4>2 DEF Whole
    <3> QED
      BY <1>2, <1>7, <1>9, <1>13, <2>2, <3>5 DEF TableAt
  <2> QED
    BY <2>1, <2>2
<1>15. Extends(s, <<>>, 1)
  <2>1. /\ tokens'[s] = tokens[s] /\ compressed'[s] = compressed[s]
        /\ numCached'[s] \in Nat /\ numCached'[s] >= numCached[s]
        /\ numCached'[s] = numCached[s]
    BY <1>2, <1>7
  <2>2. \A i \in 1..R : OldPage(s, i)
    BY <1>10, <2>1 DEF OldPage
  <2>3. BlankPage(s, R + 1)
    <3>1. (Pages(numCached[s]) + 1) - 1 = Pages(numCached[s])
      BY <1>8
    <3>2. logical'[s][R + 1] - 1 = Pages(numCached[s])
      BY <1>10, <3>1
    <3>3. (logical'[s][R + 1] - 1) * BlockSize >= numCached'[s]
      BY <1>7, <1>8, <2>1, <3>2
    <3> QED
      BY <1>7, <1>8, <1>10, <3>3, SMTT(30) DEF BlankPage
  <2>4. \A i \in 1..1 : R + Len(<<>>) + i = R + 1
    BY <1>4, <1>7
  <2>5. 1..Len(<<>>) = {}
    BY <1>4
  <2> QED
    BY <2>1, <2>2, <2>3, <2>4, <2>5 DEF Extends, R
<1>16. \A q \in Seqs \ {s} : Untouched(q)
  BY <1>1, <1>2, <1>6 DEF Untouched, TableTaken, TypeOK
<1> QED
  BY <1>5, <1>12, <1>14, <1>15, <1>16, TakeKeeps

LEMMA MayAppendStep ==
    ASSUME IndInv, NEW s \in Seqs, MayAppend(s)
    PROVE  IndInv'
  BY DecodeNewPage, DecodeWithinPage

---------------------------------------------------------------------------
(* Dropping pages *)

\* s stops mapping the pages B and keeps the others.
Shrinks(s, B) ==
    /\ B \subseteq Range(blockTable[s])
    /\ blockTable' \in [Seqs -> Seq(Blocks)]
    /\ \A q \in Seqs \ {s} : blockTable'[q] = blockTable[q]
    /\ IsInjective(blockTable'[s])
    /\ Range(blockTable'[s]) = Range(blockTable[s]) \ B

LEMMA DropPool ==
    ASSUME TypeOK, PoolConsistent, NEW s \in Seqs, NEW B, Shrinks(s, B), DropPages(B)
    PROVE  /\ PoolConsistent' /\ PoolTyped'
           /\ \A b : HeldBy(blockTable', b) = IF b \in B THEN HeldBy(blockTable, b) \ {s}
                                                         ELSE HeldBy(blockTable, b)
<1> DEFINE gone == {b \in B : refCount[b] = 1}
<1>1. /\ refCount' = [b \in Blocks |-> IF b \in B THEN refCount[b] - 1 ELSE refCount[b]]
      /\ freeBlocks' = freeBlocks \cup gone
      /\ usedBlocks' = usedBlocks \ gone
  BY DEF DropPages
<1>2. B \subseteq Blocks /\ \A b \in B : s \in HeldBy(blockTable, b)
  BY RangeOfSeq DEF Shrinks, TypeOK, HeldBy
<1>3. ASSUME NEW b
      PROVE  HeldBy(blockTable', b) = IF b \in B THEN HeldBy(blockTable, b) \ {s}
                                                 ELSE HeldBy(blockTable, b)
  BY DEF HeldBy, Shrinks
<1>4. ASSUME NEW b \in Blocks
      PROVE  refCount'[b] = Cardinality(HeldBy(blockTable', b)) /\ refCount'[b] \in Nat
             /\ (b \in freeBlocks' <=> refCount'[b] = 0)
             /\ (b \in freeBlocks' <=> b \notin usedBlocks')
  <2>1. /\ b \in freeBlocks <=> HeldBy(blockTable, b) = {}
        /\ b \in usedBlocks <=> b \notin freeBlocks
        /\ b \in freeBlocks => refCount[b] = 0
        /\ refCount[b] = Cardinality(HeldBy(blockTable, b)) /\ refCount[b] \in Nat
    BY FreeIsUnheld
  <2>2. refCount[b] = 0 <=> b \in freeBlocks
    BY DEF PoolConsistent
  <2>3. CASE b \in B
    <3>1. s \in HeldBy(blockTable, b) /\ HeldBy(blockTable', b) = HeldBy(blockTable, b) \ {s}
      BY <1>2, <1>3, <2>3
    <3>2. IsFiniteSet(HeldBy(blockTable, b))
      BY HoldersFinite
    <3>3. Cardinality(HeldBy(blockTable, b) \ {s})
            = IF s \in HeldBy(blockTable, b) THEN Cardinality(HeldBy(blockTable, b)) - 1
                                             ELSE Cardinality(HeldBy(blockTable, b))
      BY <3>2, FS_RemoveElement, Zenon
    <3>4. refCount'[b] = refCount[b] - 1 /\ refCount[b] >= 1
      BY <1>1, <2>1, <2>2, <2>3, <3>1
    <3>5. b \in gone <=> refCount[b] = 1
      BY <2>3
    <3> QED
      BY <1>1, <2>1, <2>2, <3>1, <3>3, <3>4, <3>5
  <2>4. CASE b \notin B
    BY <1>1, <1>3, <2>1, <2>2, <2>4
  <2> QED
    BY <2>3, <2>4
<1>5. freeBlocks' \subseteq Blocks /\ usedBlocks' \subseteq Blocks
  BY <1>1, <1>2 DEF TypeOK
<1>6. refCount' \in [Blocks -> Nat]
  BY <1>1, <1>4
<1>7. \A q \in Seqs : IsInjective(blockTable'[q])
  BY DEF Shrinks, PoolConsistent
<1>8. \A b \in Blocks : Holders(b)' = HeldBy(blockTable', b)
  BY DEF Holders, HeldBy
<1>9. PoolConsistent'
  <2>1. freeBlocks' \cap usedBlocks' = {} /\ freeBlocks' \cup usedBlocks' = Blocks
    BY <1>4, <1>5
  <2> QED
    BY <1>4, <1>7, <1>8, <2>1 DEF PoolConsistent
<1> QED
  BY <1>3, <1>5, <1>6, <1>9 DEF PoolTyped

\* The k-th page of s was its i-th.
Kept(s, k, i) ==
    /\ blockTable'[s][k] = blockTable[s][i]
    /\ logical'[s][k] = logical[s][i]
    /\ logical'[s][k] * BlockSize > numCached'[s] => Open(s, i)
    /\ ~compressed'[s] => ~compressed[s] /\ i = k

LEMMA DropKeeps ==
    ASSUME IndInv, NEW s \in Seqs, NEW B, Shrinks(s, B), DropPages(B), SeqTyped',
           tokens'[s] = tokens[s], numCached'[s] <= numCached[s],
           \A k \in 1..Len(blockTable'[s]) : \E i \in 1..Retained(s) : Kept(s, k, i),
           TableAt(s)', \A q \in Seqs \ {s} : Untouched(q)
    PROVE  IndInv'
<1>1. /\ TypeOK /\ PoolConsistent /\ TableInv /\ IndexHashed /\ IndexedPageIntact
      /\ \A q \in Seqs : PrivateAt(q) /\ HashedAt(q) /\ IntactAt(q)
  BY IntactSplit DEF IndInv, OpenPagesPrivate, HashesAgree
<1>2. UNCHANGED blockHash /\ UNCHANGED index /\ UNCHANGED kv
  BY DEF DropPages
<1>3. /\ PoolConsistent' /\ PoolTyped'
      /\ \A b : HeldBy(blockTable', b) = IF b \in B THEN HeldBy(blockTable, b) \ {s}
                                                    ELSE HeldBy(blockTable, b)
  BY <1>1, DropPool
<1>4. ASSUME NEW q \in Seqs \ {s}
      PROVE  TableAt(q)' /\ PrivateAt(q)' /\ HashedAt(q)' /\ IntactAt(q)'
  <2>1. TableAt(q)'
    BY <1>1, UntouchedTable DEF TableInv
  <2>2. ASSUME NEW b \in Range(blockTable[q]), HeldBy(blockTable, b) = {q}
        PROVE  HeldBy(blockTable', b) = {q}
    <3>1. s \notin HeldBy(blockTable, b)
      BY <2>2
    <3>2. b \notin B
      BY <3>1 DEF HeldBy, Shrinks
    <3> QED
      BY <1>3, <2>2, <3>2
  <2>3. PrivateAt(q)' /\ HashedAt(q)' /\ IntactAt(q)'
    BY <1>1, <1>2, <2>2, UntouchedPages
  <2> QED
    BY <2>1, <2>3
<1>5. Retained(s)' = Len(blockTable'[s]) /\ Len(blockTable'[s]) \in Nat
      /\ DOMAIN blockTable'[s] = 1..Len(blockTable'[s])
  BY LenProperties DEF Retained, Shrinks
<1>6. PrivateAt(s)'
  <2> SUFFICES ASSUME NEW k \in 1..Len(blockTable'[s]), logical'[s][k] * BlockSize > numCached'[s]
               PROVE  /\ HeldBy(blockTable', blockTable'[s][k]) = {s}
                      /\ blockTable'[s][k] \notin Range(index')
    BY <1>5 DEF PrivateAt, Open
  <2>1. PICK i \in 1..Retained(s) : Kept(s, k, i)
    OBVIOUS
  <2>2. Open(s, i) /\ blockTable'[s][k] = blockTable[s][i]
    BY <2>1 DEF Kept
  <2>3. HeldBy(blockTable, blockTable[s][i]) = {s} /\ blockTable[s][i] \notin Range(index)
    BY <1>1, <2>2 DEF PrivateAt
  <2>4. blockTable'[s][k] \notin B
    BY <1>5 DEF Shrinks, Range
  <2>5. HeldBy(blockTable', blockTable'[s][k]) = HeldBy(blockTable, blockTable'[s][k])
    BY <1>3, <2>4
  <2> QED
    BY <1>2, <2>2, <2>3, <2>5
<1>7. HashedAt(s)'
  <2> SUFFICES ASSUME Backend = "hash", ~compressed'[s], NEW k \in 1..Len(blockTable'[s]),
                      k * BlockSize <= numCached'[s]
               PROVE  blockHash[blockTable'[s][k]] = ChainKey(s, k)
    BY <1>2, <1>5 DEF HashedAt, ChainKey
  <2>1. PICK i \in 1..Retained(s) : Kept(s, k, i)
    OBVIOUS
  <2>2. k * BlockSize <= numCached[s]
    <3>1. numCached'[s] \in Nat /\ numCached[s] \in Nat
      BY <1>1, <1>5 DEF SeqTyped, TypeOK
    <3>2. k \in Nat
      OBVIOUS
    <3>3. k * BlockSize \in Nat
      BY <3>2, PageOrder
    <3> QED
      BY <3>1, <3>3
  <2> QED
    BY <1>1, <2>1, <2>2 DEF Kept, HashedAt
<1>8. IntactAt(s)'
  <2> SUFFICES ASSUME NEW k \in 1..Len(blockTable'[s]), NEW j \in 1..BlockSize,
                      (logical'[s][k] - 1) * BlockSize + j <= numCached'[s]
               PROVE  kv[blockTable'[s][k]][j]
                        = SubSeq(tokens[s], 1, (logical'[s][k] - 1) * BlockSize + j)
    BY <1>2, <1>5 DEF IntactAt
  <2>1. PICK i \in 1..Retained(s) : Kept(s, k, i)
    OBVIOUS
  <2>2. blockTable'[s][k] = blockTable[s][i] /\ logical'[s][k] = logical[s][i]
    BY <2>1 DEF Kept
  <2>3. PICK x \in Int : x = (logical[s][i] - 1) * BlockSize + j
    <3>1. logical[s][i] \in Nat
      BY <1>1, TableAtUse
    <3> QED
      BY <3>1, BlockSizeAssumption
  <2>4. x <= numCached[s]
    <3>1. x <= numCached'[s]
      BY <2>2, <2>3
    <3> QED
      BY <1>1, <3>1 DEF SeqTyped, TypeOK
  <2> QED
    BY <1>1, <2>2, <2>3, <2>4 DEF IntactAt
<1>9. IndexHashed' /\ IndexedPageIntact'
  BY <1>1, <1>2 DEF IndexHashed, IndexedPageIntact
<1>10. /\ blockTable' \in [Seqs -> Seq(Blocks)]
       /\ blockHash' \in [Blocks -> Seq(Token)] /\ kv' \in [Blocks -> Slots]
       /\ index' \in [DOMAIN index' -> Blocks] /\ DOMAIN index' \subseteq Seq(Token)
  BY <1>1, <1>2 DEF TypeOK, Shrinks
<1>11. \A q \in Seqs : TableAt(q)' /\ PrivateAt(q)' /\ HashedAt(q)' /\ IntactAt(q)'
  BY <1>4, <1>6, <1>7, <1>8
<1> QED
  BY <1>3, <1>9, <1>10, <1>11, Assemble

LEMMA ReleaseStep ==
    ASSUME IndInv, NEW s \in Seqs, ReleaseAll(s),
           numScheduled' \in [Seqs -> Nat], numScheduled'[s] = 0,
           \A q \in Seqs \ {s} : numScheduled'[q] = numScheduled[q]
    PROVE  IndInv'
<1>1. TypeOK /\ TableInv /\ SeqTyped
  BY SeqTypes DEF IndInv
<1>2. /\ DropPages(Range(blockTable[s]))
      /\ blockTable' = [blockTable EXCEPT ![s] = <<>>]
      /\ logical' = [logical EXCEPT ![s] = <<>>]
      /\ numCached' = [numCached EXCEPT ![s] = 0]
      /\ numPhysical' = [numPhysical EXCEPT ![s] = 0]
      /\ compressed' = [compressed EXCEPT ![s] = FALSE]
      /\ tokens' = tokens
  BY DEF ReleaseAll
<1>3. <<>> \in Seq(Blocks) /\ <<>> \in Seq(Nat) /\ Len(<<>>) = 0 /\ DOMAIN <<>> = {}
  BY EmptySeq
<1>4. /\ blockTable' \in [Seqs -> Seq(Blocks)] /\ blockTable'[s] = <<>> /\ logical'[s] = <<>>
      /\ numCached'[s] = 0 /\ numPhysical'[s] = 0 /\ ~compressed'[s]
      /\ \A q \in Seqs \ {s} : blockTable'[q] = blockTable[q]
  BY <1>1, <1>2, <1>3 DEF TypeOK
<1>5. Shrinks(s, Range(blockTable[s]))
  <2>1. Range(blockTable'[s]) = {} /\ IsInjective(blockTable'[s])
    BY <1>3, <1>4 DEF Range, IsInjective
  <2> QED
    BY <1>4, <2>1 DEF Shrinks
<1>6. SeqTyped'
  BY <1>1, <1>2, <1>3 DEF SeqTyped
<1>7. TableAt(s)'
  <2>1. Len(tokens[s]) \in Nat /\ Len(tokens[s]) > 0 /\ NumBlocks(s) \in Nat
    BY <1>1, TableSizes
  <2>2. Retained(s)' = 0 /\ NumBlocks(s)' = NumBlocks(s) /\ Len(logical'[s]) = 0
    BY <1>2, <1>3, <1>4 DEF Retained, NumBlocks
  <2>3. Ascending(s)'
    BY <2>2 DEF Ascending
  <2>4. Whole(s)'
    BY <1>4, <2>1, <2>2, BlockSizeAssumption DEF Whole
  <2> QED
    BY <1>2, <1>4, <2>1, <2>3, <2>4 DEF TableAt
<1>8. \A q \in Seqs \ {s} : Untouched(q)
  BY <1>1, <1>2, <1>4 DEF Untouched, TypeOK
<1>9. Len(blockTable'[s]) = 0 /\ numCached'[s] <= numCached[s] /\ tokens'[s] = tokens[s]
  BY <1>1, <1>2, <1>3, <1>4 DEF TypeOK
<1> QED
  BY <1>2, <1>5, <1>6, <1>7, <1>8, <1>9, DropKeeps

LEMMA DeallocateStep ==
    ASSUME IndInv, NEW s \in Seqs, Deallocate(s)
    PROVE  IndInv'
<1>1. ReleaseAll(s) /\ numScheduled' = numScheduled /\ numScheduled[s] = 0
  BY DEF Deallocate, DeallocateOp, Idle
<1>2. numScheduled \in [Seqs -> Nat]
  BY DEF IndInv, TypeOK
<1> QED
  BY <1>1, <1>2, ReleaseStep

LEMMA CancelStep ==
    ASSUME IndInv, NEW s \in Seqs, Cancel(s)
    PROVE  IndInv'
<1>1. ReleaseAll(s) /\ numScheduled' = [numScheduled EXCEPT ![s] = 0]
  BY DEF Cancel, CancelOp
<1>2. numScheduled \in [Seqs -> Nat]
  BY DEF IndInv, TypeOK
<1>3. /\ numScheduled' \in [Seqs -> Nat] /\ numScheduled'[s] = 0
      /\ \A q \in Seqs \ {s} : numScheduled'[q] = numScheduled[q]
  BY <1>1, <1>2
<1> QED
  BY <1>1, <1>3, ReleaseStep

LEMMA ReclaimStep ==
    ASSUME IndInv, NEW s \in Seqs, NEW keep \in 0..Retained(s), ReclaimSuffix(s, keep)
    PROVE  IndInv'
<1> DEFINE R == Retained(s)
           t == blockTable[s]
           B == {blockTable[s][i] : i \in (keep + 1)..R}
<1>1. TypeOK /\ TableInv /\ SeqTyped /\ PoolConsistent
  BY SeqTypes DEF IndInv
<1>2. /\ keep * BlockSize <= numCached[s] /\ numScheduled[s] = 0 /\ ~compressed[s]
      /\ DropPages(B)
      /\ blockTable' = [blockTable EXCEPT ![s] = SubSeq(@, 1, keep)]
      /\ logical' = [logical EXCEPT ![s] = SubSeq(@, 1, keep)]
      /\ numCached' = [numCached EXCEPT ![s] = keep * BlockSize]
      /\ numPhysical' = [numPhysical EXCEPT ![s] = keep * BlockSize]
      /\ tokens' = tokens /\ numScheduled' = numScheduled /\ compressed' = compressed
  BY DEF ReclaimSuffix, ReclaimSuffixOp, Idle
<1>3. /\ R \in Nat /\ t \in Seq(Blocks) /\ Len(t) = R /\ DOMAIN t = 1..R
      /\ \A i, j \in 1..R : t[i] = t[j] => i = j
      /\ \A i \in 1..R : t[i] \in Blocks
      /\ keep \in Nat /\ keep <= R /\ keep * BlockSize \in Nat
      /\ BlockSize \in Nat /\ BlockSize >= 2
  <2>1. /\ R \in Nat /\ DOMAIN t = 1..R /\ \A i \in 1..R : t[i] \in Blocks
    BY <1>1, TableSizes
  <2>2. t \in Seq(Blocks) /\ Len(t) = R /\ IsInjective(t)
    BY <1>1 DEF TypeOK, PoolConsistent, Retained
  <2>3. \A i, j \in 1..R : t[i] = t[j] => i = j
    BY <2>1, <2>2 DEF IsInjective
  <2>4. BlockSize \in Nat /\ BlockSize >= 2 /\ keep \in Nat /\ keep <= R
    BY <2>1, BlockSizeAssumption
  <2> QED
    BY <2>1, <2>2, <2>3, <2>4
<1>4. /\ logical[s] \in Seq(Nat) /\ Len(logical[s]) = R
      /\ \A i \in 1..R : logical[s][i] = i
      /\ numCached[s] \in Nat /\ numCached[s] <= Len(tokens[s]) /\ R <= NumBlocks(s)
      /\ Len(tokens[s]) \in Nat /\ Len(tokens[s]) > 0 /\ NumBlocks(s) \in Nat
  <2>1. /\ Len(logical[s]) = R /\ \A i \in 1..R : logical[s][i] = i
        /\ numCached[s] \in Nat /\ R <= NumBlocks(s)
        /\ numCached[s] + numScheduled[s] <= Len(tokens[s])
    BY <1>1, <1>2, TableAtUse
  <2>2. Len(tokens[s]) \in Nat /\ Len(tokens[s]) > 0 /\ NumBlocks(s) \in Nat
    BY <1>1, TableSizes
  <2> QED
    BY <1>1, <1>2, <2>1, <2>2 DEF TypeOK
<1> HIDE DEF R, t
<1>5. /\ SubSeq(t, 1, keep) \in Seq(Blocks) /\ Len(SubSeq(t, 1, keep)) = keep
      /\ \A i \in 1..keep : SubSeq(t, 1, keep)[i] = t[i]
      /\ DOMAIN SubSeq(t, 1, keep) = 1..keep
  <2>1. \A i \in 1..keep : t[i] \in Blocks
    BY <1>3
  <2> QED
    BY <1>3, <2>1, SubSeqProperties, LenProperties
<1>6. /\ SubSeq(logical[s], 1, keep) \in Seq(Nat) /\ Len(SubSeq(logical[s], 1, keep)) = keep
      /\ \A i \in 1..keep : SubSeq(logical[s], 1, keep)[i] = i
  <2>1. \A i \in 1..keep : logical[s][i] \in Nat /\ logical[s][i] = i
    BY <1>3, <1>4
  <2>2. /\ SubSeq(logical[s], 1, keep) \in Seq(Nat) /\ Len(SubSeq(logical[s], 1, keep)) = keep
        /\ \A i \in 1..keep : SubSeq(logical[s], 1, keep)[i] = logical[s][i]
    BY <1>3, <1>4, <2>1, SubSeqProperties
  <2> QED
    BY <2>1, <2>2
<1>7. /\ blockTable' \in [Seqs -> Seq(Blocks)] /\ blockTable'[s] = SubSeq(t, 1, keep)
      /\ \A q \in Seqs \ {s} : blockTable'[q] = blockTable[q]
      /\ logical'[s] = SubSeq(logical[s], 1, keep)
      /\ numCached'[s] = keep * BlockSize /\ numPhysical'[s] = keep * BlockSize
      /\ numScheduled'[s] = 0 /\ ~compressed'[s]
  BY <1>1, <1>2, <1>5 DEF TypeOK, t
<1>8. Shrinks(s, B)
  <2>1. IsInjective(blockTable'[s])
    BY <1>3, <1>5, <1>7 DEF IsInjective
  <2>2. Range(t) = {t[i] : i \in 1..R} /\ B = {t[i] : i \in (keep + 1)..R}
    BY <1>3 DEF Range, t
  <2>3. Range(blockTable'[s]) = {t[i] : i \in 1..keep}
    BY <1>5, <1>7 DEF Range
  <2>4. B \subseteq Range(t)
    <3>1. (keep + 1)..R \subseteq 1..R
      BY <1>3
    <3> QED
      BY <2>2, <3>1
  <2>5. Range(blockTable'[s]) = Range(t) \ B
    <3>1. \A i \in 1..R : i \in 1..keep \/ i \in (keep + 1)..R
      BY <1>3
    <3>2. \A i \in 1..keep : i \in 1..R
      BY <1>3
    <3>3. \A i \in 1..keep, j \in (keep + 1)..R : t[i] # t[j]
      BY <1>3
    <3> QED
      BY <2>2, <2>3, <3>1, <3>2, <3>3
  <2> QED
    BY <1>7, <2>1, <2>4, <2>5 DEF Shrinks, t
<1>9. SeqTyped'
  BY <1>1, <1>2, <1>3, <1>6 DEF SeqTyped
<1>10. TableAt(s)'
  <2>1. Retained(s)' = keep /\ NumBlocks(s)' = NumBlocks(s)
    BY <1>2, <1>5, <1>7 DEF Retained, NumBlocks
  <2>2. Ascending(s)'
    BY <1>3, <1>6, <1>7, <2>1, SMTT(30) DEF Ascending
  <2>3. Whole(s)'
    <3>1. keep <= NumBlocks(s)
      BY <1>3, <1>4
    <3>2. keep * BlockSize <= keep * BlockSize
      BY <1>3
    <3> QED
      BY <1>6, <1>7, <2>1, <3>1, <3>2 DEF Whole
  <2>4. numCached'[s] + numScheduled'[s] <= Len(tokens[s])
    BY <1>2, <1>3, <1>4, <1>7
  <2> QED
    BY <1>2, <1>4, <1>7, <2>2, <2>3, <2>4 DEF TableAt
<1>11. ASSUME NEW k \in 1..Len(blockTable'[s]) PROVE \E i \in 1..Retained(s) : Kept(s, k, i)
  <2>1. k \in 1..keep /\ k \in 1..R
    BY <1>3, <1>5, <1>7
  <2>2. blockTable'[s][k] = blockTable[s][k] /\ logical'[s][k] = k /\ logical[s][k] = k
    BY <1>4, <1>5, <1>6, <1>7, <2>1 DEF t
  <2>3. k * BlockSize <= keep * BlockSize /\ k * BlockSize \in Nat
    BY <1>3, <2>1, PageOrder
  <2>4. ~(logical'[s][k] * BlockSize > numCached'[s])
    <3>1. PICK x \in Nat, y \in Nat : x = k * BlockSize /\ y = keep * BlockSize
      BY <1>3, <2>3
    <3>2. logical'[s][k] * BlockSize = x /\ numCached'[s] = y /\ x <= y
      BY <1>7, <2>2, <2>3, <3>1
    <3> QED
      BY <3>1, <3>2
  <2>5. Kept(s, k, k)
    BY <1>2, <2>2, <2>4 DEF Kept
  <2> QED
    BY <2>1, <2>5 DEF R
<1>12. \A q \in Seqs \ {s} : Untouched(q)
  BY <1>1, <1>2, <1>7 DEF Untouched, TypeOK
<1>13. numCached'[s] <= numCached[s] /\ tokens'[s] = tokens[s]
  BY <1>2, <1>7
<1> HIDE DEF B
<1> QED
  BY <1>2, <1>8, <1>9, <1>10, <1>11, <1>12, <1>13, DropKeeps

\* An ascending list of m of the positions 1..n leaves n - m out.
LEMMA DroppedCount ==
    ASSUME NEW n \in Nat, NEW m \in 1..(n - 1), NEW keep \in [1..m -> 1..n],
           \A i, j \in 1..m : i < j => keep[i] < keep[j]
    PROVE  /\ IsInjective(keep) /\ Range(keep) \subseteq 1..n
           /\ Cardinality((1..n) \ Range(keep)) = n - m
<1>1. \A i \in 1..m : keep[i] \in Int
  OBVIOUS
<1>2. IsInjective(keep)
  <2> SUFFICES ASSUME NEW i \in 1..m, NEW j \in 1..m, keep[i] = keep[j] PROVE i = j
    BY DEF IsInjective
  <2>1. ~(i < j) /\ ~(j < i)
    BY <1>1
  <2> QED
    BY <2>1
<1>3. Range(keep) \subseteq 1..n
  BY DEF Range
<1>4. keep \in Bijection(1..m, Range(keep))
  BY <1>2 DEF Bijection, Injection, Surjection, Range
<1>5. m \in Nat /\ ExistsBijection(1..m, Range(keep))
  BY <1>4 DEF ExistsBijection
<1>6. Cardinality(Range(keep)) = m
  BY <1>5, FS_CountingElements
<1>7. IsFiniteSet(1..n) /\ Cardinality(1..n) = n
  BY FS_Interval
<1>8. Cardinality((1..n) \ Range(keep)) = Cardinality(1..n) - Cardinality((1..n) \cap Range(keep))
  BY <1>7, FS_Difference
<1>9. (1..n) \cap Range(keep) = Range(keep)
  BY <1>3
<1> QED
  BY <1>2, <1>3, <1>6, <1>7, <1>8, <1>9

\* Whole pages less: the page count drops with them, the fill of the last stays.
LEMMA FewerPages ==
    ASSUME NEW n \in Nat, NEW m \in Nat, m >= 1, m <= Pages(n), Pages(n) >= 1
    PROVE  LET lost == (Pages(n) - m) * BlockSize
               left == n - (IF lost < n THEN lost ELSE n)
           IN  left \in Nat /\ Pages(left) = m /\ left % BlockSize = n % BlockSize
<1>1. PICK P \in Nat : P = Pages(n)
  BY PagesBounds
<1>2. BlockSize \in Nat /\ BlockSize >= 2
  BY BlockSizeAssumption
<1>3. n <= P * BlockSize /\ n > 0 /\ (P - 1) * BlockSize < n
  <2>1. n # 0
    <3>1. (0 - 1) * BlockSize < 0 /\ 0 <= 0 * BlockSize
      BY <1>2
    <3>2. Pages(0) = 0
      BY <3>1, PagesUnique
    <3> QED
      BY <1>1, <3>2
  <2> QED
    BY <1>1, <2>1, PagesBounds
<1>4. PICK d \in Nat : d = P - m
  BY <1>1
<1>5. d * BlockSize \in Nat /\ d * BlockSize <= (P - 1) * BlockSize
  BY <1>1, <1>2, <1>4, PageOrder
<1>6. d * BlockSize < n
  BY <1>1, <1>2, <1>3, <1>5
<1>7. PICK left \in Nat : left = n - d * BlockSize
  BY <1>5, <1>6
<1>8. (m - 1) * BlockSize < left /\ left <= m * BlockSize
  <2>1. /\ (P - 1) * BlockSize = (m - 1) * BlockSize + d * BlockSize
        /\ P * BlockSize = m * BlockSize + d * BlockSize
    BY <1>1, <1>2, <1>4
  <2> QED
    BY <1>1, <1>2, <1>3, <1>5, <1>7, <2>1
<1>9. Pages(left) = m
  BY <1>8, PagesUnique
<1>10. left % BlockSize = n % BlockSize
  <2>1. PICK e \in Nat, r \in 0..(BlockSize - 1) : left = e * BlockSize + r
    BY DivPage
  <2>2. n = (e + d) * BlockSize + r /\ e + d \in Nat
    BY <1>2, <1>4, <1>5, <1>7, <2>1
  <2> QED
    BY <2>1, <2>2, ModPage
<1> QED
  BY <1>1, <1>4, <1>6, <1>7, <1>9, <1>10

LEMMA CompressStep ==
    ASSUME IndInv, NEW s \in Seqs, NEW keep \in KeepLists(Retained(s)), Compress(s, keep)
    PROVE  IndInv'
<1> DEFINE R == Retained(s)
           t == blockTable[s]
           D == (1..R) \ Range(keep)
           B == {blockTable[s][i] : i \in D}
           lost == Cardinality(D) * BlockSize
<1>1. TypeOK /\ TableInv /\ SeqTyped /\ PoolConsistent /\ Idle(s) /\ DecodeReady(s)
  BY SeqTypes DEF IndInv, Compress
<1>2. /\ numScheduled[s] = 0 /\ NewestMissing(s) /\ keep[Len(keep)] = R
      /\ DropPages(B)
      /\ blockTable' = [blockTable EXCEPT ![s] = [k \in DOMAIN keep |-> t[keep[k]]]]
      /\ logical' = [logical EXCEPT ![s] = [k \in DOMAIN keep |-> logical[s][keep[k]]]]
      /\ numPhysical' = [numPhysical EXCEPT ![s] = @ - (IF lost < @ THEN lost ELSE @)]
      /\ compressed' = [compressed EXCEPT ![s] = TRUE]
      /\ tokens' = tokens /\ numCached' = numCached /\ numScheduled' = numScheduled
  BY DEF Compress, CompressOp, Idle, DecodeReady
<1>3. /\ R \in Nat /\ t \in Seq(Blocks) /\ DOMAIN t = 1..R
      /\ \A i, j \in 1..R : t[i] = t[j] => i = j
      /\ \A i \in 1..R : t[i] \in Blocks
  <2>1. /\ R \in Nat /\ DOMAIN t = 1..R /\ \A i \in 1..R : t[i] \in Blocks
    BY <1>1, TableSizes
  <2>2. t \in Seq(Blocks) /\ IsInjective(t)
    BY <1>1 DEF TypeOK, PoolConsistent
  <2> QED
    BY <2>1, <2>2 DEF IsInjective
<1>4. PICK m \in 1..(R - 1) : keep \in [1..m -> 1..R] /\ DOMAIN keep = 1..m
        /\ \A i, j \in 1..m : i < j => keep[i] < keep[j]
  BY DEF KeepLists
<1>5. /\ m \in Nat /\ m >= 1 /\ m <= R /\ Len(keep) = m
      /\ \A k \in 1..m : keep[k] \in 1..R
      /\ IsInjective(keep) /\ Range(keep) \subseteq 1..R /\ Cardinality(D) = R - m
  <2>1. m \in Nat /\ m >= 1 /\ m <= R
    BY <1>3
  <2>2. IsInjective(keep) /\ Range(keep) \subseteq 1..R /\ Cardinality(D) = R - m
    BY <1>3, <1>4, DroppedCount
  <2> QED
    BY <1>4, <2>1, <2>2, FunctionIsSeq
<1>6. /\ numCached[s] \in Nat /\ numPhysical[s] \in Nat /\ Len(tokens[s]) = numCached[s] + 1
      /\ R >= 1 /\ R = Pages(numPhysical[s])
      /\ logical[s][R] = Pages(numCached[s])
      /\ numPhysical[s] % BlockSize = numCached[s] % BlockSize
  BY <1>1, DecodeReadyPages
<1>7. /\ \A i \in 1..R : logical[s][i] \in Nat /\ logical[s][i] >= 1
      /\ \A i, j \in 1..R : i < j => logical[s][i] < logical[s][j]
  BY <1>1, TableAtUse DEF TableInv, TableAt, Ascending
<1> DEFINE left == numPhysical[s] - (IF lost < numPhysical[s] THEN lost ELSE numPhysical[s])
<1>8. left \in Nat /\ Pages(left) = m /\ left % BlockSize = numPhysical[s] % BlockSize
  <2>1. lost = (Pages(numPhysical[s]) - m) * BlockSize
    BY <1>5, <1>6
  <2> HIDE DEF lost
  <2> QED
    BY <1>5, <1>6, <2>1, FewerPages
<1> HIDE DEF R, t, D, left
<1> DEFINE T == [k \in 1..m |-> t[keep[k]]]
           G == [k \in 1..m |-> logical[s][keep[k]]]
<1>9. T \in [1..m -> Blocks] /\ G \in [1..m -> Nat]
  <2>1. \A k \in 1..m : t[keep[k]] \in Blocks /\ logical[s][keep[k]] \in Nat
    BY <1>3, <1>5, <1>7
  <2> QED
    BY <2>1
<1>10. T \in Seq(Blocks) /\ Len(T) = m /\ G \in Seq(Nat) /\ Len(G) = m
       /\ DOMAIN T = 1..m
  <2> HIDE DEF T, G
  <2>1. T \in Seq(Blocks) /\ Len(T) = m
    BY <1>5, <1>9, FunctionIsSeq
  <2>2. G \in Seq(Nat) /\ Len(G) = m
    BY <1>5, <1>9, FunctionIsSeq
  <2> QED
    BY <1>9, <2>1, <2>2
<1>11. \A k \in 1..m : T[k] = t[keep[k]] /\ G[k] = logical[s][keep[k]]
  OBVIOUS
<1>12. /\ blockTable' = [blockTable EXCEPT ![s] = T] /\ logical' = [logical EXCEPT ![s] = G]
       /\ numPhysical' = [numPhysical EXCEPT ![s] = left]
  BY <1>2, <1>4 DEF left
<1>12a. /\ compressed' = [compressed EXCEPT ![s] = TRUE] /\ numScheduled[s] = 0
        /\ tokens' = tokens /\ numCached' = numCached /\ numScheduled' = numScheduled
  BY <1>2
<1> HIDE DEF T, G
<1>13. /\ blockTable' \in [Seqs -> Seq(Blocks)] /\ blockTable'[s] = T
       /\ \A q \in Seqs \ {s} : blockTable'[q] = blockTable[q]
       /\ logical'[s] = G /\ numPhysical'[s] = left
       /\ numScheduled'[s] = 0 /\ compressed'[s] /\ numCached'[s] = numCached[s]
       /\ tokens'[s] = tokens[s]
  BY <1>1, <1>10, <1>12, <1>12a DEF TypeOK
<1>14. SeqTyped'
  BY <1>1, <1>8, <1>10, <1>12, <1>12a DEF SeqTyped
<1>15. Shrinks(s, B)
  <2>1. IsInjective(T)
    BY <1>3, <1>4, <1>5, <1>10, <1>11 DEF IsInjective
  <2>2. Range(t) = {t[i] : i \in 1..R} /\ B = {t[i] : i \in D}
    BY <1>3 DEF Range, t
  <2>3. Range(T) = {t[i] : i \in Range(keep)}
    BY <1>4, <1>10, <1>11, SMTT(30) DEF Range
  <2>4. B \subseteq Range(t)
    BY <2>2 DEF D
  <2>5. Range(T) = Range(t) \ B
    <3>1. \A i \in 1..R : i \in Range(keep) \/ i \in D
      BY DEF D
    <3>2. \A i \in Range(keep), j \in D : t[i] # t[j]
      BY <1>3, <1>5 DEF D
    <3> QED
      BY <1>5, <2>2, <2>3, <3>1, <3>2
  <2> QED
    BY <1>13, <2>1, <2>4, <2>5 DEF Shrinks, t
<1>16. TableAt(s)'
  <2>1. Retained(s)' = m /\ Len(logical'[s]) = m
    BY <1>10, <1>13 DEF Retained
  <2>2. Ascending(s)'
    <3>1. \A i \in 1..m : G[i] >= 1
      BY <1>5, <1>7, <1>11
    <3>2. \A i, j \in 1..m : i < j => G[i] < G[j]
      BY <1>4, <1>5, <1>7, <1>11
    <3> QED
      BY <1>13, <2>1, <3>1, <3>2 DEF Ascending
  <2>3. G[m] = Pages(numCached[s])
    BY <1>2, <1>5, <1>6, <1>11
  <2>4. Thinned(s)'
    <3>1. numCached[s] + 0 = numCached[s] /\ left + 0 = left
      BY <1>6, <1>8
    <3>2. NewestMissing(s)'
      BY <1>2, <1>13 DEF NewestMissing
    <3> QED
      BY <1>5, <1>6, <1>8, <1>13, <2>1, <2>3, <3>1, <3>2 DEF Thinned
  <2>5. numCached'[s] + numScheduled'[s] <= Len(tokens[s]) /\ Len(tokens'[s]) > 0
    BY <1>6, <1>13
  <2> QED
    BY <1>13, <2>2, <2>4, <2>5 DEF TableAt
<1>17. ASSUME NEW k \in 1..Len(blockTable'[s]) PROVE \E i \in 1..Retained(s) : Kept(s, k, i)
  <2>1. PICK i \in 1..R : i = keep[k] /\ k \in 1..m
    BY <1>5, <1>10, <1>13
  <2>2. blockTable'[s][k] = blockTable[s][i] /\ logical'[s][k] = logical[s][i]
    BY <1>11, <1>13, <2>1 DEF t
  <2>3. Kept(s, k, i)
    BY <1>13, <2>2 DEF Kept, Open
  <2> QED
    BY <2>1, <2>3 DEF R
<1>18. \A q \in Seqs \ {s} : Untouched(q)
  BY <1>1, <1>12, <1>12a, <1>13 DEF Untouched, TypeOK
<1>19. numCached'[s] <= numCached[s]
  BY <1>6, <1>13
<1> HIDE DEF B
<1> QED
  BY <1>2, <1>13, <1>14, <1>15, <1>16, <1>17, <1>18, <1>19, DropKeeps

---------------------------------------------------------------------------
(* Publishing pages *)

\* The index gains pages of s up to the hi-th, under their keys; the blocks of
\* its pages lo..hi, and no others, may get a new hash.
Published(s, lo, hi) ==
    /\ blockHash' \in [Blocks -> Seq(Token)]
    /\ index' \in [DOMAIN index' -> Blocks] /\ DOMAIN index' \subseteq Seq(Token)
    /\ \A key \in DOMAIN index' :
          \/ key \in DOMAIN index /\ index'[key] = index[key]
          \/ \E i \in 1..hi : key = ChainKey(s, i) /\ index'[key] = blockTable[s][i]
    /\ \A b \in Blocks :
          (\A i \in lo..hi : blockTable[s][i] # b) => blockHash'[b] = blockHash[b]
    /\ Backend = "hash" => \A i \in 1..hi : blockHash'[blockTable[s][i]] = ChainKey(s, i)

\* Only blocks of the pages lo..hi of s change their KV.
Written(s, lo, hi) ==
    /\ kv' \in [Blocks -> Slots]
    /\ \A b \in Blocks : (\A i \in lo..hi : blockTable[s][i] # b) => kv'[b] = kv[b]

\* Every token of s counted after the step has its KV.
IntactAfter(s) ==
    \A i \in 1..Retained(s), j \in 1..BlockSize :
        (logical[s][i] - 1) * BlockSize + j <= numCached'[s] =>
            kv'[blockTable[s][i]][j] = SubSeq(tokens[s], 1, (logical[s][i] - 1) * BlockSize + j)

\* s counts its pages up to the hi-th as complete; pages lo..hi were open.
Counts(s, lo, hi) ==
    /\ lo \in Nat /\ hi \in Nat /\ lo >= 1 /\ hi <= Retained(s)
    /\ hi > 0 => ~compressed[s]
    /\ \A i \in lo..hi : i * BlockSize > numCached[s]
    /\ numCached'[s] \in Nat /\ numCached'[s] >= numCached[s]
    /\ hi * BlockSize <= numCached'[s] /\ numCached'[s] <= Len(tokens[s])
    /\ ~compressed[s] => numCached'[s] < (hi + 1) * BlockSize
    /\ \A p \in 0..numCached'[s] : SubSeq(tokens'[s], 1, p) = SubSeq(tokens[s], 1, p)

LEMMA PublishKeeps ==
    ASSUME IndInv, NEW s \in Seqs, NEW lo, NEW hi,
           Counts(s, lo, hi), Published(s, lo, hi), Written(s, lo, hi), IntactAfter(s),
           UNCHANGED <<blockTable, logical, compressed, freeBlocks, usedBlocks, refCount>>,
           SeqTyped', TableAt(s)', \A q \in Seqs \ {s} : Untouched(q)
    PROVE  IndInv'
<1> DEFINE R == Retained(s)
           t == blockTable[s]
<1>1. /\ TypeOK /\ PoolConsistent /\ TableInv /\ IndexHashed /\ IndexedPageIntact
      /\ \A q \in Seqs : PrivateAt(q) /\ HashedAt(q) /\ IntactAt(q)
  BY IntactSplit DEF IndInv, OpenPagesPrivate, HashesAgree
<1>2. /\ lo \in Nat /\ hi \in Nat /\ lo >= 1 /\ hi <= R /\ R \in Nat
      /\ BlockSize \in Nat /\ BlockSize >= 2
      /\ \A i \in 1..R : t[i] \in Blocks /\ t[i] \in Range(t)
      /\ \A i, j \in 1..R : t[i] = t[j] => i = j
      /\ \A i \in lo..hi : i \in 1..R
      /\ \A i \in 1..hi : i \in 1..R
  <2>1. lo \in Nat /\ hi \in Nat /\ lo >= 1 /\ hi <= R
    BY DEF Counts
  <2>2. R \in Nat /\ DOMAIN t = 1..R /\ \A i \in 1..R : t[i] \in Blocks
    BY <1>1, TableSizes
  <2>3. \A i, j \in 1..R : t[i] = t[j] => i = j
    BY <1>1, <2>2 DEF PoolConsistent, IsInjective
  <2> QED
    BY <2>1, <2>2, <2>3, BlockSizeAssumption DEF Range
<1>3. /\ numCached[s] \in Nat /\ numCached'[s] \in Nat /\ numCached'[s] >= numCached[s]
      /\ hi * BlockSize \in Nat /\ hi * BlockSize <= numCached'[s]
      /\ numCached'[s] <= Len(tokens[s]) /\ Len(tokens[s]) \in Nat /\ tokens[s] \in Seq(Token)
      /\ \A i \in 1..R : logical[s][i] \in Nat
  <2>1. numCached[s] \in Nat /\ Len(tokens[s]) \in Nat /\ tokens[s] \in Seq(Token)
    BY <1>1, TableSizes DEF TypeOK
  <2>2. \A i \in 1..R : logical[s][i] \in Nat
    BY <1>1, TableAtUse
  <2>3. /\ numCached'[s] \in Nat /\ numCached'[s] >= numCached[s]
        /\ hi * BlockSize <= numCached'[s] /\ numCached'[s] <= Len(tokens[s])
    BY DEF Counts
  <2> QED
    BY <1>2, <2>1, <2>2, <2>3
<1>4. ASSUME NEW i \in 1..hi
      PROVE  /\ i \in 1..R /\ logical[s][i] = i /\ ~compressed[s]
             /\ i * BlockSize \in Nat /\ i * BlockSize <= numCached'[s]
             /\ i * BlockSize <= Len(tokens[s])
  <2>1. ~compressed[s] /\ i \in 1..R
    BY <1>2 DEF Counts
  <2>2. logical[s][i] = i
    BY <1>1, <2>1, TableAtUse
  <2>3. i * BlockSize <= hi * BlockSize /\ i * BlockSize \in Nat
    BY <1>2, PageOrder
  <2> QED
    BY <1>3, <2>1, <2>2, <2>3
<1>5. ASSUME NEW i \in lo..hi
      PROVE  t[i] \in Blocks /\ HeldBy(blockTable, t[i]) = {s} /\ t[i] \notin Range(index)
  <2>1. i \in 1..hi /\ i \in 1..R
    BY <1>2
  <2>2. Open(s, i)
    BY <1>4, <2>1 DEF Open, Counts
  <2> QED
    BY <1>1, <1>2, <2>1, <2>2 DEF PrivateAt
<1> HIDE DEF R, t
<1>6. /\ UNCHANGED <<blockTable, logical, compressed>> /\ t = blockTable[s]
      /\ Retained(s)' = R /\ Retained(s) = R
      /\ freeBlocks' = freeBlocks /\ usedBlocks' = usedBlocks /\ refCount' = refCount
  BY DEF Retained, R, t
\* The blocks of other requests, and those the index offered, do not change.
<1>7. ASSUME NEW b \in Blocks, b \in Range(index) \/ \E q \in Seqs \ {s} : b \in Range(blockTable[q])
      PROVE  kv'[b] = kv[b] /\ blockHash'[b] = blockHash[b]
  <2>1. \A i \in lo..hi : blockTable[s][i] # b
    BY <1>5, <1>6, <1>7 DEF HeldBy
  <2> QED
    BY <2>1 DEF Published, Written
<1>8. ASSUME NEW b \in Range(index'), b \notin Range(index)
      PROVE  \E i \in 1..hi : b = t[i]
  <2>1. PICK key \in DOMAIN index' : b = index'[key]
    BY DEF Range
  <2>2. \/ key \in DOMAIN index /\ index'[key] = index[key]
        \/ \E i \in 1..hi : key = ChainKey(s, i) /\ index'[key] = blockTable[s][i]
    BY DEF Published
  <2> QED
    BY <1>6, <1>8, <2>1, <2>2 DEF Range
<1>9. ASSUME NEW q \in Seqs \ {s}
      PROVE  TableAt(q)' /\ PrivateAt(q)' /\ HashedAt(q)' /\ IntactAt(q)'
  <2>1. TableAt(q)'
    BY <1>1, UntouchedTable DEF TableInv
  <2>2. ASSUME NEW b \in Range(blockTable[q])
        PROVE  /\ kv'[b] = kv[b] /\ blockHash'[b] = blockHash[b]
               /\ HeldBy(blockTable, b) = {q} /\ b \notin Range(index) =>
                      HeldBy(blockTable', b) = {q} /\ b \notin Range(index')
    <3>1. b \in Blocks
      BY <1>1, RangeOfSeq DEF TypeOK
    <3>2. kv'[b] = kv[b] /\ blockHash'[b] = blockHash[b]
      BY <1>7, <3>1
    <3>3. ASSUME HeldBy(blockTable, b) = {q}, b \notin Range(index), b \in Range(index')
          PROVE  FALSE
      <4>1. PICK i \in 1..hi : b = t[i]
        BY <1>8, <3>3
      <4>2. s \in HeldBy(blockTable, b)
        BY <1>2, <1>6, <4>1 DEF HeldBy
      <4> QED
        BY <3>3, <4>2
    <3> QED
      BY <1>6, <3>2, <3>3
  <2>3. PrivateAt(q)' /\ HashedAt(q)' /\ IntactAt(q)'
    BY <1>1, <2>2, UntouchedPages
  <2> QED
    BY <2>1, <2>3
<1>10. PrivateAt(s)'
  <2> SUFFICES ASSUME NEW i \in 1..R, logical[s][i] * BlockSize > numCached'[s]
               PROVE  HeldBy(blockTable, t[i]) = {s} /\ t[i] \notin Range(index')
    BY <1>6 DEF PrivateAt, Open
  <2>1. Open(s, i)
    <3>1. logical[s][i] * BlockSize \in Nat
      BY <1>2, <1>3
    <3> QED
      BY <1>3, <3>1 DEF Open
  <2>2. HeldBy(blockTable, t[i]) = {s} /\ t[i] \notin Range(index)
    BY <1>1, <1>6, <2>1 DEF PrivateAt
  <2>3. ASSUME t[i] \in Range(index') PROVE FALSE
    <3>1. PICK k \in 1..hi : t[i] = t[k]
      BY <1>8, <2>2, <2>3
    <3>2. i = k
      BY <1>2, <3>1
    <3>3. logical[s][i] = i /\ i * BlockSize \in Nat /\ i * BlockSize <= numCached'[s]
      BY <1>4, <3>2
    <3>4. logical[s][i] * BlockSize = i * BlockSize
      BY <3>3
    <3> QED
      BY <1>3, <3>3, <3>4
  <2> QED
    BY <2>2, <2>3
<1>11. HashedAt(s)'
  <2> SUFFICES ASSUME Backend = "hash", ~compressed[s], NEW i \in 1..R,
                      i * BlockSize <= numCached'[s]
               PROVE  blockHash'[t[i]] = SubSeq(tokens'[s], 1, i * BlockSize)
    BY <1>6 DEF HashedAt, ChainKey
  <2>1. numCached'[s] < (hi + 1) * BlockSize /\ i \in Nat /\ i * BlockSize \in Nat
        /\ (hi + 1) * BlockSize \in Nat
    BY <1>2 DEF Counts
  <2>2. i \in 1..hi
    <3>1. i * BlockSize < (hi + 1) * BlockSize
      BY <1>3, <2>1
    <3>2. i < hi + 1
      BY <1>2, <2>1, <3>1, PageOrder
    <3> QED
      BY <1>2, <3>2
  <2>3. blockHash'[t[i]] = ChainKey(s, i)
    BY <1>6, <2>2 DEF Published
  <2>4. SubSeq(tokens'[s], 1, i * BlockSize) = SubSeq(tokens[s], 1, i * BlockSize)
    BY <1>3, <2>1 DEF Counts
  <2> QED
    BY <2>3, <2>4 DEF ChainKey
<1>12. IntactAt(s)'
  <2> SUFFICES ASSUME NEW i \in 1..R, NEW j \in 1..BlockSize,
                      (logical[s][i] - 1) * BlockSize + j <= numCached'[s]
               PROVE  kv'[t[i]][j] = SubSeq(tokens'[s], 1, (logical[s][i] - 1) * BlockSize + j)
    BY <1>6 DEF IntactAt
  <2>1. kv'[t[i]][j] = SubSeq(tokens[s], 1, (logical[s][i] - 1) * BlockSize + j)
    BY <1>6 DEF IntactAfter
  <2>2. logical[s][i] \in Nat /\ logical[s][i] >= 1
    BY <1>1, <1>6, TableAtUse
  <2>3. (logical[s][i] - 1) * BlockSize + j \in 0..numCached'[s]
    BY <1>3, <2>2, SlotUnique
  <2> QED
    BY <2>1, <2>3 DEF Counts
<1>13. ASSUME NEW i \in 1..hi, NEW j \in 1..BlockSize
       PROVE  /\ Len(ChainKey(s, i)) = i * BlockSize
              /\ kv'[t[i]][j] = SubSeq(ChainKey(s, i), 1, i * BlockSize - BlockSize + j)
  <2>1. /\ i \in 1..R /\ logical[s][i] = i /\ i * BlockSize \in Nat
        /\ i * BlockSize <= numCached'[s] /\ i * BlockSize <= Len(tokens[s])
    BY <1>4, <1>6
  <2>2. Len(ChainKey(s, i)) = i * BlockSize
    BY <1>1, <2>1, KeyType
  <2>3. /\ i * BlockSize - BlockSize + j = (i - 1) * BlockSize + j
        /\ (i - 1) * BlockSize + j \in 0..(i * BlockSize)
        /\ i * BlockSize \in 0..Len(tokens[s])
    <3>1. i \in Nat /\ i >= 1
      BY <1>2
    <3>2. i * BlockSize - BlockSize + j = (i - 1) * BlockSize + j
      BY <1>2, <3>1
    <3>3. /\ (i - 1) * BlockSize + j \in Nat /\ (i - 1) * BlockSize + j >= 1
          /\ (i - 1) * BlockSize + j <= i * BlockSize
      BY <3>1, SlotUnique
    <3>4. i * BlockSize \in 0..Len(tokens[s])
      BY <1>3, <2>1
    <3> QED
      BY <2>1, <3>2, <3>3, <3>4
  <2>4. (i - 1) * BlockSize + j <= numCached'[s]
    <3>1. PICK x \in Nat, y \in Nat : x = (i - 1) * BlockSize + j /\ y = i * BlockSize
      BY <2>1, <2>3
    <3>2. x <= y /\ y <= numCached'[s]
      BY <2>1, <2>3, <3>1
    <3> QED
      BY <1>3, <3>1, <3>2
  <2>5. kv'[t[i]][j] = SubSeq(tokens[s], 1, (i - 1) * BlockSize + j)
    BY <1>6, <2>1, <2>4 DEF IntactAfter
  <2>6. SubSeq(ChainKey(s, i), 1, (i - 1) * BlockSize + j)
          = SubSeq(tokens[s], 1, (i - 1) * BlockSize + j)
    BY <1>3, <2>3, PrefixOfPrefix DEF ChainKey
  <2> QED
    BY <2>2, <2>3, <2>5, <2>6
<1>14. ASSUME NEW key \in DOMAIN index'
       PROVE  /\ Backend = "hash" => blockHash'[index'[key]] = key
              /\ \A j \in 1..BlockSize :
                    kv'[index'[key]][j] = SubSeq(key, 1, Len(key) - BlockSize + j)
  <2>1. CASE key \in DOMAIN index /\ index'[key] = index[key]
    <3>1. index[key] \in Blocks /\ index[key] \in Range(index)
      BY <1>1, <2>1 DEF TypeOK, Range
    <3>2. kv'[index[key]] = kv[index[key]] /\ blockHash'[index[key]] = blockHash[index[key]]
      BY <1>7, <3>1
    <3> QED
      BY <1>1, <2>1, <3>2 DEF IndexHashed, IndexedPageIntact
  <2>2. CASE \E i \in 1..hi : key = ChainKey(s, i) /\ index'[key] = blockTable[s][i]
    <3>1. PICK i \in 1..hi : key = ChainKey(s, i) /\ index'[key] = t[i]
      BY <1>6, <2>2
    <3>2. Backend = "hash" => blockHash'[t[i]] = ChainKey(s, i)
      BY <1>6 DEF Published
    <3> QED
      BY <1>13, <3>1, <3>2
  <2> QED
    BY <2>1, <2>2 DEF Published
<1>15. IndexHashed' /\ IndexedPageIntact'
  BY <1>14 DEF IndexHashed, IndexedPageIntact
<1>16. PoolTyped' /\ PoolConsistent' /\ blockTable' \in [Seqs -> Seq(Blocks)]
  <2>1. PoolTyped' /\ blockTable' \in [Seqs -> Seq(Blocks)]
    BY <1>1, <1>6 DEF PoolTyped, TypeOK
  <2>2. \A b : Holders(b)' = Holders(b)
    BY <1>6 DEF Holders
  <2>3. PoolConsistent'
    BY <1>1, <1>6, <2>2 DEF PoolConsistent
  <2> QED
    BY <2>1, <2>3
<1>17. \A q \in Seqs : TableAt(q)' /\ PrivateAt(q)' /\ HashedAt(q)' /\ IntactAt(q)'
  BY <1>9, <1>10, <1>11, <1>12
<1> QED
  BY <1>15, <1>16, <1>17, Assemble DEF Published, Written

LEMMA KeyPage ==
    ASSUME TypeOK, NEW s \in Seqs, NEW i \in Nat, i * BlockSize <= Len(tokens[s])
    PROVE  /\ ChainKey(s, i) \in Seq(Token) /\ Len(ChainKey(s, i)) = i * BlockSize
           /\ Len(ChainKey(s, i)) \div BlockSize = i
  BY KeyType, MulDiv

\* commit_restored_prefix: the keys, hashes and KV of the pages up to the n-th.
LEMMA CommitPublishes ==
    ASSUME IndInv, NEW s \in Seqs, NEW n \in 1..CacheableBlocks(s), CommitRestoredPrefix(s, n)
    PROVE  LET lo == (numCached[s] \div BlockSize) + 1
           IN  /\ Counts(s, lo, n) /\ Published(s, lo, n) /\ Written(s, lo, n) /\ IntactAfter(s)
<1> DEFINE d == numCached[s] \div BlockSize
           lo == d + 1
           t == blockTable[s]
           R == Retained(s)
           keys == {ChainKey(s, i) : i \in 1..n}
           page(key) == blockTable[s][Len(key) \div BlockSize]
           added == [key \in keys |-> page(key)]
           fill(i) == [j \in 1..BlockSize |-> SubSeq(tokens[s], 1, (i - 1) * BlockSize + j)]
<1>1. /\ TypeOK /\ PoolConsistent /\ TableInv /\ HashedAt(s) /\ IntactAt(s)
  BY IntactSplit DEF IndInv, HashesAgree
<1>2. /\ d < n /\ R = NumBlocks(s) /\ ~compressed[s] /\ numCached[s] % BlockSize = 0
      /\ kv' = [b \in Blocks |->
              IF \E i \in lo..n : t[i] = b
              THEN LET i == CHOOSE i \in lo..n : t[i] = b IN fill(i)
              ELSE kv[b]]
      /\ IF Backend = "hash"
         THEN /\ index' = Overlay(added, index)
              /\ blockHash' = [b \in Blocks |->
                    IF \E key \in keys : page(key) = b
                    THEN CHOOSE key \in keys : page(key) = b
                    ELSE blockHash[b]]
         ELSE index' = Overlay(index, added) /\ blockHash' = blockHash
      /\ numCached' = [numCached EXCEPT ![s] = n * BlockSize]
      /\ tokens' = tokens
  BY DEF CommitRestoredPrefix, CommitRestoredPrefixOp
<1>3. /\ R \in Nat /\ n \in Nat /\ n >= 1 /\ n < R /\ BlockSize \in Nat /\ BlockSize >= 2
      /\ \A i \in 1..R : t[i] \in Blocks
      /\ \A i, j \in 1..R : t[i] = t[j] => i = j
      /\ numCached[s] \in Nat /\ d \in Nat /\ d * BlockSize = numCached[s]
      /\ Len(tokens[s]) \in Nat /\ tokens[s] \in Seq(Token)
  <2>1. /\ R \in Nat /\ DOMAIN t = 1..R /\ \A i \in 1..R : t[i] \in Blocks
        /\ NumBlocks(s) = CacheableBlocks(s) + 1 /\ CacheableBlocks(s) \in Nat
        /\ Len(tokens[s]) \in Nat
    BY <1>1, TableSizes
  <2>2. \A i, j \in 1..R : t[i] = t[j] => i = j
    BY <1>1, <2>1 DEF PoolConsistent, IsInjective
  <2>3. numCached[s] \in Nat /\ tokens[s] \in Seq(Token)
    BY <1>1 DEF TypeOK
  <2>4. d \in Nat /\ d * BlockSize = numCached[s]
    <3>1. d \in Nat /\ numCached[s] = d * BlockSize + (numCached[s] % BlockSize)
      BY <2>3, DivPage
    <3>2. d * BlockSize \in Nat
      BY <3>1, BlockSizeAssumption
    <3> QED
      BY <1>2, <3>1, <3>2
  <2> QED
    BY <1>2, <2>1, <2>2, <2>3, <2>4, BlockSizeAssumption
<1>4. ASSUME NEW i \in 1..n
      PROVE  /\ i * BlockSize \in Nat /\ i * BlockSize <= Len(tokens[s]) /\ i \in 1..R
             /\ ChainKey(s, i) \in Seq(Token)
             /\ ChainKey(s, i) \in keys /\ page(ChainKey(s, i)) = t[i]
  <2>1. i \in 0..CacheableBlocks(s) /\ i \in Nat /\ i \in 1..R
    BY <1>1, <1>3, TableSizes, SMTT(30)
  <2>2. i * BlockSize \in Nat /\ i * BlockSize < Len(tokens[s])
    BY <1>1, <2>1, CacheableKey
  <2>3. ChainKey(s, i) \in Seq(Token) /\ Len(ChainKey(s, i)) \div BlockSize = i
    BY <1>1, <1>3, <2>1, <2>2, KeyPage
  <2> QED
    BY <1>3, <2>1, <2>2, <2>3, SMTT(30)
<1>5. /\ d * BlockSize \in Nat /\ \A i \in lo..n : i \in 1..n
      /\ \A i \in 1..n : i \in lo..n \/ i \in 1..d
      /\ \A i \in 1..d : i \in 1..n /\ i \notin lo..n
  BY <1>2, <1>3
<1>6. /\ numCached'[s] = n * BlockSize /\ n * BlockSize \in Nat
      /\ n * BlockSize <= Len(tokens[s])
  <2>1. n \in 1..n
    BY <1>3
  <2>2. n * BlockSize \in Nat /\ n * BlockSize <= Len(tokens[s])
    BY <1>4, <2>1
  <2> QED
    BY <1>1, <1>2, <2>2 DEF TypeOK
<1> HIDE DEF d, R, t, fill, keys, page
<1>7. Counts(s, lo, n)
  <2>1. ASSUME NEW i \in lo..n PROVE i * BlockSize > numCached[s]
    <3>1. d * BlockSize + BlockSize <= i * BlockSize /\ i * BlockSize \in Nat
      BY <1>3, PageOrder
    <3> QED
      BY <1>3, <3>1
  <2>2. n * BlockSize >= numCached[s] /\ n * BlockSize < (n + 1) * BlockSize
    <3>1. d * BlockSize <= n * BlockSize
      BY <1>2, <1>3, PageOrder
    <3>2. (n + 1) * BlockSize = n * BlockSize + BlockSize
      BY <1>3
    <3> QED
      BY <1>3, <1>6, <3>1, <3>2
  <2>3. lo \in Nat /\ lo >= 1 /\ n <= Retained(s)
    BY <1>3 DEF R
  <2>4. n * BlockSize <= n * BlockSize
    BY <1>6
  <2> QED
    BY <1>2, <1>3, <1>6, <2>1, <2>2, <2>3, <2>4 DEF Counts
\* The new KV.
<1>8. ASSUME NEW i \in lo..n PROVE kv'[t[i]] = fill(i)
  <2>1. t[i] \in Blocks /\ i \in 1..R
    BY <1>3, <1>4, <1>5
  <2>2. \A k \in lo..n : t[k] = t[i] => k = i
    BY <1>3, <1>4, <1>5, <2>1
  <2>3. (CHOOSE k \in lo..n : t[k] = t[i]) = i
    BY <2>2
  <2> QED
    BY <1>2, <2>1, <2>3
<1>9. \A b \in Blocks : (\A i \in lo..n : t[i] # b) => kv'[b] = kv[b]
  BY <1>2
<1>10. Written(s, lo, n)
  <2>1. ASSUME NEW i \in lo..n PROVE fill(i) \in Slots
    <3>1. ASSUME NEW j \in 1..BlockSize
          PROVE  SubSeq(tokens[s], 1, (i - 1) * BlockSize + j) \in Seq(Token)
      <4>1. i \in Nat /\ i >= 1 /\ i * BlockSize <= Len(tokens[s]) /\ i * BlockSize \in Nat
        BY <1>3, <1>4, <1>5
      <4>2. /\ (i - 1) * BlockSize + j \in Nat /\ (i - 1) * BlockSize + j <= i * BlockSize
        BY <4>1, SlotUnique
      <4>3. (i - 1) * BlockSize + j \in 0..Len(tokens[s])
        BY <1>3, <4>1, <4>2
      <4> QED
        BY <1>3, <4>3, PrefixType
    <3> QED
      BY <3>1 DEF fill, Slots
  <2>2. ASSUME NEW b \in Blocks PROVE kv'[b] \in Slots
    <3>1. CASE \E i \in lo..n : t[i] = b
      BY <1>8, <2>1, <3>1
    <3>2. CASE \A i \in lo..n : t[i] # b
      BY <1>1, <1>9, <3>2 DEF TypeOK
    <3> QED
      BY <3>1, <3>2
  <2>3. kv' \in [Blocks -> Slots]
    BY <1>2, <2>2
  <2> QED
    BY <1>9, <2>3 DEF Written, t
<1>11. IntactAfter(s)
  <2> SUFFICES ASSUME NEW i \in 1..R, NEW j \in 1..BlockSize,
                      (logical[s][i] - 1) * BlockSize + j <= n * BlockSize
               PROVE  kv'[t[i]][j] = SubSeq(tokens[s], 1, (logical[s][i] - 1) * BlockSize + j)
    BY <1>6 DEF IntactAfter, R, t
  <2>1. logical[s][i] = i
    BY <1>1, <1>2, TableAtUse DEF R
  <2>2. i \in 1..n
    <3>1. (i - 1) * BlockSize < n * BlockSize /\ i - 1 \in Nat
      BY <1>3, <1>6, <2>1
    <3>2. i - 1 < n
      BY <1>3, <3>1, PageOrder
    <3> QED
      BY <1>3, <3>2
  <2>3. CASE i \in lo..n
    <3>1. kv'[t[i]] = fill(i)
      BY <1>8, <2>3
    <3>2. fill(i)[j] = SubSeq(tokens[s], 1, (i - 1) * BlockSize + j)
      BY DEF fill
    <3> QED
      BY <2>1, <3>1, <3>2
  <2>4. CASE i \in 1..d
    <3>1. \A k \in lo..n : t[k] # t[i]
      BY <1>3, <1>4, <1>5, <2>4
    <3>2. kv'[t[i]] = kv[t[i]]
      BY <1>3, <1>9, <3>1
    <3>3. (i - 1) * BlockSize + j <= numCached[s]
      <4>1. (i - 1) * BlockSize + j <= i * BlockSize /\ (i - 1) * BlockSize + j \in Nat
        BY <1>3, SlotUnique
      <4>2. i * BlockSize <= d * BlockSize /\ i * BlockSize \in Nat
        BY <1>3, <2>4, PageOrder
      <4>3. PICK x \in Nat, y \in Nat : x = (i - 1) * BlockSize + j /\ y = i * BlockSize
        BY <4>1, <4>2
      <4>4. x <= y /\ y <= numCached[s]
        BY <1>3, <4>1, <4>2, <4>3
      <4> QED
        BY <1>3, <4>3, <4>4
    <3> QED
      BY <1>1, <2>1, <3>2, <3>3 DEF IntactAt, R, t
  <2> QED
    BY <1>5, <2>2, <2>3, <2>4
\* The new entries.
<1>12. ASSUME NEW key \in keys
       PROVE  key \in Seq(Token) /\ \E i \in 1..n : key = ChainKey(s, i) /\ page(key) = t[i]
  BY <1>4 DEF keys
<1>13. ASSUME NEW key \in keys PROVE added[key] = page(key) /\ added[key] \in Blocks
  BY <1>3, <1>4, <1>12
<1>14. DOMAIN added = keys
  OBVIOUS
<1> HIDE DEF added
<1>15. /\ index' \in [DOMAIN index' -> Blocks] /\ DOMAIN index' \subseteq Seq(Token)
       /\ \A key \in DOMAIN index' :
              \/ key \in DOMAIN index /\ index'[key] = index[key]
              \/ key \in keys /\ index'[key] = page(key)
  <2>1. /\ \A key \in DOMAIN index : index[key] \in Blocks /\ key \in Seq(Token)
        /\ \A key \in keys : added[key] = page(key) /\ added[key] \in Blocks /\ key \in Seq(Token)
    BY <1>1, <1>12, <1>13 DEF TypeOK
  <2>2. CASE Backend = "hash"
    <3>1. index' = Overlay(added, index)
      BY <1>2, <2>2
    <3> QED
      BY <1>14, <2>1, <3>1 DEF Overlay
  <2>3. CASE Backend # "hash"
    <3>1. index' = Overlay(index, added)
      BY <1>2, <2>3
    <3> QED
      BY <1>14, <2>1, <3>1 DEF Overlay
  <2> QED
    BY <2>2, <2>3
\* The new hashes.
<1>16. ASSUME Backend = "hash", NEW i \in 1..n PROVE blockHash'[t[i]] = ChainKey(s, i)
  <2>1. t[i] \in Blocks /\ i \in 1..R /\ ChainKey(s, i) \in keys /\ page(ChainKey(s, i)) = t[i]
    BY <1>3, <1>4
  <2>2. \A key \in keys : page(key) = t[i] => key = ChainKey(s, i)
    <3> SUFFICES ASSUME NEW key \in keys, page(key) = t[i] PROVE key = ChainKey(s, i)
      OBVIOUS
    <3>1. PICK k \in 1..n : key = ChainKey(s, k) /\ page(key) = t[k]
      BY <1>12
    <3>2. k \in 1..R /\ t[k] = t[i]
      BY <1>4, <3>1
    <3>3. k = i
      BY <1>3, <2>1, <3>2
    <3> QED
      BY <3>1, <3>3
  <2>3. (CHOOSE key \in keys : page(key) = t[i]) = ChainKey(s, i)
    BY <2>1, <2>2
  <2> QED
    BY <1>2, <1>16, <2>1, <2>3
<1>17. ASSUME NEW b \in Blocks, \A i \in lo..n : t[i] # b PROVE blockHash'[b] = blockHash[b]
  <2>1. CASE Backend # "hash"
    BY <1>2, <2>1
  <2>2. CASE Backend = "hash" /\ \E i \in 1..d : t[i] = b
    <3>1. PICK i \in 1..d : t[i] = b
      BY <2>2
    <3>2. i \in 1..n /\ i \in 1..R
      BY <1>4, <1>5
    <3>3. blockHash'[t[i]] = ChainKey(s, i)
      BY <1>16, <2>2, <3>2
    <3>4. i * BlockSize <= numCached[s]
      BY <1>3, PageOrder
    <3>5. blockHash[t[i]] = ChainKey(s, i)
      BY <1>1, <1>2, <2>2, <3>2, <3>4 DEF HashedAt, R, t
    <3> QED
      BY <3>1, <3>3, <3>5
  <2>3. CASE Backend = "hash" /\ \A i \in 1..n : t[i] # b
    <3>1. ~ \E key \in keys : page(key) = b
      BY <1>12, <2>3
    <3> QED
      BY <1>2, <2>3, <3>1
  <2> QED
    BY <1>5, <1>17, <2>1, <2>2, <2>3
<1>18. blockHash' \in [Blocks -> Seq(Token)]
  <2>1. ASSUME NEW b \in Blocks PROVE blockHash'[b] \in Seq(Token)
    <3>1. CASE \A i \in lo..n : t[i] # b
      BY <1>1, <1>17, <3>1 DEF TypeOK
    <3>2. CASE Backend = "hash" /\ \E i \in lo..n : t[i] = b
      BY <1>4, <1>5, <1>16, <3>2
    <3>3. CASE Backend # "hash"
      BY <1>1, <1>2, <3>3 DEF TypeOK
    <3> QED
      BY <3>1, <3>2, <3>3
  <2>2. blockHash' = [b \in Blocks |-> blockHash'[b]]
    BY <1>1, <1>2 DEF TypeOK
  <2> QED
    BY <2>1, <2>2
<1>19. Published(s, lo, n)
  <2>1. \A key \in DOMAIN index' :
          \/ key \in DOMAIN index /\ index'[key] = index[key]
          \/ \E i \in 1..n : key = ChainKey(s, i) /\ index'[key] = t[i]
    BY <1>12, <1>15
  <2> QED
    BY <1>15, <1>16, <1>17, <1>18, <2>1 DEF Published, t
<1> QED
  BY <1>7, <1>10, <1>11, <1>19 DEF d

LEMMA CommitStep ==
    ASSUME IndInv, NEW s \in Seqs, NEW n \in 1..CacheableBlocks(s), CommitRestoredPrefix(s, n)
    PROVE  IndInv'
<1>1. TypeOK /\ TableInv /\ SeqTyped /\ TableAt(s)
  BY SeqTypes DEF IndInv, TableInv
<1>2. /\ Retained(s) = NumBlocks(s) /\ ~compressed[s] /\ numScheduled[s] = 0
      /\ numCached' = [numCached EXCEPT ![s] = n * BlockSize]
      /\ numPhysical' = [numPhysical EXCEPT ![s] = n * BlockSize]
      /\ UNCHANGED <<blockTable, logical, compressed, freeBlocks, usedBlocks, refCount>>
      /\ tokens' = tokens /\ numScheduled' = numScheduled
  BY DEF CommitRestoredPrefix, CommitRestoredPrefixOp, Idle
<1>3. PICK lo : /\ Counts(s, lo, n) /\ Published(s, lo, n) /\ Written(s, lo, n)
                /\ IntactAfter(s)
  BY CommitPublishes
<1>4. n * BlockSize \in Nat /\ n * BlockSize < Len(tokens[s]) /\ Len(tokens[s]) \in Nat
      /\ Len(tokens[s]) > 0
  BY <1>1, CacheableKey, TableSizes
<1>5. SeqTyped'
  BY <1>1, <1>2, <1>4 DEF SeqTyped
<1>6. \A q \in Seqs \ {s} : Untouched(q)
  BY <1>1, <1>2 DEF Untouched, TypeOK
<1>7. TableAt(s)'
  <2>1. /\ numCached'[s] = n * BlockSize /\ numPhysical'[s] = n * BlockSize
        /\ numScheduled'[s] = 0 /\ Retained(s)' = Retained(s) /\ NumBlocks(s)' = NumBlocks(s)
        /\ ~compressed'[s] /\ logical'[s] = logical[s] /\ tokens'[s] = tokens[s]
    BY <1>1, <1>2 DEF TypeOK, Retained, NumBlocks
  <2>2. Ascending(s)'
    BY <1>1, <2>1 DEF TableAt, Ascending
  <2>3. n * BlockSize <= Retained(s) * BlockSize
    <3>1. n <= Retained(s) /\ n \in Nat /\ Retained(s) \in Nat
      BY <1>1, <1>3, TableSizes DEF Counts
    <3> QED
      BY <3>1, PageOrder
  <2>4. Whole(s)'
    BY <1>1, <1>2, <2>1, <2>3 DEF TableAt, Whole
  <2>5. n * BlockSize + 0 <= Len(tokens[s])
    BY <1>4
  <2> QED
    BY <1>4, <2>1, <2>2, <2>4, <2>5 DEF TableAt
<1> QED
  BY <1>2, <1>3, <1>5, <1>6, <1>7, PublishKeeps

---------------------------------------------------------------------------
(* Running a batch *)

\* A batch of this mode may contain s.
InMode(s, isPrefill) == IF isPrefill THEN ~compressed[s] ELSE NewestMissing(s)

\* The slot written for a scheduled position is the one attention will read.
LEMMA WriteTarget ==
    ASSUME TypeOK, TableInv, NEW s \in Seqs, NEW isPrefill \in BOOLEAN, InMode(s, isPrefill),
           NEW p \in ScheduledPositions(s)
    PROVE  /\ p \in Nat /\ p >= 1 /\ p > numCached[s] /\ p <= Len(tokens[s])
           /\ SlotOf(p) \in 1..BlockSize
           /\ \E i \in 1..Retained(s) : /\ PageFor(s, p, isPrefill) = blockTable[s][i]
                                        /\ p = (logical[s][i] - 1) * BlockSize + SlotOf(p)
<1>1. /\ numCached[s] \in Nat /\ numScheduled[s] \in Nat /\ Len(tokens[s]) \in Nat
      /\ numCached[s] + numScheduled[s] <= Len(tokens[s])
      /\ Retained(s) \in Nat /\ NumBlocks(s) \in Nat
  BY TableSizes, TableAtUse
<1>2. /\ p \in Nat /\ p >= 1 /\ p > numCached[s] /\ p <= numCached[s] + numScheduled[s]
      /\ p <= Len(tokens[s]) /\ numScheduled[s] > 0
  BY <1>1 DEF ScheduledPositions
<1>3. /\ SlotOf(p) \in 1..BlockSize /\ (p - 1) \div BlockSize \in Nat
      /\ p = ((p - 1) \div BlockSize) * BlockSize + SlotOf(p)
      /\ Pages(p) = (p - 1) \div BlockSize + 1
  BY <1>2, SlotBounds
<1>4. PICK k \in Nat : k = (p - 1) \div BlockSize /\ p = k * BlockSize + SlotOf(p) /\ Pages(p) = k + 1
  BY <1>3
<1>5. ASSUME ~compressed[s]
      PROVE  /\ Retained(s) = NumBlocks(s) /\ k + 1 \in 1..Retained(s)
             /\ \A i \in 1..Retained(s) : logical[s][i] = i
  <2>1. Retained(s) = NumBlocks(s) /\ \A i \in 1..Retained(s) : logical[s][i] = i
    BY <1>2, <1>5, TableAtUse
  <2>2. Len(tokens[s]) <= NumBlocks(s) * BlockSize
    BY TableSizes
  <2>3. k * BlockSize < NumBlocks(s) * BlockSize
    <3>1. k * BlockSize \in Nat /\ NumBlocks(s) * BlockSize \in Nat
      BY <1>1, PageOrder
    <3>2. k * BlockSize < p
      BY <1>3, <1>4, <3>1
    <3> QED
      BY <1>1, <1>2, <2>2, <3>1, <3>2
  <2>4. k < NumBlocks(s)
    BY <1>1, <2>3, PageOrder
  <2> QED
    BY <1>1, <2>1, <2>4
<1>6. CASE isPrefill
  <2>1. ~compressed[s]
    BY <1>6 DEF InMode
  <2>2. /\ k + 1 \in 1..Retained(s) /\ logical[s][k + 1] = k + 1 /\ (k + 1) - 1 = k
    BY <1>5, <2>1
  <2>3. PageFor(s, p, isPrefill) = blockTable[s][k + 1]
    BY <1>4, <1>6 DEF PageFor
  <2>4. p = (logical[s][k + 1] - 1) * BlockSize + SlotOf(p)
    BY <1>4, <2>2
  <2> QED
    BY <1>2, <1>3, <2>2, <2>3, <2>4
<1>7. CASE ~isPrefill
  <2>1. numCached[s] + 1 = Len(tokens[s])
    BY <1>7 DEF InMode, NewestMissing
  <2>2. p = Len(tokens[s]) /\ numScheduled[s] = 1 /\ p = numCached[s] + 1
    BY <1>1, <1>2, <2>1
  <2>3. PageFor(s, p, isPrefill) = blockTable[s][Retained(s)]
    BY <1>7 DEF PageFor
  <2>4. Retained(s) \in 1..Retained(s) /\ logical[s][Retained(s)] = k + 1
    <3>1. CASE compressed[s]
      <4>1. /\ Retained(s) > 0
            /\ logical[s][Retained(s)] = Pages(numCached[s] + numScheduled[s])
        BY <3>1, TableAtUse DEF Thinned
      <4> QED
        BY <1>1, <1>4, <2>2, <4>1
    <3>2. CASE ~compressed[s]
      <4>1. Retained(s) = NumBlocks(s) /\ NumBlocks(s) = k + 1
        BY <1>4, <1>5, <2>2, <3>2 DEF NumBlocks
      <4> QED
        BY <1>5, <3>2, <4>1
    <3> QED
      BY <3>1, <3>2
  <2>5. p = (logical[s][Retained(s)] - 1) * BlockSize + SlotOf(p)
    <3>1. logical[s][Retained(s)] - 1 = k
      BY <2>4
    <3> QED
      BY <1>4, <3>1
  <2> QED
    BY <1>2, <1>3, <2>3, <2>4, <2>5
<1> QED
  BY <1>6, <1>7

\* A write goes to a page that nobody else maps and the index does not offer.
LEMMA WritePrivate ==
    ASSUME TypeOK, TableInv, NEW s \in Seqs, PrivateAt(s), NEW i \in 1..Retained(s),
           NEW p \in Nat, p > numCached[s], NEW j \in 1..BlockSize,
           p = (logical[s][i] - 1) * BlockSize + j
    PROVE  /\ HeldBy(blockTable, blockTable[s][i]) = {s}
           /\ blockTable[s][i] \notin Range(index)
<1>1. logical[s][i] \in Nat /\ logical[s][i] >= 1 /\ numCached[s] \in Nat
  BY TableAtUse
<1>2. /\ (logical[s][i] - 1) * BlockSize + j <= logical[s][i] * BlockSize
  BY <1>1, SlotUnique
<1>3. logical[s][i] * BlockSize \in Nat
  BY <1>1, PageOrder
<1>4. Open(s, i)
  BY <1>1, <1>2, <1>3 DEF Open
<1> QED
  BY <1>4 DEF PrivateAt

\* Every write of a batch is the KV of a position in its own page and slot.
LEMMA WriteLocated ==
    ASSUME TypeOK, TableInv, NEW S \in SUBSET Seqs, NEW isPrefill \in BOOLEAN,
           \A s \in S : InMode(s, isPrefill), NEW w \in KVWrites(S, isPrefill)
    PROVE  \E s \in Seqs, p \in Nat : \E i \in 1..Retained(s) :
              /\ w.prefix = SubSeq(tokens[s], 1, p) /\ w.prefix \in Seq(Token)
              /\ w.block = blockTable[s][i] /\ w.slot \in 1..BlockSize
              /\ p > numCached[s]
              /\ p = (logical[s][i] - 1) * BlockSize + w.slot
<1>1. PICK s \in S : \E p \in ScheduledPositions(s) :
         w = [block |-> PageFor(s, p, isPrefill), slot |-> SlotOf(p),
              prefix |-> SubSeq(tokens[s], 1, p)]
  BY DEF KVWrites
<1>2. PICK p \in ScheduledPositions(s) :
         w = [block |-> PageFor(s, p, isPrefill), slot |-> SlotOf(p),
              prefix |-> SubSeq(tokens[s], 1, p)]
  BY <1>1
<1>3. /\ p \in Nat /\ p >= 1 /\ p > numCached[s] /\ p <= Len(tokens[s])
      /\ SlotOf(p) \in 1..BlockSize
      /\ \E i \in 1..Retained(s) : /\ PageFor(s, p, isPrefill) = blockTable[s][i]
                                   /\ p = (logical[s][i] - 1) * BlockSize + SlotOf(p)
  BY WriteTarget
<1>4. tokens[s] \in Seq(Token) /\ p \in 0..Len(tokens[s])
  BY <1>3, TableSizes DEF TypeOK
<1>5. SubSeq(tokens[s], 1, p) \in Seq(Token)
  BY <1>4, PrefixType
<1>6. /\ w.block = PageFor(s, p, isPrefill) /\ w.slot = SlotOf(p)
      /\ w.prefix = SubSeq(tokens[s], 1, p)
  BY <1>2
<1>7. PICK i \in 1..Retained(s) : /\ PageFor(s, p, isPrefill) = blockTable[s][i]
                                  /\ p = (logical[s][i] - 1) * BlockSize + SlotOf(p)
  BY <1>3
<1> QED
  BY <1>3, <1>5, <1>6, <1>7

LEMMA BatchStep ==
    ASSUME IndInv, NEW S \in SUBSET Seqs, NEW isPrefill \in BOOLEAN, Run(S, isPrefill)
    PROVE  IndInv'
<1> DEFINE W == KVWrites(S, isPrefill)
<1>1. /\ TypeOK /\ PoolConsistent /\ TableInv /\ IndexHashed /\ IndexedPageIntact /\ SeqTyped
      /\ \A q \in Seqs : PrivateAt(q) /\ HashedAt(q) /\ IntactAt(q)
  BY IntactSplit, SeqTypes DEF IndInv, OpenPagesPrivate, HashesAgree
<1>2. /\ \A s \in S : InMode(s, isPrefill)
      /\ kv' = [b \in Blocks |-> [j \in 1..BlockSize |->
              IF \E w \in W : w.block = b /\ w.slot = j
              THEN (CHOOSE w \in W : w.block = b /\ w.slot = j).prefix
              ELSE kv[b][j]]]
      /\ UNCHANGED <<seqVars, poolVars>>
  BY DEF Run, RunOp, InMode
<1>3. /\ UNCHANGED <<tokens, blockTable, numCached, numPhysical, numScheduled, logical, compressed>>
      /\ UNCHANGED <<freeBlocks, usedBlocks, refCount, blockHash, index>>
  BY <1>2 DEF seqVars, poolVars
<1>4. ASSUME NEW w \in W
      PROVE  \E s \in Seqs, p \in Nat : \E i \in 1..Retained(s) :
                /\ w.prefix = SubSeq(tokens[s], 1, p) /\ w.prefix \in Seq(Token)
                /\ w.block = blockTable[s][i] /\ w.slot \in 1..BlockSize
                /\ p > numCached[s]
                /\ p = (logical[s][i] - 1) * BlockSize + w.slot
  BY <1>1, <1>2, WriteLocated
<1> HIDE DEF W
<1>5. kv' \in [Blocks -> Slots]
  <2>1. ASSUME NEW b \in Blocks, NEW j \in 1..BlockSize
        PROVE  (IF \E w \in W : w.block = b /\ w.slot = j
                THEN (CHOOSE w \in W : w.block = b /\ w.slot = j).prefix
                ELSE kv[b][j]) \in Seq(Token)
    <3>0. kv[b] \in [1..BlockSize -> Seq(Token)]
      BY <1>1 DEF TypeOK, Slots
    <3>1. kv[b][j] \in Seq(Token)
      BY <3>0
    <3>2. \A w \in W : w.prefix \in Seq(Token)
      BY <1>4
    <3> DEFINE hit == CHOOSE w \in W : w.block = b /\ w.slot = j
    <3>3. (\E w \in W : w.block = b /\ w.slot = j) => hit \in W
      BY Zenon
    <3> HIDE DEF hit
    <3>4. (\E w \in W : w.block = b /\ w.slot = j) => hit.prefix \in Seq(Token)
      BY <3>2, <3>3
    <3> QED
      BY <3>1, <3>4 DEF hit
  <2> QED
    BY <1>2, <2>1 DEF Slots
<1>6. ASSUME NEW b \in Blocks, NEW j \in 1..BlockSize, kv'[b][j] # kv[b][j]
      PROVE  \E w \in W : w.block = b /\ w.slot = j
  BY <1>2, <1>6
<1>7. ASSUME NEW q \in Seqs
      PROVE  TableAt(q)' /\ PrivateAt(q)' /\ HashedAt(q)'
  <2>1. TableAt(q)'
    BY <1>1, <1>3, UntouchedTable DEF TableInv, Untouched
  <2>2. PrivateAt(q)'
    BY <1>1, <1>3 DEF PrivateAt, Open, Retained
  <2>3. HashedAt(q)'
    BY <1>1, <1>3 DEF HashedAt, ChainKey, Retained
  <2> QED
    BY <2>1, <2>2, <2>3
<1>8. ASSUME NEW q \in Seqs PROVE IntactAt(q)'
  <2> SUFFICES ASSUME NEW i \in 1..Retained(q), NEW j \in 1..BlockSize,
                      (logical[q][i] - 1) * BlockSize + j <= numCached[q]
               PROVE  kv'[blockTable[q][i]][j]
                        = SubSeq(tokens[q], 1, (logical[q][i] - 1) * BlockSize + j)
    BY <1>3 DEF IntactAt, Retained
  <2>1. kv[blockTable[q][i]][j] = SubSeq(tokens[q], 1, (logical[q][i] - 1) * BlockSize + j)
    BY <1>1 DEF IntactAt
  <2>2. ASSUME kv'[blockTable[q][i]][j] # kv[blockTable[q][i]][j] PROVE FALSE
    <3>1. blockTable[q][i] \in Blocks /\ blockTable[q][i] \in Range(blockTable[q])
      BY <1>1, TableSizes DEF Range
    <3>2. PICK w \in W : w.block = blockTable[q][i] /\ w.slot = j
      BY <1>6, <2>2, <3>1
    <3>3. PICK s \in Seqs, p \in Nat : \E k \in 1..Retained(s) :
                /\ blockTable[q][i] = blockTable[s][k] /\ p > numCached[s]
                /\ p = (logical[s][k] - 1) * BlockSize + j
      BY <1>4, <3>2
    <3>4. PICK k \in 1..Retained(s) :
                /\ blockTable[q][i] = blockTable[s][k] /\ p > numCached[s]
                /\ p = (logical[s][k] - 1) * BlockSize + j
      BY <3>3
    <3>5. HeldBy(blockTable, blockTable[s][k]) = {s}
      BY <1>1, <3>4, WritePrivate
    <3>6. q = s
      BY <3>1, <3>4, <3>5 DEF HeldBy
    <3>7. i = k
      BY <1>1, <3>4, <3>6, TableSizes DEF PoolConsistent, IsInjective
    <3> QED
      BY <1>1, <3>4, <3>6, <3>7, TableAtUse
  <2> QED
    BY <2>1, <2>2
<1>9. IndexedPageIntact'
  <2> SUFFICES ASSUME NEW key \in DOMAIN index, NEW j \in 1..BlockSize
               PROVE  kv'[index[key]][j] = SubSeq(key, 1, Len(key) - BlockSize + j)
    BY <1>3 DEF IndexedPageIntact
  <2>1. kv[index[key]][j] = SubSeq(key, 1, Len(key) - BlockSize + j)
    BY <1>1 DEF IndexedPageIntact
  <2>2. ASSUME kv'[index[key]][j] # kv[index[key]][j] PROVE FALSE
    <3>1. index[key] \in Blocks /\ index[key] \in Range(index)
      BY <1>1 DEF TypeOK, Range
    <3>2. PICK w \in W : w.block = index[key] /\ w.slot = j
      BY <1>6, <2>2, <3>1
    <3>3. PICK s \in Seqs, p \in Nat : \E k \in 1..Retained(s) :
                /\ index[key] = blockTable[s][k] /\ p > numCached[s]
                /\ p = (logical[s][k] - 1) * BlockSize + j
      BY <1>4, <3>2
    <3>4. PICK k \in 1..Retained(s) :
                /\ index[key] = blockTable[s][k] /\ p > numCached[s]
                /\ p = (logical[s][k] - 1) * BlockSize + j
      BY <3>3
    <3>5. blockTable[s][k] \notin Range(index)
      BY <1>1, <3>4, WritePrivate
    <3> QED
      BY <3>1, <3>4, <3>5
  <2> QED
    BY <2>1, <2>2
<1>10. IndexHashed' /\ SeqTyped'
  BY <1>1, <1>3 DEF IndexHashed, SeqTyped
<1>11. PoolTyped' /\ blockTable' \in [Seqs -> Seq(Blocks)]
       /\ blockHash' \in [Blocks -> Seq(Token)]
       /\ index' \in [DOMAIN index' -> Blocks] /\ DOMAIN index' \subseteq Seq(Token)
  BY <1>1, <1>3 DEF TypeOK, PoolTyped
<1>12. PoolConsistent'
  <2>1. \A b : Holders(b)' = Holders(b)
    BY <1>3 DEF Holders
  <2> QED
    BY <1>1, <1>3, <2>1 DEF PoolConsistent
<1> QED
  BY <1>5, <1>7, <1>8, <1>9, <1>10, <1>11, <1>12, Assemble


---------------------------------------------------------------------------
(* After a batch *)

\* What hash_blocks works on: the pages first..last complete with this step.
LEMMA CompletedPages ==
    ASSUME TypeOK, TableInv, PoolConsistent, NEW s \in Seqs, ~compressed[s], numScheduled[s] > 0,
           NEW d, d = numCached[s] \div BlockSize,
           NEW hi, hi = (numCached[s] + numScheduled[s]) \div BlockSize
    PROVE  /\ d \in Nat /\ hi \in Nat /\ d <= hi /\ hi <= Retained(s) /\ Retained(s) \in Nat
           /\ d * BlockSize <= numCached[s] /\ numCached[s] < (d + 1) * BlockSize
           /\ hi * BlockSize <= numCached[s] + numScheduled[s]
           /\ numCached[s] + numScheduled[s] < (hi + 1) * BlockSize
           /\ \A i \in 1..hi : /\ i \in 1..Retained(s) /\ blockTable[s][i] \in Blocks
                               /\ i * BlockSize \in Nat /\ i * BlockSize <= Len(tokens[s])
                               /\ ChainKey(s, i) \in Seq(Token)
                               /\ Len(ChainKey(s, i)) = i * BlockSize
                               /\ Len(ChainKey(s, i)) \div BlockSize = i
           /\ \A i, j \in 1..hi : blockTable[s][i] = blockTable[s][j] => i = j
           /\ \A i, j \in 1..hi : ChainKey(s, i) = ChainKey(s, j) => i = j
<1>1. /\ numCached[s] \in Nat /\ numScheduled[s] \in Nat /\ Len(tokens[s]) \in Nat
      /\ numCached[s] + numScheduled[s] <= Len(tokens[s]) /\ Retained(s) = NumBlocks(s)
      /\ Retained(s) \in Nat /\ Len(tokens[s]) <= Retained(s) * BlockSize
      /\ DOMAIN blockTable[s] = 1..Retained(s)
      /\ \A i \in 1..Retained(s) : blockTable[s][i] \in Blocks
  BY TableSizes, TableAtUse
<1>2. PICK n \in Nat, m \in Nat : n = numCached[s] /\ m = numCached[s] + numScheduled[s]
  BY <1>1
<1>3. /\ d \in Nat /\ d * BlockSize <= n /\ n < (d + 1) * BlockSize
      /\ hi \in Nat /\ hi * BlockSize <= m /\ m < (hi + 1) * BlockSize
  BY <1>2, DivPage
<1>4. /\ d * BlockSize \in Nat /\ hi * BlockSize \in Nat /\ (hi + 1) * BlockSize \in Nat
      /\ Retained(s) * BlockSize \in Nat
  BY <1>1, <1>3, PageOrder, SMTT(30)
<1>5. d <= hi
  <2>1. d * BlockSize < (hi + 1) * BlockSize
    BY <1>1, <1>2, <1>3, <1>4, SMTT(30)
  <2>2. d < hi + 1
    BY <1>3, <2>1, PageOrder
  <2> QED
    BY <1>3, <2>2
<1>6. hi <= Retained(s)
  <2>1. PICK x \in Nat, y \in Nat : x = hi * BlockSize /\ y = Retained(s) * BlockSize
    BY <1>4
  <2>2. x <= y
    BY <1>1, <1>2, <1>3, <2>1, SMTT(30)
  <2>3. Retained(s) < hi => y + BlockSize <= x
    BY <1>1, <1>3, <2>1, PageOrder
  <2>4. ~(Retained(s) < hi)
    BY <2>2, <2>3, BlockSizeAssumption
  <2> QED
    BY <1>1, <1>3, <2>4
<1>7. ASSUME NEW i \in 1..hi
      PROVE  /\ i \in 1..Retained(s) /\ blockTable[s][i] \in Blocks
             /\ i * BlockSize \in Nat /\ i * BlockSize <= Len(tokens[s])
             /\ ChainKey(s, i) \in Seq(Token) /\ Len(ChainKey(s, i)) = i * BlockSize
             /\ Len(ChainKey(s, i)) \div BlockSize = i
  <2>1. i \in Nat /\ i <= hi /\ i \in 1..Retained(s) /\ blockTable[s][i] \in Blocks
    BY <1>1, <1>3, <1>6
  <2>2. i * BlockSize \in Nat /\ i * BlockSize <= hi * BlockSize
    BY <1>3, <2>1, PageOrder
  <2>3. i * BlockSize <= Len(tokens[s])
    <3>1. PICK x \in Nat, y \in Nat : x = i * BlockSize /\ y = hi * BlockSize
      BY <1>4, <2>2
    <3>2. x <= y /\ y <= m /\ m <= Len(tokens[s])
      BY <1>1, <1>2, <1>3, <2>2, <3>1
    <3> QED
      BY <1>1, <3>1, <3>2
  <2> QED
    BY <2>1, <2>2, <2>3, KeyPage
<1>8. \A i, j \in 1..hi : blockTable[s][i] = blockTable[s][j] => i = j
  BY <1>1, <1>7 DEF PoolConsistent, IsInjective
<1>9. \A i, j \in 1..hi : ChainKey(s, i) = ChainKey(s, j) => i = j
  BY <1>7
<1> QED
  BY <1>1, <1>2, <1>3, <1>5, <1>6, <1>7, <1>8, <1>9

\* The chained hashes that hash_blocks computes are the keys of the pages.
LEMMA ChainContinues ==
    ASSUME TypeOK, TableInv, PoolConsistent, NEW s \in Seqs, HashedAt(s), Backend = "hash",
           ~compressed[s], numScheduled[s] > 0,
           NEW d, d = numCached[s] \div BlockSize,
           NEW i \in (d + 1)..((numCached[s] + numScheduled[s]) \div BlockSize)
    PROVE  (IF d + 1 = 1 THEN <<>> ELSE blockHash[blockTable[s][(d + 1) - 1]])
              \o SubSeq(tokens[s], ((d + 1) - 1) * BlockSize + 1, i * BlockSize) = ChainKey(s, i)
<1> DEFINE hi == (numCached[s] + numScheduled[s]) \div BlockSize
           chain == IF d + 1 = 1 THEN <<>> ELSE blockHash[blockTable[s][(d + 1) - 1]]
<1>1. /\ d \in Nat /\ hi \in Nat /\ d <= hi /\ hi <= Retained(s) /\ Retained(s) \in Nat
      /\ d * BlockSize <= numCached[s]
      /\ \A k \in 1..hi : /\ k \in 1..Retained(s)
                          /\ k * BlockSize \in Nat /\ k * BlockSize <= Len(tokens[s])
  BY CompletedPages
<1>2. i \in 1..hi /\ i \in Nat /\ d < i
  BY <1>1
<1>3. tokens[s] \in Seq(Token) /\ Len(tokens[s]) \in Nat
  BY TableSizes DEF TypeOK
<1> HIDE DEF hi
<1>4. chain = SubSeq(tokens[s], 1, d * BlockSize)
  <2>1. CASE d = 0
    <3>1. d * BlockSize = 0
      BY <2>1, BlockSizeAssumption
    <3>2. SubSeq(tokens[s], 1, 0) \in Seq(Token) /\ Len(SubSeq(tokens[s], 1, 0)) = 0
      BY <1>3, PrefixType
    <3>3. SubSeq(tokens[s], 1, 0) = <<>>
      BY <3>2, EmptySeq
    <3> QED
      BY <2>1, <3>1, <3>3
  <2>2. CASE d # 0
    <3>1. d \in 1..Retained(s) /\ (d + 1) - 1 = d /\ d + 1 # 1
      BY <1>1, <2>2
    <3>2. blockHash[blockTable[s][d]] = ChainKey(s, d)
      BY <1>1, <3>1 DEF HashedAt
    <3> QED
      BY <3>1, <3>2 DEF ChainKey
  <2> QED
    BY <2>1, <2>2
<1>5. (d + 1) - 1 = d /\ d * BlockSize \in 0..(i * BlockSize) /\ i * BlockSize \in 0..Len(tokens[s])
  <2>1. d * BlockSize \in Nat /\ d * BlockSize <= i * BlockSize
    BY <1>1, <1>2, PageOrder
  <2>2. i * BlockSize \in Nat /\ i * BlockSize <= Len(tokens[s])
    BY <1>1, <1>2
  <2> QED
    BY <1>1, <1>3, <2>1, <2>2
<1> HIDE DEF chain
<1>6. SubSeq(tokens[s], 1, d * BlockSize) \o SubSeq(tokens[s], d * BlockSize + 1, i * BlockSize)
        = SubSeq(tokens[s], 1, i * BlockSize)
  BY <1>3, <1>5, PrefixConcat
<1>7. chain \o SubSeq(tokens[s], ((d + 1) - 1) * BlockSize + 1, i * BlockSize)
        = SubSeq(tokens[s], 1, i * BlockSize)
  BY <1>4, <1>5, <1>6
<1> QED
  BY <1>7 DEF ChainKey, chain


LEMMA HashPublishes ==
    ASSUME IndInv, NEW s \in Seqs, ~compressed[s], numScheduled[s] > 0, HashBlocks(s)
    PROVE  Published(s, (numCached[s] \div BlockSize) + 1,
                        (numCached[s] + numScheduled[s]) \div BlockSize)
<1> DEFINE d == numCached[s] \div BlockSize
           lo == d + 1
           hi == (numCached[s] + numScheduled[s]) \div BlockSize
           t == blockTable[s]
           chain == IF lo = 1 THEN <<>> ELSE blockHash[blockTable[s][lo - 1]]
           hash(i) == chain \o SubSeq(tokens[s], (lo - 1) * BlockSize + 1, i * BlockSize)
           full == {ChainKey(s, i) : i \in 1..hi}
           fresh == [key \in {hash(i) : i \in lo..hi} |-> t[CHOOSE i \in lo..hi : hash(i) = key]]
           added == [key \in full |-> t[Len(key) \div BlockSize]]
<1>1. TypeOK /\ PoolConsistent /\ TableInv /\ HashedAt(s)
  BY DEF IndInv, HashesAgree
<1>2. /\ d \in Nat /\ hi \in Nat /\ d <= hi /\ hi <= Retained(s) /\ Retained(s) \in Nat
      /\ d * BlockSize <= numCached[s]
      /\ \A i \in 1..hi : /\ i \in 1..Retained(s) /\ t[i] \in Blocks
                          /\ ChainKey(s, i) \in Seq(Token)
                          /\ Len(ChainKey(s, i)) \div BlockSize = i
      /\ \A i, j \in 1..hi : t[i] = t[j] => i = j
      /\ \A i, j \in 1..hi : ChainKey(s, i) = ChainKey(s, j) => i = j
  <2>1. PICK d0, hi0 : d0 = d /\ hi0 = hi
    OBVIOUS
  <2>2. /\ d0 \in Nat /\ hi0 \in Nat /\ d0 <= hi0 /\ hi0 <= Retained(s) /\ Retained(s) \in Nat
        /\ d0 * BlockSize <= numCached[s]
        /\ \A i \in 1..hi0 : /\ i \in 1..Retained(s) /\ blockTable[s][i] \in Blocks
                             /\ ChainKey(s, i) \in Seq(Token)
                             /\ Len(ChainKey(s, i)) \div BlockSize = i
        /\ \A i, j \in 1..hi0 : blockTable[s][i] = blockTable[s][j] => i = j
        /\ \A i, j \in 1..hi0 : ChainKey(s, i) = ChainKey(s, j) => i = j
    BY <1>1, <2>1, CompletedPages
  <2> QED
    BY <2>1, <2>2, Zenon
<1>2a. IF hi < lo
       THEN blockHash' = blockHash /\ index' = index
       ELSE IF Backend = "hash"
       THEN /\ blockHash' = [b \in Blocks |->
                   IF \E i \in lo..hi : t[i] = b
                   THEN hash(CHOOSE i \in lo..hi : t[i] = b)
                   ELSE blockHash[b]]
            /\ index' = Overlay(fresh, index)
       ELSE blockHash' = blockHash /\ index' = Overlay(index, added)
  BY DEF HashBlocks
<1>2b. \A i \in lo..hi : Backend = "hash" => hash(i) = ChainKey(s, i)
  BY <1>1, ChainContinues
<1> SUFFICES Published(s, lo, hi)
  OBVIOUS
<1> HIDE DEF d, hi
<1>3. /\ \A i \in lo..hi : i \in 1..hi
      /\ \A i \in 1..hi : i \in lo..hi \/ i \in 1..d
      /\ \A i \in 1..d : i \in 1..hi /\ i \notin lo..hi
  BY <1>2
<1>4. ASSUME Backend = "hash", NEW i \in 1..d PROVE blockHash[t[i]] = ChainKey(s, i)
  <2>1. i \in 1..Retained(s) /\ i \in Nat /\ i <= d
    BY <1>2, <1>3
  <2>2. i * BlockSize <= d * BlockSize /\ i * BlockSize \in Nat /\ d * BlockSize \in Nat
    BY <1>2, <2>1, PageOrder
  <2>3. i * BlockSize <= numCached[s]
    <3>1. numCached[s] \in Nat
      BY <1>1 DEF TypeOK
    <3>2. PICK x \in Nat, y \in Nat : x = i * BlockSize /\ y = d * BlockSize
      BY <2>2
    <3> QED
      BY <1>2, <2>2, <3>1, <3>2
  <2> QED
    BY <1>1, <1>4, <2>1, <2>3 DEF HashedAt
<1>5. /\ blockHash \in [Blocks -> Seq(Token)]
      /\ index \in [DOMAIN index -> Blocks] /\ DOMAIN index \subseteq Seq(Token)
  BY <1>1 DEF TypeOK
<1>6. CASE hi < lo
  <2>1. blockHash' = blockHash /\ index' = index
    BY <1>2a, <1>6
  <2>2. \A i \in 1..hi : i \in 1..d
    BY <1>2, <1>6
  <2> QED
    BY <1>4, <1>5, <2>1, <2>2 DEF Published, t
<1>7. CASE ~(hi < lo) /\ Backend = "hash"
  <2>1. /\ blockHash' = [b \in Blocks |->
                   IF \E i \in lo..hi : t[i] = b
                   THEN hash(CHOOSE i \in lo..hi : t[i] = b)
                   ELSE blockHash[b]]
        /\ index' = Overlay(fresh, index)
    BY <1>2a, <1>7, Zenon
  <2>2. ASSUME NEW i \in lo..hi PROVE hash(i) = ChainKey(s, i)
    BY <1>2b, <1>7
  <2>3. DOMAIN fresh = {hash(i) : i \in lo..hi}
        /\ \A key \in {hash(i) : i \in lo..hi} :
              fresh[key] = t[CHOOSE i \in lo..hi : hash(i) = key]
    OBVIOUS
  <2> HIDE DEF fresh, hash, lo, t
  <2>4. ASSUME NEW key \in DOMAIN fresh
        PROVE  \E i \in lo..hi : key = ChainKey(s, i) /\ fresh[key] = t[i]
    <3>1. PICK i \in lo..hi : key = hash(i)
      BY <2>3
    <3>2. \A k \in lo..hi : hash(k) = key => k = i
      BY <1>2, <1>3, <2>2, <3>1
    <3>3. (CHOOSE k \in lo..hi : hash(k) = key) = i
      BY <3>1, <3>2
    <3> QED
      BY <2>2, <2>3, <3>1, <3>3
  <2>5. /\ \A key \in DOMAIN fresh : fresh[key] \in Blocks /\ key \in Seq(Token)
    BY <1>2, <1>3, <2>4
  <2>6. /\ index' \in [DOMAIN index' -> Blocks] /\ DOMAIN index' \subseteq Seq(Token)
        /\ \A key \in DOMAIN index' :
              \/ key \in DOMAIN index /\ index'[key] = index[key]
              \/ key \in DOMAIN fresh /\ index'[key] = fresh[key]
    BY <1>5, <2>1, <2>5 DEF Overlay
  <2>7. \A key \in DOMAIN index' :
          \/ key \in DOMAIN index /\ index'[key] = index[key]
          \/ \E i \in 1..hi : key = ChainKey(s, i) /\ index'[key] = t[i]
    BY <1>3, <2>4, <2>6
  <2>8. ASSUME NEW i \in lo..hi PROVE blockHash'[t[i]] = ChainKey(s, i)
    <3>1. t[i] \in Blocks /\ \A k \in lo..hi : t[k] = t[i] => k = i
      BY <1>2, <1>3
    <3>2. (CHOOSE k \in lo..hi : t[k] = t[i]) = i
      BY <3>1
    <3> QED
      BY <2>1, <2>2, <3>1, <3>2
  <2>9. ASSUME NEW b \in Blocks, \A i \in lo..hi : t[i] # b PROVE blockHash'[b] = blockHash[b]
    BY <2>1, <2>9
  <2>10. ASSUME NEW i \in 1..hi PROVE blockHash'[t[i]] = ChainKey(s, i)
    <3>1. CASE i \in lo..hi
      BY <2>8, <3>1
    <3>2. CASE i \in 1..d
      <4>1. t[i] \in Blocks /\ \A k \in lo..hi : t[k] # t[i]
        BY <1>2, <1>3, <3>2
      <4> QED
        BY <1>4, <1>7, <2>9, <3>2, <4>1
    <3> QED
      BY <1>3, <3>1, <3>2
  <2>11. blockHash' \in [Blocks -> Seq(Token)]
    <3>1. ASSUME NEW b \in Blocks PROVE blockHash'[b] \in Seq(Token)
      <4>1. CASE \A i \in lo..hi : t[i] # b
        BY <1>5, <2>9, <4>1
      <4>2. CASE \E i \in lo..hi : t[i] = b
        BY <1>2, <1>3, <2>8, <4>2
      <4> QED
        BY <4>1, <4>2
    <3> QED
      BY <2>1, <3>1
  <2> QED
    BY <2>6, <2>7, <2>9, <2>10, <2>11 DEF Published, t, lo
<1>8. CASE ~(hi < lo) /\ Backend # "hash"
  <2>1. blockHash' = blockHash /\ index' = Overlay(index, added)
    BY <1>2a, <1>8, Zenon
  <2>2. DOMAIN added = full /\ \A key \in full : added[key] = t[Len(key) \div BlockSize]
    OBVIOUS
  <2> HIDE DEF added
  <2>3. ASSUME NEW key \in DOMAIN added
        PROVE  \E i \in 1..hi : key = ChainKey(s, i) /\ added[key] = t[i]
    <3>1. PICK i \in 1..hi : key = ChainKey(s, i)
      BY <2>2
    <3> QED
      BY <1>2, <2>2, <3>1
  <2>4. \A key \in DOMAIN added : added[key] \in Blocks /\ key \in Seq(Token)
    BY <1>2, <2>3
  <2>5. /\ index' \in [DOMAIN index' -> Blocks] /\ DOMAIN index' \subseteq Seq(Token)
        /\ \A key \in DOMAIN index' :
              \/ key \in DOMAIN index /\ index'[key] = index[key]
              \/ key \in DOMAIN added /\ index'[key] = added[key]
    BY <1>5, <2>1, <2>4 DEF Overlay
  <2>6. \A key \in DOMAIN index' :
          \/ key \in DOMAIN index /\ index'[key] = index[key]
          \/ \E i \in 1..hi : key = ChainKey(s, i) /\ index'[key] = t[i]
    BY <2>3, <2>5
  <2> QED
    BY <1>5, <1>8, <2>1, <2>5, <2>6 DEF Published, t
<1> QED
  BY <1>6, <1>7, <1>8


LEMMA PagesGrow ==
    ASSUME NEW n \in Nat, NEW m \in Nat, n <= m
    PROVE  Pages(n) <= Pages(m)
<1>1. CASE n = 0
  BY <1>1, PagesBounds, PagesUnique, BlockSizeAssumption
<1>2. CASE n > 0
  <2>1. PICK a \in Nat, b \in Nat, x \in Nat, y \in Nat :
          /\ a = Pages(n) /\ b = Pages(m) /\ a > 0
          /\ x = (a - 1) * BlockSize /\ y = b * BlockSize /\ x < n /\ m <= y
    <3>1. Pages(n) \in Nat /\ Pages(m) \in Nat /\ Pages(n) > 0
          /\ (Pages(n) - 1) * BlockSize < n /\ m <= Pages(m) * BlockSize
      BY <1>2, PagesBounds
    <3>2. (Pages(n) - 1) * BlockSize \in Nat /\ Pages(m) * BlockSize \in Nat
      BY <3>1, PageOrder
    <3> QED
      BY <3>1, <3>2
  <2>2. x < y
    BY <2>1
  <2>3. a - 1 < b
    BY <2>1, <2>2, PageOrder
  <2> QED
    BY <2>1, <2>3
<1> QED
  BY <1>1, <1>2

LEMMA ModStep ==
    ASSUME NEW n \in Nat, NEW m \in Nat, n % BlockSize = m % BlockSize
    PROVE  (n + 1) % BlockSize = (m + 1) % BlockSize
<1>1. PICK d \in Nat, e \in Nat, r \in 0..(BlockSize - 1) :
        n = d * BlockSize + r /\ m = e * BlockSize + r
  BY DivPage
<1>2. CASE r + 1 < BlockSize
  <2>1. r + 1 \in 0..(BlockSize - 1)
    BY <1>2, BlockSizeAssumption
  <2>2. (d * BlockSize + (r + 1)) % BlockSize = r + 1 /\ (e * BlockSize + (r + 1)) % BlockSize = r + 1
    BY <2>1, ModPage
  <2>3. n + 1 = d * BlockSize + (r + 1) /\ m + 1 = e * BlockSize + (r + 1)
    BY <1>1, BlockSizeAssumption
  <2> QED
    BY <2>2, <2>3
<1>3. CASE r + 1 = BlockSize
  <2>1. n + 1 = (d + 1) * BlockSize /\ m + 1 = (e + 1) * BlockSize
    BY <1>1, <1>3, BlockSizeAssumption
  <2> QED
    BY <2>1, MulDiv
<1> QED
  BY <1>2, <1>3, BlockSizeAssumption

\* The caller's obligation, that the batch was run, covers the new positions.
LEMMA RanIntact ==
    ASSUME TypeOK, TableInv, NEW s \in Seqs, IntactAt(s), NEW isPrefill \in BOOLEAN,
           InMode(s, isPrefill), kv' = kv,
           \A w \in KVWrites({s}, isPrefill) : kv[w.block][w.slot] = w.prefix,
           numCached'[s] = numCached[s] + numScheduled[s]
    PROVE  IntactAfter(s)
<1> SUFFICES ASSUME NEW i \in 1..Retained(s), NEW j \in 1..BlockSize,
                    (logical[s][i] - 1) * BlockSize + j <= numCached[s] + numScheduled[s]
             PROVE  kv[blockTable[s][i]][j]
                      = SubSeq(tokens[s], 1, (logical[s][i] - 1) * BlockSize + j)
  BY DEF IntactAfter
<1>1. /\ numCached[s] \in Nat /\ numScheduled[s] \in Nat /\ Retained(s) \in Nat
      /\ \A k \in 1..Retained(s) : logical[s][k] \in Nat /\ logical[s][k] >= 1
  BY TableAtUse, TableSizes
<1>2. PICK p \in Nat : /\ p = (logical[s][i] - 1) * BlockSize + j
                       /\ SlotOf(p) = j /\ (p - 1) \div BlockSize = logical[s][i] - 1
  <2>1. logical[s][i] \in Nat /\ logical[s][i] >= 1
    BY <1>1
  <2>2. /\ (logical[s][i] - 1) * BlockSize + j \in Nat
        /\ SlotOf((logical[s][i] - 1) * BlockSize + j) = j
        /\ (((logical[s][i] - 1) * BlockSize + j) - 1) \div BlockSize = logical[s][i] - 1
    BY <2>1, SlotUnique
  <2> QED
    BY <2>2, Zenon
<1>3. CASE p <= numCached[s]
  BY <1>2, <1>3 DEF IntactAt
<1>4. CASE p > numCached[s]
  <2>1. p \in ScheduledPositions(s)
    BY <1>1, <1>2, <1>4 DEF ScheduledPositions
  <2>2. PICK k \in 1..Retained(s) : /\ PageFor(s, p, isPrefill) = blockTable[s][k]
                                    /\ p = (logical[s][k] - 1) * BlockSize + SlotOf(p)
    BY <2>1, WriteTarget
  <2>3. (p - 1) \div BlockSize = logical[s][k] - 1
    <3>1. logical[s][k] \in Nat /\ logical[s][k] >= 1
      BY <1>1
    <3>2. (((logical[s][k] - 1) * BlockSize + j) - 1) \div BlockSize = logical[s][k] - 1
      BY <3>1, SlotUnique
    <3>3. p = (logical[s][k] - 1) * BlockSize + j
      BY <1>2, <2>2, Zenon
    <3> QED
      BY <3>2, <3>3, Zenon
  <2>4. logical[s][k] = logical[s][i]
    BY <1>1, <1>2, <2>3
  <2>5. k = i
    <3>1. \A a, b \in 1..Retained(s) : a < b => logical[s][a] < logical[s][b]
      BY DEF TableInv, TableAt, Ascending
    <3>2. ~(k < i) /\ ~(i < k)
      BY <1>1, <2>4, <3>1
    <3> QED
      BY <1>1, <3>2
  <2>6. [block |-> PageFor(s, p, isPrefill), slot |-> SlotOf(p),
         prefix |-> SubSeq(tokens[s], 1, p)] \in KVWrites({s}, isPrefill)
    BY <2>1 DEF KVWrites
  <2>7. kv[PageFor(s, p, isPrefill)][SlotOf(p)] = SubSeq(tokens[s], 1, p)
    BY <2>6
  <2> QED
    BY <1>2, <2>2, <2>5, <2>7
<1> QED
  BY <1>1, <1>3, <1>4


\* What postprocess leaves of the request's counters and tokens.
LEMMA PostprocessCounters ==
    ASSUME IndInv, NEW s \in Seqs, NEW isPrefill \in BOOLEAN, NEW x \in Token,
           Postprocess(s, isPrefill, x)
    PROVE  /\ numCached[s] \in Nat /\ numScheduled[s] \in Nat /\ numScheduled[s] > 0
           /\ numCached[s] + numScheduled[s] <= Len(tokens[s]) /\ Len(tokens[s]) \in Nat
           /\ numCached'[s] = numCached[s] + numScheduled[s]
           /\ numPhysical'[s] = numPhysical[s] + numScheduled[s] /\ numScheduled'[s] = 0
           /\ compressed[s] => NewestMissing(s) /\ numScheduled[s] = 1
           /\ \/ tokens'[s] = tokens[s] /\ ~compressed[s]
              \/ /\ tokens'[s] = Append(tokens[s], x)
                 /\ numCached[s] + numScheduled[s] = Len(tokens[s])
           /\ tokens'[s] \in Seq(Token)
           /\ SeqTyped' /\ \A q \in Seqs \ {s} : Untouched(q)
<1>1. TypeOK /\ TableInv /\ SeqTyped /\ tokens[s] \in Seq(Token)
  BY SeqTypes DEF IndInv, TypeOK
<1>2. /\ numScheduled[s] # 0
      /\ IF isPrefill THEN ~compressed[s] ELSE NewestMissing(s)
      /\ numCached' = [numCached EXCEPT ![s] = numCached[s] + numScheduled[s]]
      /\ numPhysical' = [numPhysical EXCEPT ![s] = numPhysical[s] + numScheduled[s]]
      /\ numScheduled' = [numScheduled EXCEPT ![s] = 0]
      /\ tokens' = IF isPrefill /\ numCached[s] + numScheduled[s] < Len(tokens[s])
                   THEN tokens
                   ELSE [tokens EXCEPT ![s] = Append(tokens[s], x)]
      /\ blockTable' = blockTable /\ logical' = logical /\ compressed' = compressed
  BY DEF Postprocess, PostprocessOp, Idle
<1>3. /\ numCached[s] \in Nat /\ numScheduled[s] \in Nat /\ numPhysical[s] \in Nat
      /\ numCached[s] + numScheduled[s] <= Len(tokens[s]) /\ Len(tokens[s]) \in Nat
      /\ compressed[s] => Thinned(s)
  BY <1>1, TableAtUse, TableSizes
<1>4. /\ numCached'[s] = numCached[s] + numScheduled[s]
      /\ numPhysical'[s] = numPhysical[s] + numScheduled[s] /\ numScheduled'[s] = 0
  BY <1>1, <1>2 DEF TypeOK
<1>5. compressed[s] => NewestMissing(s) /\ numScheduled[s] = 1
  BY <1>2, <1>3 DEF Thinned
<1>6. Append(tokens[s], x) \in Seq(Token)
  BY <1>1, AppendProperties
<1>7. \/ tokens'[s] = tokens[s] /\ ~compressed[s]
      \/ /\ tokens'[s] = Append(tokens[s], x)
         /\ numCached[s] + numScheduled[s] = Len(tokens[s])
  <2>1. CASE isPrefill /\ numCached[s] + numScheduled[s] < Len(tokens[s])
    BY <1>2, <2>1
  <2>2. CASE ~(isPrefill /\ numCached[s] + numScheduled[s] < Len(tokens[s]))
    <3>1. tokens'[s] = Append(tokens[s], x)
      BY <1>1, <1>2, <2>2 DEF TypeOK
    <3>2. numCached[s] + numScheduled[s] = Len(tokens[s])
      BY <1>2, <1>3, <2>2 DEF NewestMissing
    <3> QED
      BY <3>1, <3>2
  <2> QED
    BY <2>1, <2>2
<1>8. SeqTyped'
  <2>1. tokens' \in [Seqs -> Seq(Token)]
    BY <1>1, <1>2, <1>6 DEF TypeOK
  <2>2. /\ numCached' \in [Seqs -> Nat] /\ numPhysical' \in [Seqs -> Nat]
        /\ numScheduled' \in [Seqs -> Nat]
    BY <1>1, <1>2, <1>3 DEF TypeOK
  <2> QED
    BY <1>1, <1>2, <2>1, <2>2 DEF SeqTyped
<1>9. \A q \in Seqs \ {s} : Untouched(q)
  BY <1>1, <1>2 DEF Untouched, TypeOK
<1>10. tokens'[s] \in Seq(Token)
  BY <1>8 DEF SeqTyped
<1> QED
  BY <1>2, <1>3, <1>4, <1>5, <1>7, <1>8, <1>9, <1>10

LEMMA PostprocessTable ==
    ASSUME IndInv, NEW s \in Seqs, NEW isPrefill \in BOOLEAN, NEW x \in Token,
           Postprocess(s, isPrefill, x)
    PROVE  TableAt(s)'
<1>1. TypeOK /\ TableInv /\ TableAt(s)
  BY DEF IndInv, TableInv
<1>2. /\ numCached[s] \in Nat /\ numScheduled[s] \in Nat /\ numScheduled[s] > 0
      /\ numCached[s] + numScheduled[s] <= Len(tokens[s]) /\ Len(tokens[s]) \in Nat
      /\ numCached'[s] = numCached[s] + numScheduled[s]
      /\ numPhysical'[s] = numPhysical[s] + numScheduled[s] /\ numScheduled'[s] = 0
      /\ compressed[s] => NewestMissing(s) /\ numScheduled[s] = 1
      /\ \/ tokens'[s] = tokens[s] /\ ~compressed[s]
         \/ /\ tokens'[s] = Append(tokens[s], x)
            /\ numCached[s] + numScheduled[s] = Len(tokens[s])
  BY PostprocessCounters
<1>3. /\ Len(tokens[s]) > 0 /\ tokens[s] \in Seq(Token) /\ numPhysical[s] \in Nat
      /\ Retained(s) \in Nat
  BY <1>1, TableSizes DEF TypeOK
<1>4. Len(Append(tokens[s], x)) = Len(tokens[s]) + 1
  BY <1>3, AppendProperties
<1>5. /\ Len(tokens'[s]) \in Nat /\ Len(tokens'[s]) >= Len(tokens[s])
      /\ compressed[s] => Len(tokens'[s]) = Len(tokens[s]) + 1
  BY <1>2, <1>4
<1>6. blockTable' = blockTable /\ logical' = logical /\ compressed' = compressed
  BY DEF Postprocess, PostprocessOp
<1>7. Retained(s)' = Retained(s) /\ Ascending(s)'
  BY <1>1, <1>6 DEF TableAt, Ascending, Retained
<1>8. CASE compressed[s]
  <2>1. /\ Thinned(s) /\ NewestMissing(s) /\ numScheduled[s] = 1
    BY <1>1, <1>2, <1>8, TableAtUse
  <2>2. (numPhysical[s] + 1) % BlockSize = (numCached[s] + 1) % BlockSize
    BY <1>2, <1>3, <2>1, ModStep DEF Thinned
  <2>3. numCached'[s] + 1 = Len(tokens'[s])
    BY <1>2, <1>5, <1>8, <2>1 DEF NewestMissing
  <2>4. /\ numCached'[s] + numScheduled'[s] = numCached[s] + numScheduled[s]
        /\ numPhysical'[s] + numScheduled'[s] = numPhysical[s] + numScheduled[s]
    BY <1>2, <1>3
  <2>5. Thinned(s)'
    BY <1>2, <1>6, <1>7, <2>1, <2>2, <2>3, <2>4 DEF Thinned, NewestMissing
  <2> QED
    BY <1>2, <1>3, <1>5, <1>6, <1>7, <1>8, <2>5 DEF TableAt
<1>9. CASE ~compressed[s]
  <2>1. /\ \A i \in 1..Retained(s) : logical[s][i] = i
        /\ numPhysical[s] = numCached[s] /\ Retained(s) = NumBlocks(s)
    BY <1>1, <1>2, <1>9, TableAtUse
  <2>2. Retained(s) <= NumBlocks(s)'
    BY <1>2, <1>5, <2>1, PagesGrow DEF NumBlocks
  <2>3. numCached'[s] <= Retained(s) * BlockSize
    <3>1. Len(tokens[s]) <= Retained(s) * BlockSize
      BY <1>1, <2>1, TableSizes
    <3>2. PICK y \in Nat : y = Retained(s) * BlockSize
      BY <1>3, PageOrder
    <3> QED
      BY <1>2, <3>1, <3>2
  <2>4. Whole(s)'
    BY <1>2, <1>6, <1>7, <2>1, <2>2, <2>3 DEF Whole
  <2> QED
    BY <1>2, <1>3, <1>5, <1>6, <1>7, <1>9, <2>4 DEF TableAt
<1> QED
  BY <1>8, <1>9

LEMMA PostprocessStep ==
    ASSUME IndInv, NEW s \in Seqs, NEW isPrefill \in BOOLEAN, NEW x \in Token,
           Postprocess(s, isPrefill, x)
    PROVE  IndInv'
<1>1. TypeOK /\ TableInv /\ PoolConsistent /\ IntactAt(s)
  BY IntactSplit DEF IndInv
<1>2. /\ numCached[s] \in Nat /\ numScheduled[s] \in Nat /\ numScheduled[s] > 0
      /\ numCached[s] + numScheduled[s] <= Len(tokens[s]) /\ Len(tokens[s]) \in Nat
      /\ numCached'[s] = numCached[s] + numScheduled[s]
      /\ compressed[s] => NewestMissing(s) /\ numScheduled[s] = 1
      /\ \/ tokens'[s] = tokens[s]
         \/ tokens'[s] = Append(tokens[s], x)
      /\ SeqTyped' /\ \A q \in Seqs \ {s} : Untouched(q)
  BY PostprocessCounters
<1>3. TableAt(s)'
  BY PostprocessTable
<1>4. /\ InMode(s, isPrefill) /\ HashBlocks(s) /\ kv' = kv
      /\ \A w \in KVWrites({s}, isPrefill) : kv[w.block][w.slot] = w.prefix
      /\ UNCHANGED <<blockTable, logical, compressed, freeBlocks, usedBlocks, refCount>>
  BY DEF Postprocess, PostprocessOp, InMode
<1>5. \A p \in 0..numCached'[s] : SubSeq(tokens'[s], 1, p) = SubSeq(tokens[s], 1, p)
  <2> SUFFICES ASSUME NEW p \in 0..numCached'[s], tokens'[s] = Append(tokens[s], x)
               PROVE  SubSeq(tokens'[s], 1, p) = SubSeq(tokens[s], 1, p)
    BY <1>2
  <2>1. p \in 0..Len(tokens[s]) /\ tokens[s] \in Seq(Token)
    BY <1>1, <1>2 DEF TypeOK
  <2> QED
    BY <2>1, PrefixOfAppend
<1>6. IntactAfter(s)
  BY <1>1, <1>2, <1>4, RanIntact
<1>7. \A lo, hi : Written(s, lo, hi)
  BY <1>1, <1>4 DEF Written, TypeOK
<1>8. CASE compressed[s]
  <2>1. blockHash' = blockHash /\ index' = index
    BY <1>4, <1>8 DEF HashBlocks
  <2>2. Published(s, 1, 0)
    BY <1>1, <2>1 DEF Published, TypeOK
  <2>3. Counts(s, 1, 0)
    <3>1. 0 * BlockSize = 0 /\ Retained(s) \in Nat
      BY <1>1, TableSizes, BlockSizeAssumption
    <3> QED
      BY <1>2, <1>5, <1>8, <3>1 DEF Counts
  <2> QED
    BY <1>2, <1>3, <1>4, <1>6, <1>7, <2>2, <2>3, PublishKeeps
<1>9. CASE ~compressed[s]
  <2>1. PICK d, hi : d = numCached[s] \div BlockSize
                     /\ hi = (numCached[s] + numScheduled[s]) \div BlockSize
    OBVIOUS
  <2>2. Published(s, d + 1, hi)
    BY <1>2, <1>4, <1>9, <2>1, HashPublishes
  <2>3. /\ d \in Nat /\ hi \in Nat /\ d <= hi /\ hi <= Retained(s)
        /\ numCached[s] < (d + 1) * BlockSize
        /\ hi * BlockSize <= numCached[s] + numScheduled[s]
        /\ numCached[s] + numScheduled[s] < (hi + 1) * BlockSize
    BY <1>1, <1>2, <1>9, <2>1, CompletedPages
  <2>4. ASSUME NEW i \in (d + 1)..hi PROVE i * BlockSize > numCached[s]
    <3>1. (d + 1) * BlockSize <= i * BlockSize /\ i * BlockSize \in Nat
          /\ (d + 1) * BlockSize \in Nat
      BY <2>3, PageOrder
    <3>2. PICK y \in Nat, z \in Nat : y = (d + 1) * BlockSize /\ z = i * BlockSize
      BY <3>1
    <3> QED
      BY <1>2, <2>3, <3>1, <3>2
  <2>5. Counts(s, d + 1, hi)
    BY <1>2, <1>5, <1>9, <2>3, <2>4 DEF Counts
  <2> QED
    BY <1>2, <1>3, <1>4, <1>6, <1>7, <2>2, <2>5, PublishKeeps
<1> QED
  BY <1>8, <1>9


---------------------------------------------------------------------------
(* The inductive invariant *)

\* can_allocate and can_resume only write the two plan dictionaries.
LEMMA PlanStep ==
    ASSUME IndInv, UNCHANGED <<seqVars, poolVars, kv>>
    PROVE  IndInv'
<1>1. /\ UNCHANGED <<tokens, blockTable, numCached, numPhysical, numScheduled, logical,
                     compressed>>
      /\ UNCHANGED <<poolVars, kv>>
  BY DEF seqVars
<1>2. SeqTyped /\ TableInv
  BY SeqTypes DEF IndInv
<1>3. SeqTyped'
  BY <1>1, <1>2 DEF SeqTyped
<1>4. ASSUME NEW q \in Seqs PROVE TableAt(q)'
  <2>1. Untouched(q)
    BY <1>1 DEF Untouched
  <2> QED
    BY <1>2, <2>1, UntouchedTable DEF TableInv
<1> QED
  BY <1>1, <1>3, <1>4, SamePool

LEMMA InitHolds ==
    ASSUME BMInit
    PROVE  IndInv
<1>1. /\ \A s \in Seqs : Prompt[s] \in Seq(Token) /\ Prompt[s] # <<>>
      /\ Prompt \in [Seqs -> Seq(Token)]
  BY PromptAssumption
<1>2. /\ <<>> \in Seq(Token) /\ <<>> \in Seq(Blocks) /\ <<>> \in Seq(Nat)
      /\ Len(<<>>) = 0
  BY EmptySeq
<1>3. Junk \in Slots
  BY <1>2 DEF Junk, Slots
<1>4. DOMAIN index = {} /\ Range(index) = {}
  BY DEF BMInit, Range
<1>5. TypeOK
  <2>1. /\ tokens \in [Seqs -> Seq(Token)]
        /\ blockTable \in [Seqs -> Seq(Blocks)] /\ logical \in [Seqs -> Seq(Nat)]
        /\ numCached \in [Seqs -> Nat] /\ numPhysical \in [Seqs -> Nat]
        /\ numScheduled \in [Seqs -> Nat] /\ compressed \in [Seqs -> BOOLEAN]
    BY <1>1, <1>2 DEF BMInit
  <2>2. /\ freeBlocks \subseteq Blocks /\ usedBlocks \subseteq Blocks
        /\ refCount \in [Blocks -> Nat] /\ blockHash \in [Blocks -> Seq(Token)]
        /\ kv \in [Blocks -> Slots]
    BY <1>2, <1>3 DEF BMInit, NoHash
  <2>3. index \in [DOMAIN index -> Blocks] /\ DOMAIN index \subseteq Seq(Token)
    <3>1. index = [k \in DOMAIN index |-> index[k]]
      BY DEF BMInit
    <3> QED
      BY <1>4, <3>1
  <2> QED
    BY <2>1, <2>2, <2>3 DEF TypeOK
<1>6. \A s \in Seqs : Retained(s) = 0 /\ DOMAIN blockTable[s] = {} /\ Range(blockTable[s]) = {}
  BY <1>2 DEF BMInit, Retained, Range
<1>7. PoolConsistent
  <2>1. \A b \in Blocks : Holders(b) = {}
    BY <1>6 DEF Holders
  <2>2. \A b \in Blocks : refCount[b] = Cardinality(Holders(b)) /\ refCount[b] = 0
                          /\ b \in freeBlocks
    BY <2>1, FS_EmptySet DEF BMInit
  <2>3. \A s \in Seqs : IsInjective(blockTable[s])
    BY <1>6 DEF IsInjective
  <2> QED
    BY <2>2, <2>3 DEF BMInit, PoolConsistent
<1>8. TableInv
  <2> SUFFICES ASSUME NEW s \in Seqs PROVE TableAt(s)
    BY DEF TableInv
  <2>1. Len(tokens[s]) \in Nat /\ Len(tokens[s]) > 0
    <3>1. tokens[s] \in Seq(Token) /\ tokens[s] # <<>>
      BY <1>1 DEF BMInit
    <3>2. Len(tokens[s]) \in Nat /\ Len(tokens[s]) # 0
      BY <3>1, EmptySeq, LenProperties
    <3> QED
      BY <3>2
  <2>2. /\ numCached[s] = 0 /\ numPhysical[s] = 0 /\ numScheduled[s] = 0
        /\ compressed[s] = FALSE /\ Len(logical[s]) = 0 /\ Retained(s) = 0
    BY <1>2, <1>6 DEF BMInit
  <2>3. NumBlocks(s) \in Nat /\ 0 * BlockSize = 0
    <3>1. NumBlocks(s) \in Nat
      BY <2>1, PagesBounds DEF NumBlocks
    <3>2. 0 * BlockSize = 0
      BY BlockSizeAssumption
    <3> QED
      BY <3>1, <3>2
  <2>4. Ascending(s)
    BY <2>2 DEF Ascending
  <2>5. Whole(s)
    BY <2>2, <2>3 DEF Whole
  <2> QED
    BY <2>1, <2>2, <2>4, <2>5 DEF TableAt
<1>9. OpenPagesPrivate /\ HashesAgree /\ IndexedPageIntact
  BY <1>4, <1>6 DEF OpenPagesPrivate, PrivateAt, HashesAgree, HashedAt, IndexHashed,
                    IndexedPageIntact
<1>10. CachedPrefixIntact
  BY <1>6 DEF CachedPrefixIntact
<1> QED
  BY <1>5, <1>7, <1>8, <1>9, <1>10 DEF IndInv

LEMMA NextKeeps ==
    ASSUME IndInv, [BMNext]_bmVars
    PROVE  IndInv'
<1>1. CASE UNCHANGED bmVars
  BY <1>1, PlanStep DEF bmVars
<1>2. CASE \E S \in SUBSET Seqs, p \in BOOLEAN : Run(S, p)
  BY <1>2, BatchStep
<1>3. CASE \E s \in Seqs : PlanAllocation(s) \/ PlanResume(s)
  <2>1. UNCHANGED <<seqVars, poolVars, kv>>
    BY <1>3 DEF PlanAllocation, PlanResume, CanAllocateOp, ForgetPlanOp, CanResumeOp,
                CannotResumeOp
  <2> QED
    BY <2>1, PlanStep
<1>4. CASE \E s \in Seqs : Resume(s)
  BY <1>4, ResumeStep
<1>5. CASE \E s \in Seqs : Deallocate(s)
  BY <1>5, DeallocateStep
<1>6. CASE \E s \in Seqs : Cancel(s)
  BY <1>6, CancelStep
<1>7. CASE \E s \in Seqs : MayAppend(s)
  BY <1>7, MayAppendStep
<1>8. CASE \E s \in Seqs : \E n \in 0..CacheableBlocks(s), k \in 0..MaxLen : Allocate(s, n, k)
  <2>1. PICK s \in Seqs : \E n \in 0..CacheableBlocks(s), k \in 0..MaxLen : Allocate(s, n, k)
    BY <1>8
  <2>2. PICK n \in 0..CacheableBlocks(s), k \in 0..MaxLen : Allocate(s, n, k)
    BY <2>1
  <2>3. k \in Nat
    BY MaxLenAssumption
  <2> QED
    BY <2>2, <2>3, AllocateStep
<1>9. CASE \E s \in Seqs : \E n \in 1..CacheableBlocks(s) : CommitRestoredPrefix(s, n)
  BY <1>9, CommitStep
<1>10. CASE \E s \in Seqs : \E keep \in 0..Retained(s) : ReclaimSuffix(s, keep)
  BY <1>10, ReclaimStep
<1>11. CASE \E s \in Seqs : \E keep \in KeepLists(Retained(s)) : Compress(s, keep)
  BY <1>11, CompressStep
<1>12. CASE \E s \in Seqs : \E k \in 1..MaxLen : Schedule(s, k)
  <2>1. PICK s \in Seqs, k \in 1..MaxLen : Schedule(s, k)
    BY <1>12
  <2>2. k \in Nat
    BY MaxLenAssumption
  <2> QED
    BY <2>1, <2>2, ScheduleStep
<1>13. CASE \E s \in Seqs : \E p \in BOOLEAN, t \in Sampled : Postprocess(s, p, t)
  <2>1. PICK s \in Seqs, p \in BOOLEAN, t \in Sampled : Postprocess(s, p, t)
    BY <1>13
  <2>2. t \in Token
    BY SampledAssumption
  <2> QED
    BY <2>1, <2>2, PostprocessStep
<1> QED
  BY <1>1, <1>2, <1>3, <1>4, <1>5, <1>6, <1>7, <1>8, <1>9, <1>10, <1>11, <1>12, <1>13,
     Zenon DEF BMNext

---------------------------------------------------------------------------
(* What follows from it *)

LEMMA PrivateWrites ==
    ASSUME IndInv
    PROVE  WritesArePrivate
<1> SUFFICES ASSUME NEW s \in Seqs, NEW p \in ScheduledPositions(s)
             PROVE  /\ Holders(PageFor(s, p, ~compressed[s])) = {s}
                    /\ PageFor(s, p, ~compressed[s]) \notin Range(index)
  BY DEF WritesArePrivate
<1>1. TypeOK /\ TableInv /\ PrivateAt(s)
  BY DEF IndInv, OpenPagesPrivate
<1>2. PICK m \in BOOLEAN : m = ~compressed[s]
  OBVIOUS
<1>3. InMode(s, m)
  <2>1. compressed[s] => NewestMissing(s)
    BY <1>1, TableAtUse DEF Thinned
  <2> QED
    BY <1>2, <2>1 DEF InMode
<1>4. /\ p \in Nat /\ p > numCached[s] /\ SlotOf(p) \in 1..BlockSize
      /\ \E i \in 1..Retained(s) : /\ PageFor(s, p, m) = blockTable[s][i]
                                   /\ p = (logical[s][i] - 1) * BlockSize + SlotOf(p)
  BY <1>1, <1>3, WriteTarget
<1>5. PICK i \in 1..Retained(s) : /\ PageFor(s, p, m) = blockTable[s][i]
                                  /\ p = (logical[s][i] - 1) * BlockSize + SlotOf(p)
  BY <1>4
<1>6. /\ HeldBy(blockTable, blockTable[s][i]) = {s} /\ blockTable[s][i] \notin Range(index)
  BY <1>1, <1>4, <1>5, WritePrivate
<1> QED
  BY <1>2, <1>5, <1>6 DEF Holders, HeldBy

LEMMA WindowFits ==
    ASSUME IndInv
    PROVE  AttentionWindow
<1> SUFFICES ASSUME NEW s \in Seqs, ~Idle(s), NewestMissing(s)
             PROVE  /\ (numPhysical[s] \div BlockSize) + 1 = Retained(s)
                    /\ SlotOf(numPhysical[s] + 1) = SlotOf(Len(tokens[s]))
  BY DEF AttentionWindow
<1>1. TypeOK /\ TableInv
  BY DEF IndInv
<1>2. /\ numCached[s] \in Nat /\ numPhysical[s] \in Nat /\ numScheduled[s] \in Nat
      /\ numCached[s] + numScheduled[s] <= Len(tokens[s]) /\ Len(tokens[s]) \in Nat
      /\ numScheduled[s] # 0 /\ numCached[s] + 1 = Len(tokens[s])
  BY <1>1, TableAtUse, TableSizes DEF Idle, NewestMissing
<1>3. numScheduled[s] = 1
  BY <1>2
<1>4. /\ Retained(s) = Pages(numPhysical[s] + 1)
      /\ numPhysical[s] % BlockSize = numCached[s] % BlockSize
  <2>1. CASE compressed[s]
    BY <1>1, <1>3, <2>1, TableAtUse DEF Thinned
  <2>2. CASE ~compressed[s]
    BY <1>1, <1>2, <1>3, <2>2, TableAtUse DEF NumBlocks
  <2> QED
    BY <2>1, <2>2
<1>5. (numPhysical[s] + 1) - 1 = numPhysical[s] /\ Len(tokens[s]) - 1 = numCached[s]
  BY <1>2, SMTT(30)
<1>6. Pages(numPhysical[s] + 1) = ((numPhysical[s] + 1) - 1) \div BlockSize + 1
  <2>1. numPhysical[s] + 1 \in Nat /\ numPhysical[s] + 1 >= 1
    BY <1>2
  <2> QED
    BY <2>1, SlotBounds
<1> QED
  BY <1>4, <1>5, <1>6 DEF SlotOf

---------------------------------------------------------------------------
(* Theorems *)

\* The parts of the inductive invariant hold together in every state that any
\* client respecting the callers' obligations of the BlockManager can reach.
THEOREM Invariance == BMSpec => []IndInv
<1>1. BMInit => IndInv
  BY InitHolds
<1>2. IndInv /\ [BMNext]_bmVars => IndInv'
  BY NextKeeps
<1> QED
  BY <1>1, <1>2, PTL DEF BMSpec

\* No page is leaked, freed twice or freed while a table still maps it, for any
\* number of requests and pages: _allocate_block, _claim_cached_block,
\* deallocate, reclaim_suffix and the compressions keep the two pools and
\* ref_count exact.
THEOREM PoolStaysConsistent == BMSpec => []PoolConsistent
<1>1. IndInv => PoolConsistent
  BY DEF IndInv
<1> QED
  BY <1>1, Invariance, PTL

\* Whatever was shared, preempted, restored, compressed or recycled, every
\* token counted in num_cached_tokens has its own KV in the slot that
\* prepare_prefill and prepare_decode let attention read.
THEOREM CachedPrefixesStayIntact == BMSpec => []CachedPrefixIntact
<1>1. IndInv => CachedPrefixIntact
  BY DEF IndInv
<1> QED
  BY <1>1, Invariance, PTL

\* A page the hash dict or the radix tree offers holds the KV of exactly the
\* prefix it is indexed under, as long as it is offered.
THEOREM OfferedPagesStayIntact == BMSpec => []IndexedPageIntact
<1>1. IndInv => IndexedPageIntact
  BY DEF IndInv
<1> QED
  BY <1>1, Invariance, PTL

\* The slot_mapping of the next batch points only into pages that no other
\* request maps and the prefix cache does not offer.
THEOREM WritesStayPrivate == BMSpec => []WritesArePrivate
<1>1. IndInv => WritesArePrivate
  BY PrivateWrites
<1> QED
  BY <1>1, Invariance, PTL

\* context_lens and the slot of a decode step agree with the table, also when
\* pages were dropped from its middle.
THEOREM WindowStaysAligned == BMSpec => []AttentionWindow
<1>1. IndInv => AttentionWindow
  BY WindowFits
<1> QED
  BY <1>1, Invariance, PTL

=============================================================================
