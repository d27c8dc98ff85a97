-------------------------- MODULE RadixCacheProofs --------------------------
(***************************************************************************)
(* Proofs about RadixCache, for any keys, block ids and depth: after every *)
(* iteration of every loop the tree is linked, block_locations is its      *)
(* inverse and last_access is a linear order; the tree implements the      *)
(* prefix map; match finds the longest prefix; an eviction costs one page. *)
(* No finite bound and no recursion: what is under a node is told by its   *)
(* path, and a node by its depth.                                          *)
(***************************************************************************)
EXTENDS RadixCache, SequenceTheorems, FiniteSetTheorems, WellFoundedInduction, TLAPS

---------------------------------------------------------------------------
(* Sequences *)

\* A non-empty set of naturals has a least member.
LEMMA Least ==
    ASSUME NEW S, S \subseteq Nat, S # {}
    PROVE  \E n \in S : \A m \in S : n <= m
<1> DEFINE R == {p \in Nat \X Nat : p[1] < p[2]}
<1>1. IsWellFoundedOn(R, Nat)
  BY NatLessThanWellFounded, Zenon DEF OpToRel
<1> HIDE DEF R
<1>2. PICK n \in S : \A y \in S : ~(<<y, n>> \in R)
  BY <1>1, WFMin, Zenon
<1>3. \A y \in S : ~(y < n)
  BY <1>2 DEF R
<1> QED
  BY <1>3

\* A function on 1..n is a sequence of length n.
LEMMA FunctionIsSeq ==
    ASSUME NEW S, NEW n \in Nat, NEW f \in [1..n -> S]
    PROVE  f \in Seq(S) /\ Len(f) = n
  BY SeqDef, LenProperties

\* The first n members of a sequence.
LEMMA FirstPart ==
    ASSUME NEW S, NEW s \in Seq(S), NEW n \in 0..Len(s)
    PROVE  /\ SubSeq(s, 1, n) \in Seq(S) /\ Len(SubSeq(s, 1, n)) = n
           /\ \A i \in 1..n : SubSeq(s, 1, n)[i] = s[i]
<1>1. Len(s) \in Nat /\ \A i \in 1..n : s[i] \in S
  BY LenProperties
<1> QED
  BY <1>1, SubSeqProperties

\* The members after the first n.
LEMMA LastPart ==
    ASSUME NEW S, NEW s \in Seq(S), NEW n \in 0..Len(s)
    PROVE  /\ From(s, n + 1) \in Seq(S) /\ Len(From(s, n + 1)) = Len(s) - n
           /\ \A i \in 1..(Len(s) - n) : From(s, n + 1)[i] = s[n + i]
<1>1. Len(s) \in Nat /\ \A i \in (n + 1)..Len(s) : s[i] \in S
  BY LenProperties
<1>2. /\ From(s, n + 1) \in Seq(S)
      /\ Len(From(s, n + 1)) = IF n + 1 <= Len(s) THEN Len(s) - (n + 1) + 1 ELSE 0
      /\ \A i \in 1..(Len(s) - (n + 1) + 1) : From(s, n + 1)[i] = s[(n + 1) + i - 1]
  BY <1>1, SubSeqProperties DEF From
<1>3. PICK m \in Nat : m = Len(s)
  BY <1>1
<1>4. (IF n + 1 <= m THEN m - (n + 1) + 1 ELSE 0) = m - n /\ m - (n + 1) + 1 = m - n
  BY <1>3
<1>5. \A i \in 1..(m - n) : (n + 1) + i - 1 = n + i
  BY <1>3
<1> QED
  BY <1>2, <1>3, <1>4, <1>5

Agree(s, t, n) == \A i \in 1..n : s[i] = t[i]

\* Equal prefixes are prefixes that agree.
LEMMA EqualParts ==
    ASSUME NEW S, NEW s \in Seq(S), NEW t \in Seq(S),
           NEW n \in 0..Len(s), n <= Len(t)
    PROVE  SubSeq(s, 1, n) = SubSeq(t, 1, n) <=> Agree(s, t, n)
<1>0. n \in 0..Len(t)
  BY LenProperties
<1>1. /\ SubSeq(s, 1, n) \in Seq(S) /\ Len(SubSeq(s, 1, n)) = n
      /\ \A i \in 1..n : SubSeq(s, 1, n)[i] = s[i]
  BY FirstPart
<1>2. /\ SubSeq(t, 1, n) \in Seq(S) /\ Len(SubSeq(t, 1, n)) = n
      /\ \A i \in 1..n : SubSeq(t, 1, n)[i] = t[i]
  BY <1>0, FirstPart
<1>3. ASSUME Agree(s, t, n) PROVE SubSeq(s, 1, n) = SubSeq(t, 1, n)
  <2>1. \A i \in 1..n : SubSeq(s, 1, n)[i] = SubSeq(t, 1, n)[i]
    BY <1>1, <1>2, <1>3 DEF Agree
  <2> QED
    BY <1>1, <1>2, <2>1, SeqEqual
<1>4. ASSUME SubSeq(s, 1, n) = SubSeq(t, 1, n) PROVE Agree(s, t, n)
  BY <1>1, <1>2, <1>4 DEF Agree
<1> QED
  BY <1>3, <1>4

\* IsPrefix, as agreement up to the shorter length.
LEMMA PrefixAgrees ==
    ASSUME NEW S, NEW s \in Seq(S), NEW t \in Seq(S)
    PROVE  IsPrefix(s, t) <=> Len(s) <= Len(t) /\ Agree(s, t, Len(s))
<1>1. Len(s) \in 0..Len(s)
  BY LenProperties
<1>2. ASSUME Len(s) <= Len(t)
      PROVE  SubSeq(s, 1, Len(s)) = SubSeq(t, 1, Len(s)) <=> Agree(s, t, Len(s))
  BY <1>1, <1>2, EqualParts
<1> QED
  BY <1>2 DEF IsPrefix

\* _common_prefix_length returns where two sequences part.
LEMMA CommonPart ==
    ASSUME NEW S, NEW s \in Seq(S), NEW t \in Seq(S)
    PROVE  LET n == CommonPrefixLength(s, t)
           IN  /\ n \in 0..Len(s) /\ n <= Len(t)
               /\ \A i \in 1..n : s[i] = t[i]
               /\ n < Len(s) /\ n < Len(t) => s[n + 1] # t[n + 1]
<1> DEFINE Q(n) == /\ n <= Len(t) /\ \A i \in 1..n : s[i] = t[i]
                   /\ n < Len(s) /\ n < Len(t) => s[n + 1] # t[n + 1]
           T == {n \in Nat : n = Len(s) \/ n = Len(t) \/ s[n + 1] # t[n + 1]}
<1>1. Len(s) \in Nat /\ Len(t) \in Nat
  BY LenProperties
<1>2. T \subseteq Nat /\ T # {}
  BY <1>1
<1>3. PICK n \in T : \A m \in T : n <= m
  <2> HIDE DEF T
  <2> QED
    BY <1>2, Least
<1>4. n \in 0..Len(s) /\ n <= Len(t)
  BY <1>1, <1>3
<1>5. \A i \in 1..n : s[i] = t[i]
  <2> SUFFICES ASSUME NEW i \in 1..n, s[i] # t[i] PROVE FALSE
    OBVIOUS
  <2>1. i - 1 \in Nat /\ (i - 1) + 1 = i /\ i - 1 < n
    BY <1>3
  <2>2. i - 1 \in T
    BY <2>1
  <2>3. n \in Nat
    BY <1>3
  <2> HIDE DEF T
  <2> QED
    BY <1>3, <2>1, <2>2, <2>3
<1>6. Q(n)
  BY <1>3, <1>4, <1>5
<1> HIDE DEF T
<1>7. \E k \in 0..Len(s) : Q(k)
  BY <1>4, <1>6
<1>8. CommonPrefixLength(s, t) = CHOOSE k \in 0..Len(s) : Q(k)
  BY DEF CommonPrefixLength
<1> HIDE DEF Q
<1>9. CommonPrefixLength(s, t) \in 0..Len(s) /\ Q(CommonPrefixLength(s, t))
  BY <1>7, <1>8, Zenon
<1> QED
  BY <1>9 DEF Q

---------------------------------------------------------------------------
(* The inductive invariant *)

TreeTyped ==
    /\ Root \in Nodes /\ Nodes \subseteq Nat /\ IsFiniteSet(Nodes)
    /\ edge \in [Nodes -> Seq(Keys)] /\ ids \in [Nodes -> Seq(Ids)]
    /\ parent \in [Nodes -> Nodes] /\ path \in [Nodes -> Seq(Keys)]
    /\ DOMAIN children = Nodes
    /\ \A n \in Nodes : /\ DOMAIN children[n] \subseteq Keys
                        /\ children[n] \in [DOMAIN children[n] -> Inner]
    /\ older \in [Inner -> SUBSET Inner]
    /\ DOMAIN locations \subseteq Ids
    /\ locations \in [DOMAIN locations -> [node : Inner, at : Nat]]

CallTyped ==
    /\ op \in {"idle", "match", "matched", "insert", "compress"}
    /\ keys \in Seq(Keys) /\ blocks \in Seq(Ids) /\ matched \in Seq(Ids)
    /\ node \in Nodes /\ position \in 0..Len(keys)

TypeOK == TreeTyped /\ CallTyped

\* The root has no edge; the path of any other node is its parent's path and
\* its own edge, and its parent knows it by the first key of that edge.
Rooted == /\ parent[Root] = Root
          /\ Len(edge[Root]) = 0 /\ Len(ids[Root]) = 0 /\ Len(path[Root]) = 0

Depth(n) == Len(path[n])
Size(n)  == Len(edge[n])

LinkedUp(n) ==
    /\ Size(n) > 0 /\ Len(ids[n]) = Size(n)
    /\ Depth(n) = Depth(parent[n]) + Size(n)
    /\ Agree(path[n], path[parent[n]], Depth(parent[n]))
    /\ \A i \in 1..Size(n) : path[n][Depth(parent[n]) + i] = edge[n][i]
    /\ edge[n][1] \in DOMAIN children[parent[n]]
    /\ children[parent[n]][edge[n][1]] = n

LinkedDown(n) ==
    \A k \in DOMAIN children[n] : parent[children[n][k]] = n /\ edge[children[n][k]][1] = k

LinkInv == Rooted /\ (\A n \in Inner : LinkedUp(n)) /\ (\A n \in Nodes : LinkedDown(n))

\* block_locations is the inverse of the nodes' block ids.
LocationInv ==
    /\ \A n \in Inner : \A i \in 1..Len(ids[n]) :
          /\ ids[n][i] \in DOMAIN locations
          /\ locations[ids[n][i]].node = n /\ locations[ids[n][i]].at = i
    /\ \A b \in DOMAIN locations :
          /\ locations[b].at \in 1..Len(ids[locations[b].node])
          /\ ids[locations[b].node][locations[b].at] = b

\* The order of last_access is a strict linear order.
OrderInv ==
    /\ \A n \in Inner : n \notin older[n]
    /\ \A m, n \in Inner : m # n => m \in older[n] \/ n \in older[m]
    /\ \A m, n \in Inner : m \in older[n] => older[m] \subseteq older[n]

\* What the loops know: the node reached is the one for the first position
\* keys, and match has collected their blocks.
CallInv ==
    /\ op \in {"match", "insert"} =>
          keys \in Paths /\ Depth(node) = position /\ Agree(path[node], keys, position)
    /\ op \in {"match", "matched"} =>
          /\ Len(matched) = position
          /\ \A i \in 1..position : matched[i] = IndexOfTree[SubSeq(keys, 1, i)]
    /\ op = "matched" =>
          \A i \in 1..Len(keys) : SubSeq(keys, 1, i) \in DOMAIN IndexOfTree <=> i <= position
    /\ op = "insert" => Len(blocks) = Len(keys) /\ MayInsert(keys, blocks)
    /\ op = "compress" => node \in Inner
    /\ op = "idle" => node = Root /\ position = 0 /\ Len(matched) = 0

IndInv == TypeOK /\ LinkInv /\ LocationInv /\ OrderInv /\ CallInv

---------------------------------------------------------------------------
(* Paths *)

\* The types of the fields of one node, as sequences.
LEMMA Lengths ==
    ASSUME TreeTyped, NEW n \in Nodes
    PROVE  /\ path[n] \in Seq(Keys) /\ edge[n] \in Seq(Keys) /\ ids[n] \in Seq(Ids)
           /\ Depth(n) \in Nat /\ Size(n) \in Nat /\ parent[n] \in Nodes
<1>1. path[n] \in Seq(Keys) /\ edge[n] \in Seq(Keys) /\ ids[n] \in Seq(Ids)
  BY DEF TreeTyped
<1>2. Depth(n) \in Nat /\ Size(n) \in Nat
  BY <1>1, LenProperties DEF Depth, Size
<1> QED
  BY <1>1, <1>2 DEF TreeTyped

\* An edge begins where the path of its parent ends, and its path is the two joined.
LEMMA PathLengths ==
    ASSUME TreeTyped, LinkInv, NEW n \in Inner
    PROVE  /\ n \in Nodes /\ parent[n] \in Nodes
           /\ Depth(n) \in Nat /\ Size(n) \in Nat /\ Start(n) \in Nat
           /\ Size(n) > 0 /\ Start(n) = Depth(parent[n]) /\ Depth(n) = Start(n) + Size(n)
           /\ Agree(path[n], path[parent[n]], Start(n))
           /\ \A i \in 1..Size(n) : path[n][Start(n) + i] = edge[n][i]
           /\ path[n][Start(n) + 1] = edge[n][1]
<1>1. n \in Nodes /\ parent[n] \in Nodes
  BY DEF TreeTyped, Inner
<1>2. Depth(n) \in Nat /\ Size(n) \in Nat /\ Depth(parent[n]) \in Nat
  BY <1>1, Lengths
<1>3. LinkedUp(n)
  BY DEF LinkInv
<1>4. Size(n) > 0 /\ Depth(n) = Depth(parent[n]) + Size(n)
  BY <1>3 DEF LinkedUp
<1>5. Start(n) = Depth(n) - Size(n)
  BY DEF Start, Depth, Size
<1>6. Start(n) = Depth(parent[n])
  BY <1>2, <1>4, <1>5
<1>7. /\ Agree(path[n], path[parent[n]], Start(n))
      /\ \A i \in 1..Size(n) : path[n][Start(n) + i] = edge[n][i]
  BY <1>3, <1>6, Zenon DEF LinkedUp
<1>8. 1 \in 1..Size(n)
  BY <1>2, <1>4
<1> QED
  BY <1>1, <1>2, <1>4, <1>6, <1>7, <1>8

Covers(n, i) == Start(n) < i /\ i <= Depth(n)

\* Only the root has the empty path.
LEMMA RootPath ==
    ASSUME TreeTyped, LinkInv, NEW n \in Nodes
    PROVE  Depth(n) \in Nat /\ (Depth(n) = 0 <=> n = Root)
<1>1. CASE n = Root
  BY <1>1 DEF LinkInv, Rooted, Depth
<1>2. CASE n # Root
  <2>1. n \in Inner
    BY <1>2 DEF Inner
  <2> QED
    BY <1>2, <2>1, PathLengths
<1> QED
  BY <1>1, <1>2

\* Sequences that agree up to n agree up to any m below it, in either order.
LEMMA AgreeLess ==
    ASSUME NEW s, NEW t, NEW n \in Nat, NEW m \in Nat, m <= n, Agree(s, t, n)
    PROVE  Agree(s, t, m) /\ Agree(t, s, m)
  BY DEF Agree

\* Agreement up to n is transitive.
LEMMA AgreeTransitive ==
    ASSUME NEW s, NEW t, NEW u, NEW n, Agree(s, t, n), Agree(t, u, n)
    PROVE  Agree(s, u, n)
  BY DEF Agree

\* No prefix ends on the edges of two nodes.
LEMMA OneOwner ==
    ASSUME TreeTyped, LinkInv, NEW n \in Inner, NEW m \in Inner, NEW i \in Nat,
           Covers(n, i), Covers(m, i), Agree(path[n], path[m], i)
    PROVE  n = m
<1> DEFINE Shared(x, y, j) == /\ x # y /\ Covers(x, j) /\ Covers(y, j)
                              /\ Agree(path[x], path[y], j)
           Bad == {j \in Nat : \E x, y \in Inner : Shared(x, y, j)}
<1> SUFFICES ASSUME Bad # {} PROVE FALSE
  OBVIOUS
<1>1. PICK j \in Bad : \A l \in Bad : j <= l
  <2>1. Bad \subseteq Nat
    OBVIOUS
  <2> HIDE DEF Bad
  <2> QED
    BY <2>1, Least
<1>2. PICK x \in Inner, y \in Inner : Shared(x, y, j)
  OBVIOUS
<1>3. j \in Nat
  OBVIOUS
<1>4. \A u, v \in Inner : ~Shared(u, v, j - 1)
  <2> SUFFICES ASSUME NEW u \in Inner, NEW v \in Inner, Shared(u, v, j - 1) PROVE FALSE
    OBVIOUS
  <2>0. Start(u) \in Nat
    BY PathLengths
  <2>1. j - 1 \in Nat
    BY <1>3, <2>0 DEF Covers
  <2>2. j - 1 \in Bad
    BY <2>1
  <2> HIDE DEF Bad
  <2> QED
    BY <1>1, <1>3, <2>2
<1> HIDE DEF Bad
<1>5. ASSUME NEW u \in Nodes, NEW v \in Inner, Depth(u) = j - 1, Covers(v, j - 1),
             Agree(path[u], path[v], j - 1)
      PROVE  u = v
  <2>1. Start(v) \in Nat /\ Start(v) < j - 1
    BY <1>5, PathLengths DEF Covers
  <2>2. u \in Inner
    BY <1>3, <1>5, <2>1, RootPath DEF Inner
  <2>3. Depth(u) = Start(u) + Size(u) /\ Size(u) \in Nat /\ Size(u) > 0 /\ Start(u) \in Nat
    BY <2>2, PathLengths
  <2>4. Covers(u, j - 1)
    BY <1>3, <1>5, <2>3 DEF Covers
  <2> QED
    BY <1>4, <1>5, <2>2, <2>4
<1>6. ASSUME NEW u \in Inner, NEW v \in Inner, Shared(u, v, j), Start(u) = j - 1, Start(v) < j - 1
      PROVE  FALSE
  <2>1. /\ Depth(parent[u]) = j - 1 /\ parent[u] \in Nodes
        /\ Agree(path[u], path[parent[u]], j - 1)
        /\ Start(v) \in Nat /\ Depth(v) \in Nat
    BY <1>6, PathLengths
  <2>2. Covers(v, j - 1)
    BY <1>3, <1>6, <2>1 DEF Covers
  <2>3. Agree(path[parent[u]], path[v], j - 1)
    BY <1>3, <1>6, <2>1, AgreeLess, AgreeTransitive
  <2>4. parent[u] = v
    BY <1>5, <2>1, <2>2, <2>3
  <2> QED
    BY <1>3, <1>6, <2>1, <2>4 DEF Covers
<1>7. /\ Start(x) \in Nat /\ Depth(x) \in Nat /\ Start(y) \in Nat /\ Depth(y) \in Nat
  BY PathLengths
<1>8. CASE Start(x) < j - 1 /\ Start(y) < j - 1
  <2>1. j - 1 \in Nat
    BY <1>3, <1>7, <1>8
  <2>2. Covers(x, j - 1) /\ Covers(y, j - 1)
    BY <1>2, <1>3, <1>7, <1>8 DEF Covers
  <2>3. Agree(path[x], path[y], j - 1)
    BY <1>2, <1>3, <2>1, AgreeLess
  <2> QED
    BY <1>2, <1>4, <2>2, <2>3
<1>9. CASE Start(x) = j - 1 /\ Start(y) = j - 1
  <2>0. j - 1 \in Nat
    BY <1>7, <1>9
  <2>1. /\ Depth(parent[x]) = j - 1 /\ parent[x] \in Nodes
        /\ Depth(parent[y]) = j - 1 /\ parent[y] \in Nodes
        /\ Agree(path[x], path[parent[x]], j - 1) /\ path[x][(j - 1) + 1] = edge[x][1]
        /\ Agree(path[y], path[parent[y]], j - 1) /\ path[y][(j - 1) + 1] = edge[y][1]
    BY <1>9, PathLengths
  <2>2. Agree(path[x], path[y], j - 1)
    BY <1>2, <1>3, <2>0, AgreeLess
  <2>3. Agree(path[parent[x]], path[parent[y]], j - 1)
    <3>1. Agree(path[parent[x]], path[x], j - 1)
      BY <2>0, <2>1, AgreeLess
    <3> QED
      BY <2>1, <2>2, <3>1, AgreeTransitive
  <2>4. parent[x] = parent[y]
    <3>1. CASE j - 1 = 0
      BY <2>1, <3>1, RootPath
    <3>2. CASE j - 1 # 0
      <4>1. parent[y] \in Inner
        BY <2>0, <2>1, <3>2, RootPath DEF Inner
      <4>2. Start(parent[y]) < Depth(parent[y])
        BY <4>1, PathLengths
      <4>3. Covers(parent[y], j - 1)
        BY <2>0, <2>1, <4>2 DEF Covers
      <4> QED
        BY <1>5, <2>1, <2>3, <4>1, <4>3
    <3> QED
      BY <3>1, <3>2
  <2>5. edge[x][1] = edge[y][1]
    <3>1. j \in 1..j /\ (j - 1) + 1 = j
      BY <1>3, <2>0
    <3> QED
      BY <1>2, <2>1, <3>1 DEF Agree
  <2> QED
    BY <1>2, <2>4, <2>5 DEF LinkInv, LinkedUp
<1>10. Shared(y, x, j)
  BY <1>2, <1>3, AgreeLess
<1>11. Start(x) <= j - 1 /\ Start(y) <= j - 1
  BY <1>2, <1>3, <1>7 DEF Covers
<1> QED
  BY <1>2, <1>3, <1>6, <1>7, <1>8, <1>9, <1>10, <1>11

\* Every prefix of a path ends on the edge of some node.
LEMMA SomeOwner ==
    ASSUME TreeTyped, LinkInv, NEW n \in Nodes, NEW i \in 1..Depth(n)
    PROVE  \E m \in Inner : Covers(m, i) /\ Agree(path[m], path[n], i)
<1> DEFINE Lost(x, j) == ~\E m \in Inner : Covers(m, j) /\ Agree(path[m], path[x], j)
           Bad == {d \in Nat : \E x \in Nodes : Depth(x) = d /\ \E j \in 1..d : Lost(x, j)}
<1>0. Depth(n) \in Nat
  BY Lengths
<1> SUFFICES ASSUME Bad # {} PROVE FALSE
  BY <1>0
<1>1. PICK d \in Bad : \A l \in Bad : d <= l
  <2>1. Bad \subseteq Nat
    OBVIOUS
  <2> HIDE DEF Bad
  <2> QED
    BY <2>1, Least
<1>2. PICK x \in Nodes : Depth(x) = d /\ \E j \in 1..d : Lost(x, j)
  OBVIOUS
<1>3. PICK j \in 1..d : Lost(x, j)
  BY <1>2
<1>4. d \in Nat /\ j \in Nat /\ 1 <= j /\ j <= d
  BY <1>3
<1>5. x \in Inner
  BY <1>2, <1>4, RootPath DEF Inner
<1>6. /\ parent[x] \in Nodes /\ Start(x) \in Nat /\ Start(x) = Depth(parent[x])
      /\ Depth(x) = Start(x) + Size(x) /\ Size(x) \in Nat /\ Size(x) > 0
      /\ Agree(path[x], path[parent[x]], Start(x))
  BY <1>5, PathLengths
<1>7. CASE Start(x) < j
  <2>1. Covers(x, j) /\ Agree(path[x], path[x], j)
    BY <1>2, <1>4, <1>7 DEF Covers, Agree
  <2> QED
    BY <1>3, <1>5, <2>1
<1>8. CASE j <= Start(x)
  <2>1. Start(x) \in Nat /\ j \in 1..Start(x) /\ Start(x) < d
    BY <1>2, <1>4, <1>6, <1>8
  <2>2. Lost(parent[x], j)
    <3> SUFFICES ASSUME NEW m \in Inner, Covers(m, j), Agree(path[m], path[parent[x]], j)
                 PROVE  FALSE
      OBVIOUS
    <3>1. Agree(path[parent[x]], path[x], j)
      BY <1>4, <1>6, <1>8, AgreeLess
    <3>2. Agree(path[m], path[x], j)
      BY <3>1, AgreeTransitive
    <3> QED
      BY <1>3, <3>2
  <2>3. Start(x) \in Bad
    BY <1>6, <2>1, <2>2
  <2> HIDE DEF Bad
  <2> QED
    BY <1>1, <1>4, <2>1, <2>3
<1> QED
  BY <1>4, <1>6, <1>7, <1>8

---------------------------------------------------------------------------
(* Subtrees *)

\* The path of m goes through n.
Under(n, m) == Depth(n) <= Depth(m) /\ Agree(path[n], path[m], Depth(n))

\* What lies under the parent lies above its child too: paths only grow.
LEMMA UnderChild ==
    ASSUME TreeTyped, LinkInv, NEW n \in Nodes, NEW m \in Inner, Under(n, parent[m])
    PROVE  Under(n, m)
<1>1. /\ parent[m] \in Nodes /\ Start(m) \in Nat /\ Start(m) = Depth(parent[m])
      /\ Depth(m) = Start(m) + Size(m) /\ Size(m) \in Nat
      /\ Agree(path[m], path[parent[m]], Start(m))
  BY PathLengths
<1>2. Depth(n) \in Nat
  BY Lengths
<1>3. Depth(n) <= Start(m) /\ Agree(path[n], path[parent[m]], Depth(n))
  BY <1>1 DEF Under
<1>4. Agree(path[parent[m]], path[m], Depth(n))
  BY <1>1, <1>2, <1>3, AgreeLess
<1> QED
  BY <1>1, <1>2, <1>3, <1>4, AgreeTransitive DEF Under

\* A node under n, other than n, has its parent under n, and its edge begins below n.
LEMMA UnderParent ==
    ASSUME TreeTyped, LinkInv, NEW n \in Nodes, NEW m \in Nodes, Under(n, m), m # n
    PROVE  m \in Inner /\ Under(n, parent[m]) /\ Depth(n) <= Start(m)
<1>0. Depth(n) \in Nat /\ Depth(m) \in Nat /\ Depth(n) <= Depth(m)
      /\ Agree(path[n], path[m], Depth(n))
  BY Lengths DEF Under
<1>1. m \in Inner
  <2> SUFFICES ASSUME m = Root PROVE FALSE
    BY DEF Inner
  <2>1. Depth(n) = 0
    BY <1>0, RootPath
  <2> QED
    BY <2>1, RootPath
<1>2. /\ parent[m] \in Nodes /\ Start(m) \in Nat /\ Start(m) = Depth(parent[m])
      /\ Agree(path[m], path[parent[m]], Start(m))
  BY <1>1, PathLengths
<1>3. Depth(n) <= Start(m)
  <2> SUFFICES ASSUME Start(m) < Depth(n) PROVE FALSE
    BY <1>0, <1>2
  <2>1. n \in Inner
    BY <1>0, <1>2, RootPath DEF Inner
  <2>2. Start(n) \in Nat /\ Start(n) < Depth(n)
    BY <2>1, PathLengths
  <2>3. Covers(n, Depth(n)) /\ Covers(m, Depth(n))
    BY <1>0, <1>2, <2>2 DEF Covers
  <2> QED
    BY <1>0, <1>1, <2>1, <2>3, OneOwner
<1>4. Agree(path[m], path[parent[m]], Depth(n))
  BY <1>0, <1>2, <1>3, AgreeLess
<1> QED
  BY <1>0, <1>1, <1>2, <1>3, <1>4, AgreeTransitive DEF Under

\* A path that enters the edge of n goes through n.
LEMMA EntersEdge ==
    ASSUME TreeTyped, LinkInv, NEW n \in Inner, NEW m \in Nodes,
           Start(n) < Depth(m), Agree(path[n], path[m], Start(n) + 1)
    PROVE  Under(n, m)
<1> DEFINE Astray(x) == /\ Start(n) < Depth(x) /\ Agree(path[n], path[x], Start(n) + 1)
                        /\ ~Under(n, x)
           Bad == {d \in Nat : \E x \in Nodes : Depth(x) = d /\ Astray(x)}
<1>0. n \in Nodes /\ Start(n) \in Nat /\ Depth(m) \in Nat /\ Start(n) + 1 \in Nat
      /\ Depth(n) = Start(n) + Size(n) /\ Size(n) \in Nat /\ Size(n) > 0
  BY PathLengths, Lengths
<1> SUFFICES ASSUME Bad # {} PROVE FALSE
  BY <1>0
<1>1. PICK d \in Bad : \A l \in Bad : d <= l
  <2>1. Bad \subseteq Nat
    OBVIOUS
  <2> HIDE DEF Bad
  <2> QED
    BY <2>1, Least
<1>2. PICK x \in Nodes : Depth(x) = d /\ Astray(x)
  OBVIOUS
<1>3. d \in Nat /\ Start(n) < d
  BY <1>2
<1>4. x \in Inner
  BY <1>0, <1>2, <1>3, RootPath DEF Inner
<1>5. /\ parent[x] \in Nodes /\ Start(x) \in Nat /\ Start(x) = Depth(parent[x])
      /\ Depth(x) = Start(x) + Size(x) /\ Size(x) \in Nat /\ Size(x) > 0
      /\ Agree(path[x], path[parent[x]], Start(x))
  BY <1>4, PathLengths
<1>6. CASE Start(x) <= Start(n)
  <2>1. Covers(n, Start(n) + 1) /\ Covers(x, Start(n) + 1)
    BY <1>0, <1>2, <1>3, <1>5, <1>6 DEF Covers
  <2>2. n = x
    BY <1>0, <1>2, <1>4, <2>1, OneOwner
  <2>3. Under(n, n)
    BY <1>0 DEF Under, Agree
  <2> QED
    BY <1>2, <2>2, <2>3
<1>7. CASE Start(n) < Start(x)
  <2>1. Agree(path[n], path[parent[x]], Start(n) + 1)
    <3>1. Agree(path[x], path[parent[x]], Start(n) + 1)
      BY <1>0, <1>5, <1>7, AgreeLess
    <3>2. Agree(path[n], path[x], Start(n) + 1)
      BY <1>2
    <3> QED
      BY <3>1, <3>2, AgreeTransitive
  <2>2. ~Under(n, parent[x])
    BY <1>0, <1>2, <1>4, UnderChild
  <2>3. Start(x) \in Bad /\ Start(x) < d
    BY <1>2, <1>5, <1>7, <2>1, <2>2
  <2> HIDE DEF Bad
  <2> QED
    BY <1>1, <1>3, <1>5, <2>3
<1> QED
  BY <1>0, <1>5, <1>6, <1>7

\* What _drop_subtree reaches is what lies under the node.
LEMMA SubtreeIs ==
    ASSUME TreeTyped, LinkInv, NEW n \in Nodes
    PROVE  Subtree(n) = {m \in Nodes : Under(n, m)}
<1> DEFINE Closed(S) == n \in S /\ \A x \in S : Range(children[x]) \subseteq S
           T == {m \in Nodes : Under(n, m)}
<1>1. Closed(T)
  <2>1. n \in T
    <3>1. Depth(n) \in Nat
      BY Lengths
    <3> QED
      BY <3>1 DEF Under, Agree
  <2>2. ASSUME NEW x \in T, NEW c \in Range(children[x]) PROVE c \in T
    <3>1. PICK k \in DOMAIN children[x] : c = children[x][k]
      BY <2>2 DEF Range
    <3>2. x \in Nodes /\ Under(n, x)
      OBVIOUS
    <3>3. children[x] \in [DOMAIN children[x] -> Inner] /\ LinkedDown(x)
      BY <3>2 DEF TreeTyped, LinkInv
    <3>4. c \in Inner /\ parent[c] = x
      BY <3>1, <3>3 DEF LinkedDown
    <3> QED
      BY <3>2, <3>4, UnderChild DEF Inner
  <2> QED
    BY <2>1, <2>2
<1>2. ASSUME NEW m \in T, NEW S \in SUBSET Nodes, Closed(S) PROVE m \in S
  <2> DEFINE Bad == {d \in Nat : \E x \in T : Depth(x) = d /\ x \notin S}
  <2> SUFFICES ASSUME Bad # {} PROVE FALSE
    <3>1. Depth(m) \in Nat
      BY Lengths
    <3> QED
      BY <3>1
  <2>1. PICK d \in Bad : \A l \in Bad : d <= l
    <3>1. Bad \subseteq Nat
      OBVIOUS
    <3> HIDE DEF Bad
    <3> QED
      BY <3>1, Least
  <2>2. PICK x \in T : Depth(x) = d /\ x \notin S
    OBVIOUS
  <2>3. x # n
    BY <1>2, <2>2
  <2>4. x \in Inner /\ Under(n, parent[x])
    BY <2>3, UnderParent
  <2>5. /\ parent[x] \in Nodes /\ Start(x) \in Nat /\ Start(x) = Depth(parent[x])
        /\ Depth(x) = Start(x) + Size(x) /\ Size(x) \in Nat /\ Size(x) > 0
    BY <2>4, PathLengths
  <2>6. parent[x] \notin S
    <3>1. x \in Range(children[parent[x]])
      BY <2>4 DEF LinkInv, LinkedUp, Range
    <3> QED
      BY <1>2, <2>2, <3>1
  <2>7. Start(x) \in Bad /\ Start(x) < d
    BY <2>2, <2>4, <2>5, <2>6
  <2>8. d \in Nat
    OBVIOUS
  <2> HIDE DEF Bad
  <2> QED
    BY <2>1, <2>5, <2>7, <2>8
<1>3. T \in SUBSET Nodes
  OBVIOUS
<1>4. Subtree(n) = {m \in Nodes : \A S \in SUBSET Nodes : Closed(S) => m \in S}
  BY DEF Subtree
<1> HIDE DEF Closed
<1>5. Subtree(n) \subseteq T
  <2> HIDE DEF T
  <2> QED
    BY <1>1, <1>3, <1>4
<1>6. T \subseteq Subtree(n)
  BY <1>2, <1>4
<1> QED
  BY <1>5, <1>6

---------------------------------------------------------------------------
(* The index *)

\* Owns, as a bound on the length and agreement with the path.
LEMMA OwnsIs ==
    ASSUME TreeTyped, NEW n \in Nodes, NEW p \in Seq(Keys)
    PROVE  Owns(n, p) <=> Covers(n, Len(p)) /\ Agree(p, path[n], Len(p))
<1>1. path[n] \in Seq(Keys)
  BY Lengths
<1>2. IsPrefix(p, path[n]) <=> Len(p) <= Depth(n) /\ Agree(p, path[n], Len(p))
  BY <1>1, PrefixAgrees DEF Depth
<1> QED
  BY <1>2 DEF Owns, Covers

\* The index maps the prefixes that end on an edge to the blocks there.
IndexFacts ==
    /\ IndexOfTree = [p \in DOMAIN IndexOfTree |-> IndexOfTree[p]]
    /\ DOMAIN IndexOfTree \subseteq Seq(Keys)
    /\ \A p \in DOMAIN IndexOfTree : \E n \in Inner : Owns(n, p)
    /\ \A n \in Inner, p \in Seq(Keys) : Owns(n, p) =>
          p \in DOMAIN IndexOfTree /\ IndexOfTree[p] = ids[n][Len(p) - Start(n)]

\* IndexOfTree in a linked tree, without its CHOOSE.
LEMMA IndexIs ==
    TreeTyped /\ LinkInv => IndexFacts
<1> SUFFICES ASSUME TreeTyped, LinkInv PROVE IndexFacts
  OBVIOUS
<1> DEFINE Ends(n) == {SubSeq(path[n], 1, i) : i \in (Start(n) + 1)..Len(path[n])}
           D == UNION {Ends(n) : n \in Inner}
           Owner(p) == CHOOSE n \in Inner : Owns(n, p)
<1>1. IndexOfTree = [p \in D |-> ids[Owner(p)][Len(p) - Start(Owner(p))]]
  BY DEF IndexOfTree
<1>2. ASSUME NEW n \in Inner, NEW p \in Ends(n) PROVE p \in Seq(Keys) /\ Owns(n, p)
  <2>1. PICK i \in (Start(n) + 1)..Depth(n) : p = SubSeq(path[n], 1, i)
    BY <1>2 DEF Depth
  <2>2. n \in Nodes /\ Start(n) \in Nat /\ Depth(n) \in Nat /\ path[n] \in Seq(Keys)
    BY PathLengths, Lengths
  <2>3. i \in 0..Len(path[n])
    BY <2>1, <2>2 DEF Depth
  <2>4. p \in Seq(Keys) /\ Len(p) = i /\ \A j \in 1..i : p[j] = path[n][j]
    BY <2>1, <2>2, <2>3, FirstPart
  <2>5. Covers(n, Len(p)) /\ Agree(p, path[n], Len(p))
    BY <2>1, <2>2, <2>4 DEF Covers, Agree
  <2> QED
    BY <2>2, <2>4, <2>5, OwnsIs
<1>3. ASSUME NEW n \in Inner, NEW p \in Seq(Keys), Owns(n, p) PROVE p \in Ends(n)
  <2>1. n \in Nodes /\ Start(n) \in Nat /\ Depth(n) \in Nat /\ path[n] \in Seq(Keys)
    BY PathLengths, Lengths
  <2>2. Covers(n, Len(p)) /\ Agree(p, path[n], Len(p))
    BY <1>3, <2>1, OwnsIs
  <2>3. Len(p) \in (Start(n) + 1)..Depth(n) /\ Len(p) \in 0..Len(p) /\ Len(p) \in Nat
    BY <2>1, <2>2, LenProperties DEF Covers
  <2>4. SubSeq(p, 1, Len(p)) = SubSeq(path[n], 1, Len(p))
    BY <2>1, <2>2, <2>3, EqualParts DEF Depth, Covers
  <2>5. SubSeq(p, 1, Len(p)) = p
    BY SubSeqFull
  <2> QED
    BY <2>3, <2>4, <2>5 DEF Depth
<1>4. ASSUME NEW n \in Inner, NEW m \in Inner, NEW p \in Seq(Keys), Owns(n, p), Owns(m, p)
      PROVE  n = m
  <2>1. n \in Nodes /\ m \in Nodes /\ Len(p) \in Nat
    BY LenProperties DEF Inner
  <2>2. /\ Covers(n, Len(p)) /\ Agree(p, path[n], Len(p))
        /\ Covers(m, Len(p)) /\ Agree(p, path[m], Len(p))
    BY <1>4, <2>1, OwnsIs
  <2>3. Agree(path[n], path[m], Len(p))
    BY <2>1, <2>2, AgreeLess, AgreeTransitive
  <2> QED
    BY <2>1, <2>2, <2>3, OneOwner
<1>5. ASSUME NEW n \in Inner, NEW p \in Seq(Keys), Owns(n, p) PROVE Owner(p) = n
  BY <1>4, <1>5
<1> HIDE DEF Ends, Owner
<1>6. D \subseteq Seq(Keys) /\ \A p \in D : \E n \in Inner : Owns(n, p)
  BY <1>2
<1>7. ASSUME NEW n \in Inner, NEW p \in Seq(Keys), Owns(n, p)
      PROVE  p \in D /\ IndexOfTree[p] = ids[n][Len(p) - Start(n)]
  <2>1. p \in D
    BY <1>3, <1>7
  <2>2. Owner(p) = n
    BY <1>5, <1>7
  <2> HIDE DEF D
  <2> QED
    BY <1>1, <2>1, <2>2
<1> HIDE DEF D
<1>8. DOMAIN IndexOfTree = D /\ IndexOfTree = [p \in DOMAIN IndexOfTree |-> IndexOfTree[p]]
  BY <1>1, Zenon
<1> QED
  BY <1>6, <1>7, <1>8 DEF IndexFacts

\* The same in the next state.
LEMMA IndexIsNext ==
    TreeTyped' /\ LinkInv' => IndexFacts'
  BY IndexIs, PTL

\* The prefixes of a key sequence that are indexed, and where.
LEMMA KeysIndexed ==
    ASSUME TreeTyped, LinkInv, NEW k \in Seq(Keys), NEW i \in 1..Len(k)
    PROVE  /\ SubSeq(k, 1, i) \in DOMAIN IndexOfTree
                 <=> \E n \in Inner : Covers(n, i) /\ Agree(path[n], k, i)
           /\ \A n \in Inner : Covers(n, i) /\ Agree(path[n], k, i)
                 => IndexOfTree[SubSeq(k, 1, i)] = ids[n][i - Start(n)]
<1>0. Len(k) \in Nat /\ i \in Nat /\ i \in 0..Len(k)
  BY LenProperties
<1>1. /\ SubSeq(k, 1, i) \in Seq(Keys) /\ Len(SubSeq(k, 1, i)) = i
      /\ \A j \in 1..i : SubSeq(k, 1, i)[j] = k[j]
  BY <1>0, FirstPart
<1> DEFINE p == SubSeq(k, 1, i)
<1>2. ASSUME NEW n \in Inner PROVE Owns(n, p) <=> Covers(n, i) /\ Agree(path[n], k, i)
  <2>1. n \in Nodes
    BY DEF Inner
  <2>2. Owns(n, p) <=> Covers(n, i) /\ Agree(p, path[n], i)
    BY <1>1, <2>1, OwnsIs
  <2>3. Agree(p, path[n], i) <=> Agree(path[n], k, i)
    BY <1>1 DEF Agree
  <2> QED
    BY <2>2, <2>3
<1> HIDE DEF p
<1>3. IndexFacts
  BY IndexIs
<1>4. p \in Seq(Keys) /\ Len(p) = i
  BY <1>1 DEF p
<1>5. p \in DOMAIN IndexOfTree <=> \E n \in Inner : Owns(n, p)
  BY <1>3, <1>4 DEF IndexFacts
<1>6. \A n \in Inner : Owns(n, p) => IndexOfTree[p] = ids[n][i - Start(n)]
  BY <1>3, <1>4 DEF IndexFacts
<1>7. /\ p \in DOMAIN IndexOfTree <=> \E n \in Inner : Covers(n, i) /\ Agree(path[n], k, i)
      /\ \A n \in Inner : Covers(n, i) /\ Agree(path[n], k, i)
            => IndexOfTree[p] = ids[n][i - Start(n)]
  BY <1>2, <1>5, <1>6
<1> QED
  BY <1>7 DEF p

\* Nothing is indexed beyond a point where every path leaves the keys.
LEMMA NothingBeyond ==
    ASSUME TreeTyped, LinkInv, NEW k \in Seq(Keys), NEW d \in 0..Len(k), NEW n \in Nodes,
           d <= Depth(n), Agree(path[n], k, d),
           d < Len(k) => \A m \in Inner : Covers(m, d + 1) => ~Agree(path[m], k, d + 1)
    PROVE  \A i \in 1..Len(k) : SubSeq(k, 1, i) \in DOMAIN IndexOfTree <=> i <= d
<1> SUFFICES ASSUME NEW i \in 1..Len(k)
             PROVE  SubSeq(k, 1, i) \in DOMAIN IndexOfTree <=> i <= d
  OBVIOUS
<1>0. Len(k) \in Nat /\ i \in Nat /\ d \in Nat /\ Depth(n) \in Nat
  BY LenProperties, Lengths
<1>1. ASSUME i <= d PROVE SubSeq(k, 1, i) \in DOMAIN IndexOfTree
  <2>1. i \in 1..Depth(n)
    BY <1>0, <1>1
  <2>2. PICK m \in Inner : Covers(m, i) /\ Agree(path[m], path[n], i)
    BY <2>1, SomeOwner
  <2>3. Agree(path[n], k, i)
    BY <1>0, <1>1, AgreeLess
  <2>4. Agree(path[m], k, i)
    BY <2>2, <2>3, AgreeTransitive
  <2> QED
    BY <2>2, <2>4, KeysIndexed
<1>2. ASSUME SubSeq(k, 1, i) \in DOMAIN IndexOfTree, d < i PROVE FALSE
  <2>1. PICK m \in Inner : Covers(m, i) /\ Agree(path[m], k, i)
    BY <1>2, KeysIndexed
  <2>2. m \in Nodes /\ Depth(m) \in Nat
    BY PathLengths
  <2>3. d + 1 \in 1..Depth(m) /\ d < Len(k) /\ d + 1 <= i /\ d + 1 \in Nat
    BY <1>0, <1>2, <2>1, <2>2 DEF Covers
  <2>4. PICK x \in Inner : Covers(x, d + 1) /\ Agree(path[x], path[m], d + 1)
    BY <2>2, <2>3, SomeOwner
  <2>5. Agree(path[m], k, d + 1)
    BY <1>0, <2>1, <2>3, AgreeLess
  <2>6. Agree(path[x], k, d + 1)
    BY <2>4, <2>5, AgreeTransitive
  <2> QED
    BY <2>3, <2>4, <2>6
<1> QED
  BY <1>0, <1>1, <1>2

---------------------------------------------------------------------------
(* One iteration of the walk *)

\* The loop of match or insert has reached node.
Walking ==
    /\ TreeTyped /\ CallTyped /\ LinkInv
    /\ Depth(node) = position /\ Agree(path[node], keys, position)

\* What the next iteration of a loop finds: the child continues the keys, and Common
\* is where its edge stops doing so.
LEMMA ChildIs ==
    ASSUME Walking, HasChild
    PROVE  /\ Child \in Inner /\ parent[Child] = node
           /\ Start(Child) = position /\ Depth(Child) = position + Size(Child)
           /\ Common \in 1..Size(Child) /\ position + Common \in 0..Len(keys)
           /\ Agree(path[Child], keys, position + Common)
           /\ Common < Size(Child) /\ position + Common < Len(keys) =>
                path[Child][position + Common + 1] # keys[position + Common + 1]
<1> DEFINE c == Child
           rest == From(keys, position + 1)
<1>0. position \in Nat /\ Len(keys) \in Nat /\ position \in 0..Len(keys) /\ position < Len(keys)
      /\ keys \in Seq(Keys)
  BY LenProperties DEF Walking, CallTyped, HasChild
<1>1. c \in Inner /\ parent[c] = node /\ edge[c][1] = keys[position + 1]
  <2>1. /\ node \in Nodes /\ children[node] \in [DOMAIN children[node] -> Inner]
        /\ LinkedDown(node)
    BY DEF Walking, CallTyped, TreeTyped, LinkInv
  <2> QED
    BY <2>1 DEF HasChild, Child, LinkedDown
<1> HIDE DEF c
<1>2. /\ c \in Nodes /\ Start(c) = position /\ Depth(c) = position + Size(c)
      /\ Size(c) \in Nat /\ Size(c) > 0 /\ Depth(c) \in Nat
      /\ Agree(path[c], path[node], position)
      /\ \A i \in 1..Size(c) : path[c][position + i] = edge[c][i]
  BY <1>1, PathLengths DEF Walking
<1>3. edge[c] \in Seq(Keys) /\ Len(edge[c]) = Size(c)
  BY <1>2, Lengths DEF Walking, Size
<1>4. /\ rest \in Seq(Keys) /\ Len(rest) = Len(keys) - position
      /\ \A i \in 1..(Len(keys) - position) : rest[i] = keys[position + i]
  BY <1>0, LastPart
<1> HIDE DEF rest
<1>5. /\ Common \in 0..Size(c) /\ Common <= Len(keys) - position
      /\ \A i \in 1..Common : edge[c][i] = rest[i]
      /\ Common < Size(c) /\ Common < Len(keys) - position => edge[c][Common + 1] # rest[Common + 1]
  <2>1. Common = CommonPrefixLength(edge[c], rest)
    BY DEF Common, c, rest
  <2> QED
    BY <1>3, <1>4, <2>1, CommonPart
<1>6. Common # 0
  <2>1. rest[1] = keys[position + 1]
    BY <1>0, <1>4
  <2> QED
    BY <1>0, <1>1, <1>2, <1>5, <2>1
<1>7. Common \in 1..Size(c) /\ position + Common \in 0..Len(keys)
  BY <1>0, <1>2, <1>5, <1>6
<1>8. Agree(path[c], keys, position + Common)
  <2> SUFFICES ASSUME NEW i \in 1..(position + Common) PROVE path[c][i] = keys[i]
    BY DEF Agree
  <2>1. CASE i <= position
    BY <1>0, <1>2, <2>1 DEF Walking, Agree
  <2>2. CASE position < i
    <3>1. PICK j \in 1..Common : i = position + j
      <4>1. i - position \in 1..Common /\ i = position + (i - position)
        BY <1>0, <1>7, <2>2
      <4> QED
        BY <4>1
    <3>2. j \in 1..Size(c)
      BY <1>2, <1>7
    <3>3. j \in 1..(Len(keys) - position)
      BY <1>0, <1>7
    <3>4. path[c][position + j] = edge[c][j]
      BY <1>2, <3>2
    <3>5. edge[c][j] = rest[j]
      BY <1>5
    <3>6. rest[j] = keys[position + j]
      BY <1>4, <3>3
    <3> QED
      BY <3>1, <3>4, <3>5, <3>6
  <2> QED
    BY <1>0, <2>1, <2>2
<1>9. ASSUME Common < Size(c), position + Common < Len(keys)
      PROVE  path[c][position + Common + 1] # keys[position + Common + 1]
  <2>1. /\ Common + 1 \in 1..Size(c) /\ Common + 1 \in 1..(Len(keys) - position)
        /\ position + (Common + 1) = position + Common + 1
        /\ Common < Len(keys) - position
    BY <1>0, <1>2, <1>7, <1>9
  <2>2. path[c][position + (Common + 1)] = edge[c][Common + 1]
    BY <1>2, <2>1
  <2>3. rest[Common + 1] = keys[position + (Common + 1)]
    BY <1>4, <2>1
  <2> QED
    BY <1>5, <1>9, <2>1, <2>2, <2>3
<1> QED
  BY <1>1, <1>2, <1>7, <1>8, <1>9 DEF c

\* No child for the next key: no path goes on.
LEMMA DeadEnd ==
    ASSUME Walking, position < Len(keys), ~HasChild,
           NEW m \in Inner, Covers(m, position + 1)
    PROVE  ~Agree(path[m], keys, position + 1)
<1> SUFFICES ASSUME Agree(path[m], keys, position + 1) PROVE FALSE
  OBVIOUS
<1>0. position \in Nat /\ node \in Nodes /\ TreeTyped /\ LinkInv
  BY DEF Walking, CallTyped
<1>1. /\ m \in Nodes /\ parent[m] \in Nodes /\ Start(m) \in Nat /\ Start(m) = Depth(parent[m])
      /\ Depth(m) \in Nat /\ path[m][Start(m) + 1] = edge[m][1]
  BY <1>0, PathLengths
<1>2. Start(m) <= position /\ position < Depth(m)
  BY <1>0, <1>1 DEF Covers
<1>3. Under(node, m) /\ m # node
  <2>1. Agree(keys, path[m], position)
    BY <1>0, AgreeLess
  <2>2. Agree(path[node], path[m], position)
    BY <2>1, AgreeTransitive DEF Walking
  <2> QED
    BY <1>0, <1>1, <1>2, <2>2 DEF Walking, Under
<1>4. Under(node, parent[m]) /\ position <= Start(m)
  BY <1>0, <1>1, <1>3, UnderParent DEF Walking
<1>5. parent[m] = node
  <2> SUFFICES ASSUME parent[m] # node PROVE FALSE
    OBVIOUS
  <2>1. parent[m] \in Inner /\ Depth(node) <= Start(parent[m])
    BY <1>0, <1>1, <1>4, UnderParent
  <2>2. Start(parent[m]) \in Nat /\ Start(parent[m]) < Depth(parent[m])
    BY <1>0, <2>1, PathLengths
  <2> QED
    BY <1>0, <1>1, <1>2, <2>1, <2>2 DEF Walking
<1>6. edge[m][1] = keys[position + 1]
  <2>1. position + 1 \in 1..(position + 1) /\ Start(m) = position
    BY <1>0, <1>1, <1>2, <1>4
  <2> QED
    BY <1>1, <2>1 DEF Agree
<1>7. edge[m][1] \in DOMAIN children[parent[m]]
  BY <1>0 DEF LinkInv, LinkedUp
<1> QED
  BY <1>5, <1>6, <1>7 DEF HasChild

\* An edge left half way: no path goes on.
LEMMA EdgeLeft ==
    ASSUME TreeTyped, LinkInv, NEW c \in Inner, NEW k, NEW e \in Nat,
           Covers(c, e), e < Depth(c), Agree(path[c], k, e), path[c][e + 1] # k[e + 1],
           NEW m \in Inner, Covers(m, e + 1)
    PROVE  ~Agree(path[m], k, e + 1)
<1> SUFFICES ASSUME Agree(path[m], k, e + 1) PROVE FALSE
  OBVIOUS
<1>1. /\ m \in Nodes /\ Start(m) \in Nat /\ Depth(m) \in Nat
      /\ Start(c) \in Nat /\ Depth(c) \in Nat
  BY PathLengths
<1>2. Start(c) + 1 <= e /\ e < Depth(m) /\ Start(c) + 1 \in Nat /\ e + 1 \in Nat
  BY <1>1 DEF Covers
<1>3. Agree(path[c], path[m], e)
  <2>1. Agree(k, path[m], e)
    BY <1>2, AgreeLess
  <2> QED
    BY <2>1, AgreeTransitive
<1>4. Agree(path[c], path[m], Start(c) + 1)
  BY <1>2, <1>3, AgreeLess
<1>5. Under(c, m)
  BY <1>1, <1>2, <1>4, EntersEdge
<1>6. path[c][e + 1] = path[m][e + 1]
  <2>1. e + 1 \in 1..Depth(c)
    BY <1>1
  <2> QED
    BY <1>5, <2>1 DEF Under, Agree
<1>7. path[m][e + 1] = k[e + 1]
  <2>1. e + 1 \in 1..(e + 1)
    BY <1>2
  <2> QED
    BY <2>1 DEF Agree
<1> QED
  BY <1>6, <1>7

---------------------------------------------------------------------------
(* New nodes and the order of last_access *)

\* A new node is not one of the live nodes.
LEMMA FreshIs ==
    ASSUME TreeTyped
    PROVE  Fresh \in Nat /\ Fresh \notin Nodes /\ Fresh # Root
<1> DEFINE N == Nodes
           I == 1..Cardinality(N)
<1>1. IsFiniteSet(N) /\ Root \in N /\ N \subseteq Nat
  BY DEF TreeTyped
<1>2. Cardinality(N) \in Nat /\ Cardinality(N \ {Root}) = Cardinality(N) - 1
      /\ IsFiniteSet(N \ {Root})
  <2> HIDE DEF N
  <2> QED
    BY <1>1, FS_CardinalityType, FS_RemoveElement
<1>3. IsFiniteSet(I) /\ Cardinality(I) = Cardinality(N)
  <2>1. /\ IsFiniteSet(1..Cardinality(N))
        /\ Cardinality(1..Cardinality(N))
              = IF 1 > Cardinality(N) THEN 0 ELSE Cardinality(N) - 1 + 1
    BY <1>2, FS_Interval, SMTT(30)
  <2> QED
    BY <1>2, <2>1
<1>4. \E n \in I : n \notin N
  <2> SUFFICES ASSUME I \subseteq N PROVE FALSE
    OBVIOUS
  <2>1. I \subseteq N \ {Root}
    BY <1>2 DEF Root
  <2>2. Cardinality(I) <= Cardinality(N \ {Root})
    <3> HIDE DEF I, N
    <3> QED
      BY <1>2, <2>1, FS_Subset
  <2> QED
    BY <1>2, <1>3, <2>2
<1>5. Fresh \in I /\ Fresh \notin N
  <2>1. Fresh = CHOOSE n \in I : n \notin N
    BY DEF Fresh
  <2> HIDE DEF I, N
  <2> QED
    BY <1>4, <2>1
<1> QED
  BY <1>1, <1>2, <1>5

\* A strict linear order on the set S.
Linear(f, S) ==
    /\ f \in [S -> SUBSET S]
    /\ \A n \in S : n \notin f[n]
    /\ \A m, n \in S : m # n => m \in f[n] \/ n \in f[m]
    /\ \A m, n \in S : m \in f[n] => f[m] \subseteq f[n]

\* The order of last_access is linear on the nodes other than the root.
LEMMA OrderIsLinear ==
    ASSUME TreeTyped, OrderInv
    PROVE  Linear(older, Inner)
  BY DEF TreeTyped, OrderInv, Linear

\* A touch moves a node, old or new, to the end of the order.
LEMMA TouchKeeps ==
    ASSUME Linear(older, Inner), NEW N, NEW n, n \in N \ {Root},
           N \ {Root, n} \subseteq Inner
    PROVE  Linear(Touched(N, n), N \ {Root})
<1> DEFINE S == N \ {Root}
           f == Touched(N, n)
           g == older
<1>1. f = [m \in S |-> IF m = n THEN S \ {n} ELSE (g[m] \cap N) \ {n}]
  BY DEF Touched
<1>2. n \in S /\ S \ {n} \subseteq Inner /\ N = S \cup (N \cap {Root})
  OBVIOUS
<1>3. \A m \in S \ {n} : (g[m] \cap N) \ {n} \subseteq S
  BY <1>2 DEF Linear, Inner
<1> HIDE DEF S, f, g
<1>4. f \in [S -> SUBSET S]
  BY <1>1, <1>2, <1>3
<1>5. \A m \in S : m \notin f[m]
  BY <1>1, <1>2 DEF Linear, g
<1>6. f[n] = S \ {n} /\ \A m \in S \ {n} : f[m] = (g[m] \cap N) \ {n}
  BY <1>1, <1>2
<1>7. \A m, k \in S : m # k => m \in f[k] \/ k \in f[m]
  <2> SUFFICES ASSUME NEW m \in S, NEW k \in S, m # k PROVE m \in f[k] \/ k \in f[m]
    OBVIOUS
  <2>1. CASE m = n \/ k = n
    BY <1>6, <2>1
  <2>2. CASE m # n /\ k # n
    <3>1. m \in g[k] \/ k \in g[m]
      BY <1>2, <2>2 DEF Linear, g
    <3>2. m \in N /\ k \in N
      BY DEF S
    <3> QED
      BY <1>6, <2>2, <3>1, <3>2
  <2> QED
    BY <2>1, <2>2
<1>8. \A m, k \in S : m \in f[k] => f[m] \subseteq f[k]
  <2> SUFFICES ASSUME NEW m \in S, NEW k \in S, m \in f[k] PROVE f[m] \subseteq f[k]
    OBVIOUS
  <2>1. m # n
    BY <1>6
  <2>2. CASE k = n
    BY <1>3, <1>6, <2>1, <2>2
  <2>3. CASE k # n
    <3>1. m \in g[k]
      BY <1>6, <2>3
    <3>2. g[m] \subseteq g[k]
      BY <1>2, <2>1, <2>3, <3>1 DEF Linear, g
    <3> QED
      BY <1>6, <2>1, <2>3, <3>2
  <2> QED
    BY <2>2, <2>3
<1> QED
  BY <1>4, <1>5, <1>7, <1>8 DEF Linear, f, S

\* The nodes kept keep their order.
LEMMA RestrictKeeps ==
    ASSUME Linear(older, Inner), NEW N, N \ {Root} \subseteq Inner
    PROVE  Linear([m \in N \ {Root} |-> older[m] \cap N], N \ {Root})
<1> DEFINE S == N \ {Root}
           f == [m \in S |-> older[m] \cap N]
<1>1. \A m \in S : m \in Inner /\ m \in N /\ f[m] = older[m] \cap N /\ f[m] \subseteq S
  BY DEF Linear, Inner
<1>2. f \in [S -> SUBSET S]
  BY <1>1
<1> HIDE DEF f, S
<1> QED
  BY <1>1, <1>2 DEF Linear, f, S

---------------------------------------------------------------------------
(* The index before and after a step *)

EndsOn(n, p) == Covers(n, Len(p)) /\ Agree(p, path[n], Len(p))
Block(n, p)  == ids[n][Len(p) - Start(n)]

PrefixMap ==
    /\ IndexOfTree = [p \in DOMAIN IndexOfTree |-> IndexOfTree[p]]
    /\ DOMAIN IndexOfTree \subseteq Seq(Keys)
    /\ \A p \in DOMAIN IndexOfTree : \E n \in Inner : EndsOn(n, p)
    /\ \A n \in Inner, p \in Seq(Keys) : EndsOn(n, p) =>
          p \in DOMAIN IndexOfTree /\ IndexOfTree[p] = Block(n, p)

\* A linked tree is a prefix map.
LEMMA PrefixMapIs ==
    TreeTyped /\ LinkInv => PrefixMap
<1> SUFFICES ASSUME TreeTyped, LinkInv PROVE PrefixMap
  OBVIOUS
<1>1. ASSUME NEW n \in Inner, NEW p \in Seq(Keys) PROVE Owns(n, p) <=> EndsOn(n, p)
  <2>1. n \in Nodes
    BY DEF Inner
  <2> QED
    BY <2>1, OwnsIs DEF EndsOn
<1>2. IndexFacts
  BY IndexIs
<1> QED
  BY <1>1, <1>2 DEF IndexFacts, PrefixMap, Block

\* The same in the next state.
LEMMA PrefixMapIsNext ==
    TreeTyped' /\ LinkInv' => PrefixMap'
  BY PrefixMapIs, PTL

\* The index is the same when every prefix still ends on an edge, with the
\* same block there.
LEMMA SameIndex ==
    ASSUME PrefixMap, PrefixMap',
           \A n \in Inner' : \A p \in Seq(Keys) : EndsOn(n, p)' =>
              \E m \in Inner : EndsOn(m, p) /\ Block(m, p) = Block(n, p)',
           \A m \in Inner : \A p \in Seq(Keys) : EndsOn(m, p) => \E n \in Inner' : EndsOn(n, p)'
    PROVE  IndexOfTree' = IndexOfTree
<1> DEFINE D == DOMAIN IndexOfTree
           E == DOMAIN IndexOfTree'
<1>1. \A p \in E : p \in D /\ IndexOfTree'[p] = IndexOfTree[p]
  BY DEF PrefixMap
<1>2. \A p \in D : p \in E
  BY DEF PrefixMap
<1>3. IndexOfTree = [p \in D |-> IndexOfTree[p]] /\ IndexOfTree' = [p \in E |-> IndexOfTree'[p]]
  BY DEF PrefixMap
<1> HIDE DEF D, E
<1> QED
  BY <1>1, <1>2, <1>3

\* The index depends on edges, blocks and paths alone.
LEMMA UnchangedIndex ==
    ASSUME UNCHANGED <<edge, ids, path>>
    PROVE  IndexOfTree' = IndexOfTree
  BY DEF IndexOfTree, Owns, Start, Inner, Nodes

---------------------------------------------------------------------------
(* Steps that leave the linked tree alone *)

TreeInv == TreeTyped /\ LinkInv /\ LocationInv /\ OrderInv

\* A node stays linked when its own fields, its parent's path and its entry there
\* stay.
LEMMA StaysLinkedUp ==
    ASSUME NEW n, LinkedUp(n), edge'[n] = edge[n], ids'[n] = ids[n], path'[n] = path[n],
           parent'[n] = parent[n], path'[parent[n]] = path[parent[n]],
           edge[n][1] \in DOMAIN children'[parent[n]],
           children'[parent[n]][edge[n][1]] = n
    PROVE  LinkedUp(n)'
<1> DEFINE m == parent[n]
<1>1. Size(n)' = Size(n) /\ Depth(n)' = Depth(n) /\ Len(ids[n])' = Len(ids[n])
  BY DEF Size, Depth
<1>2. parent'[n] = m /\ path'[m] = path[m]
  OBVIOUS
<1>3. Depth(m)' = Depth(m)
  BY <1>2 DEF Depth
<1>4. /\ Size(n) > 0 /\ Len(ids[n]) = Size(n) /\ Depth(n) = Depth(m) + Size(n)
      /\ Agree(path[n], path[m], Depth(m))
      /\ \A i \in 1..Size(n) : path[n][Depth(m) + i] = edge[n][i]
  BY DEF LinkedUp
<1>5. edge'[n][1] \in DOMAIN children'[m] /\ children'[m][edge'[n][1]] = n
  OBVIOUS
<1> HIDE DEF m
<1>6. Len(path'[parent'[n]]) = Depth(m) /\ path'[parent'[n]] = path[m]
  BY <1>2, <1>3 DEF Depth
<1>7. /\ Agree(path'[n], path'[parent'[n]], Len(path'[parent'[n]]))
      /\ \A i \in 1..Size(n)' : path'[n][Len(path'[parent'[n]]) + i] = edge'[n][i]
  BY <1>1, <1>2, <1>4, <1>6
<1> QED
  BY <1>1, <1>2, <1>4, <1>5, <1>6, <1>7 DEF LinkedUp, Depth

\* n continues the path of m, of length s, by l pages.
Continues(n, m, s, l) ==
    /\ parent[n] = m /\ Depth(m) = s
    /\ Size(n) = l /\ l > 0 /\ Len(ids[n]) = l /\ Depth(n) = s + l
    /\ Agree(path[n], path[m], s)
    /\ \A i \in 1..l : path[n][s + i] = edge[n][i]
    /\ edge[n][1] \in DOMAIN children[m] /\ children[m][edge[n][1]] = n

\* A node that continues the path of its parent is linked upwards.
LEMMA LinkedUpNext ==
    ASSUME NEW n, NEW m, NEW s, NEW l, Continues(n, m, s, l)'
    PROVE  LinkedUp(n)'
<1>1. parent'[n] = m /\ Depth(m)' = s
  BY DEF Continues
<1>2. Len(path'[parent'[n]]) = s /\ path'[parent'[n]] = path'[m]
      /\ children'[parent'[n]] = children'[m]
  BY <1>1 DEF Depth
<1>3. /\ Len(path'[n]) = Len(path'[parent'[n]]) + Size(n)'
      /\ Agree(path'[n], path'[parent'[n]], Len(path'[parent'[n]]))
      /\ \A i \in 1..Size(n)' : path'[n][Len(path'[parent'[n]]) + i] = edge'[n][i]
  BY <1>2 DEF Depth, Continues
<1> QED
  BY <1>2, <1>3 DEF LinkedUp, Depth, Continues

\* A node whose children keep their parent and first key stays linked downwards.
LEMMA StaysLinkedDown ==
    ASSUME NEW n, LinkedDown(n), children'[n] = children[n],
           \A k \in DOMAIN children[n] :
              /\ parent'[children[n][k]] = parent[children[n][k]]
              /\ edge'[children[n][k]][1] = edge[children[n][k]][1]
    PROVE  LinkedDown(n)'
  BY DEF LinkedDown

\* The links depend on these fields alone.
LEMMA StaysLinked ==
    ASSUME LinkInv, UNCHANGED <<edge, ids, parent, children, path>>
    PROVE  LinkInv'
<1>1. Nodes' = Nodes /\ Inner' = Inner
  BY DEF Nodes, Inner
<1>2. Rooted'
  BY DEF LinkInv, Rooted
<1>3. ASSUME NEW n \in Inner PROVE LinkedUp(n)'
  <2>1. LinkedUp(n)
    BY DEF LinkInv
  <2> QED
    BY <2>1, StaysLinkedUp DEF LinkedUp
<1>4. ASSUME NEW n \in Nodes PROVE LinkedDown(n)'
  BY StaysLinkedDown DEF LinkInv
<1> QED
  BY <1>1, <1>2, <1>3, <1>4 DEF LinkInv

\* A touch disturbs neither the links nor the block table.
LEMMA TouchedTree ==
    ASSUME TreeInv, NEW c \in Inner, older' = Touched(Nodes, c),
           UNCHANGED <<edge, ids, parent, children, locations, path>>
    PROVE  TreeInv'
<1>1. Nodes' = Nodes /\ Inner' = Inner
  BY DEF Nodes, Inner
<1>2. Linear(older, Inner)
  BY OrderIsLinear DEF TreeInv
<1>3. Linear(older', Inner)
  <2>1. c \in Nodes \ {Root} /\ Nodes \ {Root, c} \subseteq Inner /\ Nodes \ {Root} = Inner
    BY DEF Inner
  <2>2. Linear(Touched(Nodes, c), Nodes \ {Root})
    BY <1>2, <2>1, TouchKeeps
  <2> QED
    BY <2>1, <2>2
<1>4. TreeTyped'
  BY <1>1, <1>3 DEF TreeInv, TreeTyped, Linear
<1>5. LinkInv'
  BY StaysLinked DEF TreeInv
<1>6. LocationInv'
  BY <1>1 DEF TreeInv, LocationInv
<1>7. OrderInv'
  BY <1>1, <1>3 DEF Linear, OrderInv
<1> QED
  BY <1>4, <1>5, <1>6, <1>7 DEF TreeInv

\* A step on the locals of a call keeps the tree.
LEMMA UnchangedTree ==
    ASSUME TreeInv, UNCHANGED tree
    PROVE  TreeInv'
<1>1. Nodes' = Nodes /\ Inner' = Inner
  BY DEF tree, Nodes, Inner
<1>2. TreeTyped'
  BY <1>1 DEF tree, TreeInv, TreeTyped
<1>3. LinkInv'
  BY StaysLinked DEF tree, TreeInv
<1>4. LocationInv'
  BY <1>1 DEF tree, TreeInv, LocationInv
<1>5. OrderInv'
  BY <1>1 DEF tree, TreeInv, OrderInv
<1> QED
  BY <1>2, <1>3, <1>4, <1>5 DEF TreeInv

---------------------------------------------------------------------------
(* The walks of match and insert *)

\* The keys of a call are a non-empty sequence.
LEMMA PathsAreSequences ==
    ASSUME NEW k \in Paths
    PROVE  k \in Seq(Keys) /\ Len(k) \in Nat /\ Len(k) > 0
<1>1. PICK n \in 1..MaxDepth : k \in [1..n -> Keys]
  BY DEF Paths
<1>2. n \in Nat /\ n > 0
  BY DepthAssumption
<1> QED
  BY <1>1, <1>2, FunctionIsSeq

\* The invariant of a call in its loop, as the state of a walk.
LEMMA WalkIs ==
    ASSUME IndInv, op \in {"match", "insert"}
    PROVE  /\ Walking /\ keys \in Paths /\ keys \in Seq(Keys)
           /\ position \in Nat /\ Len(keys) \in Nat /\ position <= Len(keys)
           /\ op = "match" => Len(matched) = position
<1>1. Walking /\ keys \in Paths /\ (op = "match" => Len(matched) = position)
  BY DEF IndInv, TypeOK, Walking, CallInv
<1>2. keys \in Seq(Keys) /\ Len(keys) \in Nat
  BY <1>1, PathsAreSequences
<1> QED
  BY <1>1, <1>2 DEF Walking, CallTyped

\* What the walk knows of the child it found, in the index.
LEMMA EdgeIndexed ==
    ASSUME Walking, HasChild, position \in Nat
    PROVE  /\ \A j \in 1..Common :
                 IndexOfTree[SubSeq(keys, 1, position + j)] = ids[Child][j]
           /\ Common < Size(Child) =>
                 \A i \in 1..Len(keys) :
                    SubSeq(keys, 1, i) \in DOMAIN IndexOfTree <=> i <= position + Common
<1> DEFINE c == Child
           e == position + Common
<1>0. TreeTyped /\ LinkInv /\ keys \in Seq(Keys) /\ Len(keys) \in Nat
  BY LenProperties DEF Walking, CallTyped
<1>1. /\ c \in Inner /\ Start(c) = position /\ Depth(c) = position + Size(c)
      /\ Common \in 1..Size(c) /\ e \in 0..Len(keys)
      /\ Agree(path[c], keys, e)
      /\ Common < Size(c) /\ e < Len(keys) => path[c][e + 1] # keys[e + 1]
  BY ChildIs
<1> HIDE DEF c
<1>2. c \in Nodes /\ Size(c) \in Nat /\ Depth(c) \in Nat
  BY <1>0, <1>1, PathLengths
<1>3. PICK m \in Nat : m = Common /\ m \in 1..Size(c)
  BY <1>1, <1>2
<1>4. ASSUME NEW j \in 1..m
      PROVE  IndexOfTree[SubSeq(keys, 1, position + j)] = ids[c][j]
  <2>1. position + j \in 1..Len(keys) /\ position + j \in Nat /\ position + j <= e /\ e \in Nat
        /\ (position + j) - position = j /\ Covers(c, position + j)
    BY <1>0, <1>1, <1>2, <1>3, SMTT(30) DEF Covers
  <2>2. Agree(path[c], keys, position + j)
    BY <1>1, <2>1, AgreeLess
  <2> QED
    BY <1>0, <1>1, <2>1, <2>2, KeysIndexed
<1>5. ASSUME m < Size(c)
      PROVE  \A i \in 1..Len(keys) : SubSeq(keys, 1, i) \in DOMAIN IndexOfTree <=> i <= e
  <2>1. e \in Nat /\ e <= Depth(c) /\ e < Depth(c) /\ Covers(c, e)
    BY <1>1, <1>2, <1>3, <1>5 DEF Covers
  <2>2. ASSUME e < Len(keys), NEW x \in Inner, Covers(x, e + 1)
        PROVE  ~Agree(path[x], keys, e + 1)
    <3>1. path[c][e + 1] # keys[e + 1]
      BY <1>1, <1>3, <1>5, <2>2
    <3> HIDE DEF e
    <3> QED
      BY <1>0, <1>1, <2>1, <2>2, <3>1, EdgeLeft
  <2> HIDE DEF e
  <2> QED
    BY <1>0, <1>1, <1>2, <2>1, <2>2, NothingBeyond
<1> QED
  BY <1>3, <1>4, <1>5 DEF c

\* A walk that finds no child knows that nothing longer is indexed.
LEMMA WalkEnds ==
    ASSUME Walking, ~HasChild
    PROVE  \A i \in 1..Len(keys) :
              SubSeq(keys, 1, i) \in DOMAIN IndexOfTree <=> i <= position
<1>1. TreeTyped /\ LinkInv /\ keys \in Seq(Keys) /\ node \in Nodes
      /\ position \in 0..Len(keys) /\ Len(keys) \in Nat /\ Depth(node) = position
      /\ Agree(path[node], keys, position)
  BY LenProperties DEF Walking, CallTyped
<1>2. position \in Nat /\ position <= Depth(node)
  BY <1>1
<1>3. position < Len(keys) =>
        \A m \in Inner : Covers(m, position + 1) => ~Agree(path[m], keys, position + 1)
  BY DeadEnd
<1> QED
  BY <1>1, <1>2, <1>3, NothingBeyond

---------------------------------------------------------------------------
(* Steps of match *)

Quiet == IndInv' /\ IndexOfTree' = IndexOfTree

\* match begins at the root, with nothing matched.
LEMMA MatchStep ==
    ASSUME IndInv, NEW k \in Paths, Match(k)
    PROVE  Quiet
<1>1. TreeInv /\ TypeOK /\ CallInv /\ TreeTyped
  BY DEF IndInv, TreeInv, TypeOK
<1>2. UNCHANGED tree
  BY DEF Match
<1>3. TreeInv' /\ IndexOfTree' = IndexOfTree /\ TreeTyped'
  BY <1>1, <1>2, UnchangedTree, UnchangedIndex DEF tree, TreeInv
<1>4. k \in Seq(Keys) /\ Len(k) \in Nat /\ node = Root /\ position = 0 /\ Len(matched) = 0
  BY <1>1, PathsAreSequences DEF CallInv, Match
<1>5. CallTyped'
  <2>1. Nodes' = Nodes
    BY <1>2 DEF tree, Nodes
  <2> QED
    BY <1>1, <1>4, <2>1 DEF Match, TypeOK, CallTyped
<1>6. Depth(node)' = 0
  <2>1. Len(path[Root]) = 0 /\ path' = path /\ node' = Root
    BY <1>1, <1>2, <1>4 DEF tree, TreeInv, LinkInv, Rooted, Match
  <2> QED
    BY <2>1 DEF Depth
<1>7. CallInv'
  <2>1. keys' \in Paths /\ Agree(path[node], keys, position)'
    BY <1>4 DEF Match, Agree
  <2>2. op' = "match" /\ position' = 0 /\ Len(matched') = 0
    BY <1>4 DEF Match
  <2> QED
    BY <1>6, <2>1, <2>2 DEF CallInv
<1> QED
  BY <1>3, <1>5, <1>7 DEF IndInv, TreeInv, TypeOK, Quiet

\* match goes down one edge, or stops inside it, with the blocks of the pages passed.
LEMMA MatchFollowStep ==
    ASSUME IndInv, MatchFollow
    PROVE  Quiet
<1> DEFINE c == Child
           m == Common
<1>1. /\ TreeInv /\ TypeOK /\ CallInv /\ TreeTyped /\ LinkInv
      /\ op = "match" /\ HasChild
  BY DEF IndInv, TreeInv, TypeOK, MatchFollow
<1>2. /\ Walking /\ keys \in Paths /\ keys \in Seq(Keys)
      /\ position \in Nat /\ Len(keys) \in Nat /\ position <= Len(keys)
      /\ Len(matched) = position
  BY <1>1, WalkIs
<1>3. /\ c \in Inner /\ Depth(c) = position + Size(c)
      /\ m \in 1..Size(c) /\ position + m \in 0..Len(keys)
      /\ Agree(path[c], keys, position + m)
  BY <1>1, <1>2, ChildIs
<1>4. /\ \A j \in 1..m : IndexOfTree[SubSeq(keys, 1, position + j)] = ids[c][j]
      /\ m < Size(c) =>
            \A i \in 1..Len(keys) : SubSeq(keys, 1, i) \in DOMAIN IndexOfTree <=> i <= position + m
  BY <1>1, <1>2, EdgeIndexed
<1>5. /\ matched' = matched \o SubSeq(ids[c], 1, m) /\ older' = Touched(Nodes, c)
      /\ position' = position + m
      /\ UNCHANGED <<edge, ids, parent, children, locations, path, keys, blocks>>
      /\ \/ m < Size(c) /\ op' = "matched" /\ node' = node
         \/ ~(m < Size(c)) /\ op' = "match" /\ node' = c
  BY <1>1 DEF MatchFollow, AfterEdge, Size
<1> HIDE DEF c, m
<1>6. c \in Nodes /\ Size(c) \in Nat /\ ids[c] \in Seq(Ids) /\ Len(ids[c]) = Size(c)
  <2>1. c \in Nodes /\ Size(c) \in Nat /\ ids[c] \in Seq(Ids)
    BY <1>1, <1>3, PathLengths, Lengths
  <2> QED
    BY <1>1, <1>3, <2>1 DEF LinkInv, LinkedUp
<1>7. TreeInv'
  BY <1>1, <1>3, <1>5, TouchedTree
<1>8. IndexOfTree' = IndexOfTree
  BY <1>5, UnchangedIndex
<1>9. /\ SubSeq(ids[c], 1, m) \in Seq(Ids) /\ Len(SubSeq(ids[c], 1, m)) = m
      /\ \A j \in 1..m : SubSeq(ids[c], 1, m)[j] = ids[c][j]
  <2>1. m \in 0..Len(ids[c])
    BY <1>3, <1>6
  <2> QED
    BY <1>6, <2>1, FirstPart
<1>10. /\ matched' \in Seq(Ids) /\ Len(matched') = position + m
       /\ \A i \in 1..position : matched'[i] = matched[i]
       /\ \A j \in 1..m : matched'[position + j] = ids[c][j]
  <2>1. matched \in Seq(Ids)
    BY <1>1 DEF TypeOK, CallTyped
  <2> DEFINE s == SubSeq(ids[c], 1, m)
  <2>2. s \in Seq(Ids) /\ matched' = matched \o s /\ Len(s) = m
    BY <1>5, <1>9
  <2>3. /\ matched \o s \in Seq(Ids) /\ Len(matched \o s) = position + m
        /\ \A i \in 1..(position + m) :
              (matched \o s)[i] = IF i <= position THEN matched[i] ELSE s[i - position]
    <3> HIDE DEF s
    <3> QED
      BY <1>2, <2>1, <2>2, ConcatProperties
  <2>4. \A j \in 1..m : position + j \in 1..(position + m) /\ ~(position + j <= position)
                        /\ (position + j) - position = j
    BY <1>2, <1>3, <1>6
  <2>5. \A i \in 1..position : i \in 1..(position + m)
    BY <1>2, <1>3, <1>6
  <2>6. \A j \in 1..m : s[j] = ids[c][j]
    BY <1>9
  <2> HIDE DEF s
  <2> QED
    BY <2>2, <2>3, <2>4, <2>5, <2>6, SMTT(30)
<1>11. \A i \in 1..(position + m) : matched'[i] = IndexOfTree[SubSeq(keys, 1, i)]
  <2> SUFFICES ASSUME NEW i \in 1..(position + m)
               PROVE  matched'[i] = IndexOfTree[SubSeq(keys, 1, i)]
    OBVIOUS
  <2>1. CASE i <= position
    <3>1. i \in 1..position
      BY <2>1
    <3>2. matched[i] = IndexOfTree[SubSeq(keys, 1, i)]
      BY <1>1, <3>1 DEF CallInv
    <3> QED
      BY <1>10, <3>1, <3>2
  <2>2. CASE position < i
    <3>1. PICK j \in 1..m : i = position + j
      <4>1. i - position \in 1..m /\ i = position + (i - position)
        BY <1>2, <1>3, <1>6, <2>2
      <4> QED
        BY <4>1
    <3> QED
      BY <1>4, <1>10, <3>1
  <2> QED
    BY <1>2, <2>1, <2>2
<1>12. CallTyped'
  <2>1. Nodes' = Nodes /\ node \in Nodes
    BY <1>1, <1>5 DEF Nodes, TypeOK, CallTyped
  <2> QED
    BY <1>1, <1>3, <1>5, <1>6, <1>10, <2>1 DEF TypeOK, CallTyped
<1>13. op' = "match" => Depth(node)' = position' /\ Agree(path[node], keys, position)'
  <2> SUFFICES ASSUME op' = "match"
               PROVE  Depth(node)' = position' /\ Agree(path[node], keys, position)'
    OBVIOUS
  <2>1. m = Size(c) /\ node' = c /\ Depth(c) = position + m
    BY <1>3, <1>5, <1>6
  <2>2. Len(path'[node']) = position'
    BY <1>5, <2>1 DEF Depth
  <2>3. Agree(path'[node'], keys', position')
    BY <1>3, <1>5, <2>1
  <2> QED
    BY <2>2, <2>3 DEF Depth
<1>14. CallInv'
  <2>1. op' = "matched" =>
           \A i \in 1..Len(keys) : SubSeq(keys, 1, i) \in DOMAIN IndexOfTree' <=> i <= position'
    BY <1>1, <1>4, <1>5, <1>8
  <2>2. Len(matched') = position' /\ \A i \in 1..position' :
                                      matched'[i] = IndexOfTree'[SubSeq(keys, 1, i)]
    BY <1>5, <1>8, <1>10, <1>11
  <2>3. keys' = keys /\ op' \in {"match", "matched"}
    BY <1>5
  <2> QED
    BY <1>2, <1>13, <2>1, <2>2, <2>3 DEF CallInv
<1> QED
  BY <1>7, <1>8, <1>12, <1>14 DEF IndInv, TreeInv, TypeOK, Quiet

\* match finds no child, and has the longest prefix.
LEMMA MatchStopStep ==
    ASSUME IndInv, MatchStop
    PROVE  Quiet
<1>1. /\ TreeInv /\ TypeOK /\ CallInv /\ op = "match" /\ op' = "matched"
      /\ UNCHANGED <<tree, keys, blocks, node, position, matched>>
  BY DEF IndInv, TypeOK, TreeInv, MatchStop
<1>2. Walking /\ keys \in Seq(Keys) /\ Len(matched) = position
  BY <1>1, WalkIs
<1>3. ~HasChild
  <2> SUFFICES ASSUME HasChild PROVE FALSE
    OBVIOUS
  <2>1. Common \in 1..Size(Child)
    BY <1>2, ChildIs
  <2> QED
    BY <2>1 DEF MatchStop
<1>4. TreeInv' /\ IndexOfTree' = IndexOfTree
  BY <1>1, UnchangedTree, UnchangedIndex DEF tree
<1>5. CallTyped'
  BY <1>1 DEF tree, Nodes, TypeOK, CallTyped
<1>6. CallInv'
  <2>1. \A i \in 1..Len(keys) : SubSeq(keys, 1, i) \in DOMAIN IndexOfTree <=> i <= position
    BY <1>2, <1>3, WalkEnds
  <2> QED
    BY <1>1, <1>2, <1>4, <2>1 DEF CallInv
<1> QED
  BY <1>4, <1>5, <1>6 DEF IndInv, TreeInv, TypeOK, Quiet

\* A call that returns leaves no trace in its locals.
LEMMA Returns ==
    ASSUME TreeTyped', Return
    PROVE  CallTyped' /\ CallInv'
<1>1. <<>> \in Seq(Keys) /\ <<>> \in Seq(Ids) /\ Len(<<>>) = 0
  OBVIOUS
<1>2. CallTyped'
  BY <1>1 DEF Return, CallTyped, TreeTyped
<1>3. CallInv'
  BY <1>1 DEF Return, CallInv
<1> QED
  BY <1>2, <1>3

\* match returns.
LEMMA MatchReturnStep ==
    ASSUME IndInv, MatchReturn
    PROVE  Quiet
<1>1. TreeInv /\ UNCHANGED tree /\ Return
  BY DEF IndInv, TreeInv, TypeOK, MatchReturn
<1>2. TreeInv' /\ IndexOfTree' = IndexOfTree
  BY <1>1, UnchangedTree, UnchangedIndex DEF tree
<1> QED
  BY <1>1, <1>2, Returns DEF IndInv, TreeInv, TypeOK, Quiet

---------------------------------------------------------------------------
(* Steps of insert that only walk *)

\* What insert may be called with depends on the index alone.
LEMMA MayStillInsert ==
    ASSUME MayInsert(keys, blocks), IndexOfTree' = IndexOfTree, UNCHANGED <<keys, blocks>>
    PROVE  MayInsert(keys, blocks)'
  BY DEF MayInsert

\* insert begins at the root.
LEMMA InsertStep ==
    ASSUME IndInv, NEW k \in Paths, NEW b \in [1..Len(k) -> Ids], Insert(k, b)
    PROVE  Quiet
<1>1. /\ TreeInv /\ TypeOK /\ CallInv /\ op = "idle" /\ op' = "insert" /\ MayInsert(k, b)
      /\ keys' = k /\ blocks' = b /\ UNCHANGED <<tree, node, position, matched>>
  BY DEF IndInv, TypeOK, TreeInv, Insert
<1>2. k \in Seq(Keys) /\ Len(k) \in Nat /\ node = Root /\ position = 0
  BY <1>1, PathsAreSequences DEF CallInv
<1>3. b \in Seq(Ids) /\ Len(b) = Len(k)
  BY <1>2, FunctionIsSeq
<1>4. TreeInv' /\ IndexOfTree' = IndexOfTree
  BY <1>1, UnchangedTree, UnchangedIndex DEF tree
<1>5. CallTyped'
  <2>1. Nodes' = Nodes
    BY <1>1 DEF tree, Nodes
  <2> QED
    BY <1>1, <1>2, <1>3, <2>1 DEF TypeOK, CallTyped
<1>6. CallInv'
  <2>1. Len(path[Root]) = 0 /\ path' = path
    BY <1>1 DEF tree, TreeInv, LinkInv, Rooted
  <2>2. Depth(node)' = 0
    BY <1>1, <1>2, <2>1 DEF Depth
  <2>3. Agree(path[node], keys, position)'
    BY <1>1, <1>2 DEF Agree
  <2>4. MayInsert(keys, blocks)'
    <3>1. MayInsert(keys', blocks')
      BY <1>1
    <3> QED
      BY <1>4, <3>1 DEF MayInsert
  <2> QED
    BY <1>1, <1>2, <1>3, <2>2, <2>3, <2>4 DEF CallInv
<1> QED
  BY <1>4, <1>5, <1>6 DEF IndInv, TreeInv, TypeOK, Quiet

\* insert goes down one whole edge.
LEMMA InsertFollowStep ==
    ASSUME IndInv, InsertFollow
    PROVE  Quiet
<1> DEFINE c == Child
           m == Common
<1>1. /\ TreeInv /\ TypeOK /\ CallInv /\ TreeTyped /\ LinkInv
      /\ op = "insert" /\ HasChild /\ m = Size(c)
      /\ older' = Touched(Nodes, c) /\ node' = c /\ position' = position + m
      /\ UNCHANGED <<edge, ids, parent, children, locations, path, op, keys, blocks, matched>>
  BY DEF IndInv, TypeOK, TreeInv, InsertFollow, Size
<1>2. /\ Walking /\ keys \in Paths /\ keys \in Seq(Keys)
      /\ position \in Nat /\ Len(keys) \in Nat
  BY <1>1, WalkIs
<1>3. /\ c \in Inner /\ Depth(c) = position + Size(c)
      /\ m \in 1..Size(c) /\ position + m \in 0..Len(keys)
      /\ Agree(path[c], keys, position + m)
  BY <1>1, <1>2, ChildIs
<1> HIDE DEF c, m
<1>4. TreeInv' /\ IndexOfTree' = IndexOfTree
  BY <1>1, <1>3, TouchedTree, UnchangedIndex
<1>5. CallTyped'
  <2>1. Nodes' = Nodes /\ c \in Nodes
    BY <1>1, <1>3 DEF Nodes, Inner
  <2> QED
    BY <1>1, <1>3, <2>1 DEF TypeOK, CallTyped
<1>6. CallInv'
  <2>1. Depth(node)' = position'
    BY <1>1, <1>3 DEF Depth
  <2>2. Agree(path[node], keys, position)'
    BY <1>1, <1>3
  <2>3. MayInsert(keys, blocks)' /\ Len(blocks') = Len(keys')
    BY <1>1, <1>4, MayStillInsert DEF CallInv
  <2> QED
    BY <1>1, <1>2, <2>1, <2>2, <2>3 DEF CallInv
<1> QED
  BY <1>4, <1>5, <1>6 DEF IndInv, TreeInv, TypeOK, Quiet

\* insert runs out of keys: all of their prefixes were indexed before.
LEMMA InsertNothingStep ==
    ASSUME IndInv, InsertNothing
    PROVE  Quiet /\ \A i \in 1..Len(keys) : SubSeq(keys, 1, i) \in DOMAIN IndexOfTree
<1>1. /\ TreeInv /\ TypeOK /\ CallInv /\ TreeTyped /\ LinkInv /\ op = "insert" /\ Return
      /\ UNCHANGED <<edge, ids, parent, children, locations, path>>
  BY DEF IndInv, TypeOK, TreeInv, InsertNothing
<1>2. /\ Walking /\ keys \in Seq(Keys) /\ position \in Nat /\ Len(keys) \in Nat
  BY <1>1, WalkIs
<1>3. IndexOfTree' = IndexOfTree
  BY <1>1, UnchangedIndex
<1>4. CASE position = Len(keys) /\ UNCHANGED older
  <2>1. TreeInv'
    BY <1>1, <1>4, UnchangedTree DEF tree
  <2>2. ~HasChild
    BY <1>2, <1>4 DEF HasChild
  <2>3. \A i \in 1..Len(keys) : SubSeq(keys, 1, i) \in DOMAIN IndexOfTree
    BY <1>2, <1>4, <2>2, WalkEnds
  <2> QED
    BY <1>1, <1>3, <2>1, <2>3, Returns DEF IndInv, TreeInv, TypeOK, Quiet
<1>5. CASE /\ HasChild /\ Common < Size(Child) /\ position + Common = Len(keys)
           /\ older' = Touched(Nodes, Child)
  <2>1. Child \in Inner
    BY <1>2, <1>5, ChildIs
  <2>2. TreeInv'
    BY <1>1, <1>5, <2>1, TouchedTree
  <2>3. \A i \in 1..Len(keys) : SubSeq(keys, 1, i) \in DOMAIN IndexOfTree
    BY <1>2, <1>5, EdgeIndexed
  <2> QED
    BY <1>1, <1>3, <2>2, <2>3, Returns DEF IndInv, TreeInv, TypeOK, Quiet
<1> QED
  BY <1>4, <1>5 DEF InsertNothing, Size

\* _compress goes on with the parent, or ends at the root.
LEMMA CompressUpStep ==
    ASSUME IndInv, CompressUp
    PROVE  Quiet
<1>1. /\ TreeInv /\ TypeOK /\ CallInv /\ TreeTyped /\ op = "compress"
      /\ UNCHANGED tree /\ CompressFrom(parent[node])
  BY DEF IndInv, TypeOK, TreeInv, CompressUp
<1>2. TreeInv' /\ IndexOfTree' = IndexOfTree /\ TreeTyped' /\ Nodes' = Nodes /\ Inner' = Inner
  BY <1>1, UnchangedTree, UnchangedIndex DEF tree, TreeInv, Nodes, Inner
<1>3. CASE parent[node] = Root
  BY <1>1, <1>2, <1>3, Returns DEF CompressFrom, IndInv, TreeInv, TypeOK, Quiet
<1>4. CASE parent[node] # Root
  <2>1. /\ op' = "compress" /\ node' = parent[node]
        /\ UNCHANGED <<keys, blocks, position, matched>>
    BY <1>1, <1>4 DEF CompressFrom
  <2>2. node' \in Nodes /\ node' \in Inner
    BY <1>1, <1>4, <2>1 DEF TypeOK, CallTyped, TreeTyped, Inner
  <2>3. CallTyped' /\ CallInv'
    BY <1>1, <1>2, <2>1, <2>2 DEF TypeOK, CallTyped, CallInv
  <2> QED
    BY <1>2, <2>3 DEF IndInv, TreeInv, TypeOK, Quiet
<1> QED
  BY <1>3, <1>4

---------------------------------------------------------------------------
(* Blocks and their places *)

\* Membership in the range of a sequence, by position.
LEMMA RangeIs ==
    ASSUME NEW S, NEW s \in Seq(S), NEW b
    PROVE  b \in Range(s) <=> \E i \in 1..Len(s) : s[i] = b
<1>1. DOMAIN s = 1..Len(s)
  BY LenProperties
<1> QED
  BY <1>1 DEF Range

\* The range of a sequence lies in its set of members.
LEMMA RangeIn ==
    ASSUME NEW S, NEW s \in Seq(S)
    PROVE  Range(s) \subseteq S
<1>1. \A i \in 1..Len(s) : s[i] \in S
  BY LenProperties
<1> QED
  BY <1>1, RangeIs

Distinct(s) == \A i, j \in 1..Len(s) : s[i] = s[j] => i = j

\* _index_node on a run of different blocks.
LEMMA IndexNodeIs ==
    ASSUME NEW S, NEW table, NEW n, NEW s, NEW offset, NEW t,
           t = IndexNode(table, n, s, offset), s \in Seq(S), offset \in Nat, Distinct(s)
    PROVE  /\ \A b : b \in DOMAIN t <=> b \in DOMAIN table \/ b \in Range(s)
           /\ \A i \in 1..Len(s) : t[s[i]].node = n /\ t[s[i]].at = offset + i
           /\ \A b \in DOMAIN table : b \notin Range(s) => t[b] = table[b]
<1> DEFINE R == Range(s)
           place(b) == CHOOSE i \in 1..Len(s) : s[i] = b
<1>1. DOMAIN s = 1..Len(s)
  BY LenProperties
<1>2. t = [b \in DOMAIN table \cup R |->
             IF b \in R THEN [node |-> n, at |-> offset + place(b)] ELSE table[b]]
  BY <1>1 DEF IndexNode
<1>3. \A b \in R : place(b) \in 1..Len(s) /\ s[place(b)] = b
  BY RangeIs
<1>4. \A i \in 1..Len(s) : s[i] \in R
  BY RangeIs
<1>5. \A i \in 1..Len(s) : place(s[i]) = i
  BY <1>3, <1>4 DEF Distinct
<1> HIDE DEF R, place
<1>6. DOMAIN t = DOMAIN table \cup R
  BY <1>2
<1>7. \A i \in 1..Len(s) : t[s[i]] = [node |-> n, at |-> offset + i]
  BY <1>2, <1>4, <1>5
<1>8. \A b \in DOMAIN table : b \notin R => t[b] = table[b]
  BY <1>2
<1>9. ASSUME NEW i \in 1..Len(s) PROVE t[s[i]].node = n /\ t[s[i]].at = offset + i
  <2> DEFINE o == offset + i
  <2>1. t[s[i]] = [node |-> n, at |-> o]
    BY <1>7
  <2> HIDE DEF o
  <2>2. t[s[i]].node = n /\ t[s[i]].at = o
    BY <2>1
  <2> QED
    BY <2>2 DEF o
<1> QED
  BY <1>6, <1>7, <1>8, <1>9 DEF R

\* _index_node yields a table of nodes and positions.
LEMMA IndexNodeTyped ==
    ASSUME NEW table, NEW W, NEW n \in W, NEW S, NEW s \in Seq(S), NEW offset \in Nat,
           Distinct(s),
           table \in [DOMAIN table -> [node : W, at : Nat]]
    PROVE  LET t == IndexNode(table, n, s, offset)
           IN  t \in [DOMAIN table \cup Range(s) -> [node : W, at : Nat]]
<1> DEFINE L == [node : W, at : Nat]
           place(b) == CHOOSE i \in 1..Len(s) : s[i] = b
           t == [b \in DOMAIN table \cup Range(s) |->
                   IF b \in Range(s) THEN [node |-> n, at |-> offset + place(b)] ELSE table[b]]
<1>1. DOMAIN s = 1..Len(s) /\ Len(s) \in Nat
  BY LenProperties
<1>2. IndexNode(table, n, s, offset) = t
  BY <1>1 DEF IndexNode
<1>3. ASSUME NEW b \in Range(s) PROVE [node |-> n, at |-> offset + place(b)] \in L
  <2>1. place(b) \in 1..Len(s)
    BY RangeIs
  <2> HIDE DEF place
  <2>2. offset + place(b) \in Nat
    BY <1>1, <2>1
  <2> QED
    BY <2>2
<1>4. \A b \in DOMAIN table : table[b] \in L
  OBVIOUS
<1> HIDE DEF L, place
<1>5. t \in [DOMAIN table \cup Range(s) -> L]
  BY <1>3, <1>4
<1> QED
  BY <1>2, <1>5 DEF L

\* The page a block stands for, and the block of a page.
LEMMA LocationIndexed ==
    ASSUME TreeInv, NEW b \in DOMAIN locations
    PROVE  LET n == locations[b].node
               e == Start(n) + locations[b].at
               p == SubSeq(path[n], 1, e)
           IN  /\ n \in Inner /\ locations[b].at \in 1..Size(n) /\ ids[n][locations[b].at] = b
               /\ e \in 1..Depth(n) /\ p \in Seq(Keys) /\ Len(p) = e /\ Agree(p, path[n], e)
               /\ EndsOn(n, p) /\ p \in DOMAIN IndexOfTree /\ IndexOfTree[p] = b
<1> DEFINE n == locations[b].node
           at == locations[b].at
           e == Start(n) + at
           p == SubSeq(path[n], 1, e)
<1>1. n \in Inner /\ at \in Nat
  BY DEF TreeInv, TreeTyped
<1>2. at \in 1..Len(ids[n]) /\ ids[n][at] = b
  BY DEF TreeInv, LocationInv
<1> HIDE DEF n, at
<1>3. /\ n \in Nodes /\ Start(n) \in Nat /\ Depth(n) \in Nat /\ Size(n) \in Nat
      /\ Depth(n) = Start(n) + Size(n) /\ Len(ids[n]) = Size(n) /\ path[n] \in Seq(Keys)
  <2>1. n \in Nodes
    BY <1>1 DEF Inner
  <2>2. Len(ids[n]) = Size(n) /\ path[n] \in Seq(Keys)
    BY <1>1, <2>1, Lengths DEF TreeInv, LinkInv, LinkedUp
  <2> QED
    BY <1>1, <2>1, <2>2, PathLengths DEF TreeInv
<1>4. at \in 1..Size(n) /\ e \in 1..Depth(n) /\ e \in Nat /\ e \in 0..Len(path[n])
      /\ Start(n) < e /\ e - Start(n) = at
  BY <1>1, <1>2, <1>3 DEF Depth
<1>5. p \in Seq(Keys) /\ Len(p) = e /\ \A i \in 1..e : p[i] = path[n][i]
  BY <1>3, <1>4, FirstPart
<1> HIDE DEF e, p
<1>6. Agree(p, path[n], e) /\ EndsOn(n, p) /\ Block(n, p) = b
  BY <1>2, <1>3, <1>4, <1>5 DEF Agree, EndsOn, Covers, Block
<1>7. p \in DOMAIN IndexOfTree /\ IndexOfTree[p] = b
  <2>1. PrefixMap
    BY PrefixMapIs DEF TreeInv
  <2> QED
    BY <1>1, <1>5, <1>6, <2>1 DEF PrefixMap
<1> QED
  BY <1>1, <1>2, <1>4, <1>5, <1>6, <1>7 DEF n, at, e, p

\* The block of a page is found in block_locations at the node and position of the page.
LEMMA PageLocated ==
    ASSUME TreeInv, NEW n \in Inner, NEW p \in Seq(Keys), EndsOn(n, p)
    PROVE  LET at == Len(p) - Start(n)
           IN  /\ at \in 1..Size(n) /\ at \in 1..Len(ids[n])
               /\ Block(n, p) = ids[n][at] /\ Block(n, p) \in Ids
               /\ Block(n, p) \in DOMAIN locations
               /\ locations[Block(n, p)].node = n /\ locations[Block(n, p)].at = at
<1> DEFINE at == Len(p) - Start(n)
<1>1. /\ n \in Nodes /\ Start(n) \in Nat /\ Depth(n) \in Nat /\ Size(n) \in Nat
      /\ Depth(n) = Start(n) + Size(n) /\ Len(ids[n]) = Size(n) /\ ids[n] \in Seq(Ids)
  <2>1. n \in Nodes
    BY DEF Inner
  <2>2. Len(ids[n]) = Size(n) /\ ids[n] \in Seq(Ids)
    BY <2>1, Lengths DEF TreeInv, LinkInv, LinkedUp
  <2> QED
    BY <2>1, <2>2, PathLengths DEF TreeInv
<1>2. Len(p) \in Nat /\ Start(n) < Len(p) /\ Len(p) <= Depth(n)
  BY LenProperties DEF EndsOn, Covers
<1>3. at \in 1..Size(n) /\ at \in 1..Len(ids[n])
  BY <1>1, <1>2
<1>4. Block(n, p) = ids[n][at]
  BY DEF Block
<1> HIDE DEF at
<1>5. ids[n][at] \in Ids
  BY <1>1, <1>3, LenProperties
<1>6. ids[n][at] \in DOMAIN locations /\ locations[ids[n][at]].node = n
      /\ locations[ids[n][at]].at = at
  BY <1>3 DEF TreeInv, LocationInv
<1> QED
  BY <1>3, <1>4, <1>5, <1>6 DEF at

\* No block is held in two places.
LEMMA BlocksDiffer ==
    ASSUME TreeInv, NEW n \in Inner, NEW m \in Inner,
           NEW i \in 1..Len(ids[n]), NEW j \in 1..Len(ids[m]), ids[n][i] = ids[m][j]
    PROVE  n = m /\ i = j
<1>1. LocationInv
  BY DEF TreeInv
<1>2. locations[ids[n][i]].node = n /\ locations[ids[n][i]].at = i
  BY <1>1, Zenon DEF LocationInv
<1>3. locations[ids[m][j]].node = m /\ locations[ids[m][j]].at = j
  BY <1>1, Zenon DEF LocationInv
<1> QED
  BY <1>2, <1>3, Zenon

\* The index maps prefixes to blocks.
IndexTyped == \A p \in DOMAIN IndexOfTree : IndexOfTree[p] \in Ids

\* The index of a tree that satisfies the invariant is typed.
LEMMA IndexInIds ==
    TreeInv => IndexTyped
<1> SUFFICES ASSUME TreeInv, NEW p \in DOMAIN IndexOfTree PROVE IndexOfTree[p] \in Ids
  BY DEF IndexTyped
<1>1. PrefixMap
  BY PrefixMapIs DEF TreeInv
<1>2. PICK n \in Inner : p \in Seq(Keys) /\ EndsOn(n, p)
  BY <1>1 DEF PrefixMap
<1> QED
  BY <1>1, <1>2, PageLocated DEF PrefixMap

---------------------------------------------------------------------------
(* The tables after a step *)

Tables(N) ==
    /\ Nodes' = N /\ Inner' = N \ {Root}
    /\ edge' = [m \in N |-> edge'[m]] /\ ids' = [m \in N |-> ids'[m]]
    /\ parent' = [m \in N |-> parent'[m]] /\ path' = [m \in N |-> path'[m]]
    /\ DOMAIN children' = N

\* The types of the tables after a step, from those of each node that is left.
LEMMA TypedAgain ==
    ASSUME NEW N, Root \in N, N \subseteq Nat, IsFiniteSet(N), Tables(N),
           \A m \in N : /\ edge'[m] \in Seq(Keys) /\ ids'[m] \in Seq(Ids)
                        /\ parent'[m] \in N /\ path'[m] \in Seq(Keys),
           \A m \in N : /\ DOMAIN children'[m] \subseteq Keys
                        /\ children'[m] \in [DOMAIN children'[m] -> N \ {Root}],
           Linear(older', N \ {Root}),
           DOMAIN locations' \subseteq Ids,
           locations' \in [DOMAIN locations' -> [node : N \ {Root}, at : Nat]]
    PROVE  TreeTyped' /\ OrderInv'
<1>1. /\ edge' \in [N -> Seq(Keys)] /\ ids' \in [N -> Seq(Ids)]
      /\ parent' \in [N -> N] /\ path' \in [N -> Seq(Keys)]
  BY DEF Tables
<1>2. OrderInv'
  BY DEF Tables, Linear, OrderInv
<1>3. older' \in [N \ {Root} -> SUBSET (N \ {Root})]
  BY DEF Linear
<1>4. TreeTyped'
  BY <1>1, <1>3 DEF Tables, TreeTyped
<1> QED
  BY <1>2, <1>4

---------------------------------------------------------------------------
(* A new leaf *)

\* The blocks a leaf will hold are not indexed yet.
LEMMA BlocksAreNew ==
    ASSUME TreeInv, Walking, ~HasChild, MayInsert(keys, blocks), Len(blocks) = Len(keys),
           NEW i \in 1..Len(keys), position < i
    PROVE  blocks[i] \notin DOMAIN locations
<1> SUFFICES ASSUME blocks[i] \in DOMAIN locations PROVE FALSE
  OBVIOUS
<1> DEFINE n == locations[blocks[i]].node
           p == SubSeq(path[n], 1, Start(n) + locations[blocks[i]].at)
<1>1. p \in DOMAIN IndexOfTree /\ IndexOfTree[p] = blocks[i]
  BY LocationIndexed
<1> HIDE DEF p
<1>2. blocks \in Seq(Ids) /\ Len(keys) \in Nat /\ position \in Nat
  BY LenProperties DEF Walking, CallTyped
<1>3. i \in DOMAIN blocks
  BY <1>2, LenProperties
<1>4. p = SubSeq(keys, 1, i)
  BY <1>1, <1>3 DEF MayInsert
<1>5. i <= position
  BY <1>1, <1>4, WalkEnds
<1> QED
  BY <1>2, <1>5

\* The blocks of a call are different.
LEMMA BlocksAreDifferent ==
    ASSUME NEW b \in Seq(Ids), IsInjective(b), NEW i \in 1..Len(b), NEW j \in 1..Len(b),
           b[i] = b[j]
    PROVE  i = j
<1>1. DOMAIN b = 1..Len(b)
  BY LenProperties
<1> QED
  BY <1>1 DEF IsInjective

\* What InsertLeaf does to each node.
LeafAdded(q, n, k, e, d) ==
    /\ q \in Nodes /\ n \in Nat /\ n \notin Nodes /\ n # Root
    /\ Tables(Nodes \cup {n})
    /\ edge'[n] = e /\ ids'[n] = d /\ parent'[n] = q /\ path'[n] = keys
    /\ children'[n] = NoChildren
    /\ children'[q] = [x \in DOMAIN children'[q] |-> children'[q][x]]
    /\ DOMAIN children'[q] = DOMAIN children[q] \cup {k}
    /\ children'[q][k] = n
    /\ \A x \in DOMAIN children[q] \ {k} : children'[q][x] = children[q][x]
    /\ \A m \in Nodes \ {q} : children'[m] = children[m]
    /\ \A m \in Nodes : /\ edge'[m] = edge[m] /\ ids'[m] = ids[m]
                        /\ parent'[m] = parent[m] /\ path'[m] = path[m]
    /\ locations' = IndexNode(locations, n, d, 0)
    /\ older' = Touched(Nodes \cup {n}, n)

\* InsertLeaf hangs one new node under the node the walk has reached.
LEMMA LeafIs ==
    ASSUME IndInv, InsertLeaf
    PROVE  \E q, n : q = node /\ LeafAdded(q, n, keys[position + 1], From(keys, position + 1),
                                           From(blocks, position + 1))
<1> DEFINE r == From(keys, position + 1)
           d == From(blocks, position + 1)
           k == keys[position + 1]
<1>1. PICK q, n : q = node /\ n = Fresh
  OBVIOUS
<1>2. /\ edge' = Put(edge, n, r) /\ ids' = Put(ids, n, d) /\ parent' = Put(parent, n, q)
      /\ children' = Put([children EXCEPT ![q] = Put(@, k, n)], n, NoChildren)
      /\ older' = Touched(Nodes \cup {n}, n) /\ locations' = IndexNode(locations, n, d, 0)
      /\ path' = Put(path, n, keys)
  BY <1>1 DEF InsertLeaf
<1>3. TreeTyped /\ q \in Nodes /\ n \in Nat /\ n \notin Nodes /\ n # Root
  BY <1>1, FreshIs DEF IndInv, TypeOK, CallTyped
<1> HIDE DEF r, d, k
<1>4. /\ DOMAIN edge = Nodes /\ DOMAIN ids = Nodes /\ DOMAIN parent = Nodes
      /\ DOMAIN path = Nodes /\ DOMAIN children = Nodes
  BY <1>3 DEF TreeTyped
<1>5. Tables(Nodes \cup {n})
  BY <1>2, <1>3, <1>4 DEF Tables, Nodes, Inner, Put
<1>6. /\ edge'[n] = r /\ ids'[n] = d /\ parent'[n] = q /\ path'[n] = keys
      /\ children'[n] = NoChildren
  BY <1>2 DEF Put
<1>7. \A m \in Nodes : /\ edge'[m] = edge[m] /\ ids'[m] = ids[m]
                       /\ parent'[m] = parent[m] /\ path'[m] = path[m]
  BY <1>2, <1>3, <1>4 DEF Put
<1>8. \A m \in Nodes : children'[m] = [children EXCEPT ![q] = Put(@, k, n)][m]
  BY <1>2, <1>3, <1>4 DEF Put
<1>9. children'[q] = Put(children[q], k, n)
      /\ \A m \in Nodes \ {q} : children'[m] = children[m]
  BY <1>3, <1>4, <1>8
<1>10. /\ DOMAIN children'[q] = DOMAIN children[q] \cup {k}
       /\ children'[q][k] = n
       /\ \A x \in DOMAIN children[q] \ {k} : children'[q][x] = children[q][x]
       /\ children'[q] = [x \in DOMAIN children'[q] |-> children'[q][x]]
  BY <1>9 DEF Put
<1> HIDE DEF Nodes, Inner
<1>12. LeafAdded(q, n, k, r, d)
  BY <1>2, <1>3, <1>5, <1>6, <1>7, <1>9, <1>10 DEF LeafAdded
<1> QED
  BY <1>1, <1>12 DEF k, r, d

\* The situation of InsertLeaf, with the new node and its keys and blocks.
LeafSetting(q, n, k, e, d) ==
    /\ TreeInv /\ TreeTyped /\ LinkInv /\ Walking /\ ~HasChild
    /\ keys \in Seq(Keys) /\ Len(keys) \in Nat /\ position \in Nat /\ position < Len(keys)
    /\ q = node /\ q \in Nodes /\ Depth(q) = position /\ Agree(path[q], keys, position)
    /\ k \in Keys /\ k = keys[position + 1] /\ k \notin DOMAIN children[q]
    /\ e \in Seq(Keys) /\ Len(e) = Len(keys) - position
    /\ \A i \in 1..Len(e) : e[i] = keys[position + i]
    /\ d \in Seq(Ids) /\ Len(d) = Len(e)
    /\ Distinct(d)
    /\ \A b \in Range(d) : b \notin DOMAIN locations
    /\ LeafAdded(q, n, k, e, d)

\* InsertLeaf happens in the situation above.
LEMMA LeafSettingIs ==
    ASSUME IndInv, InsertLeaf
    PROVE  \E q, n, k, e, d : LeafSetting(q, n, k, e, d)
<1> DEFINE e == From(keys, position + 1)
           d == From(blocks, position + 1)
           k == keys[position + 1]
<1>1. /\ TreeInv /\ TypeOK /\ CallInv /\ TreeTyped /\ LinkInv
      /\ op = "insert" /\ position < Len(keys) /\ ~HasChild
  BY DEF IndInv, TreeInv, TypeOK, InsertLeaf
<1>2. /\ Walking /\ keys \in Seq(Keys) /\ position \in Nat /\ Len(keys) \in Nat
      /\ position \in 0..Len(keys)
  BY <1>1, WalkIs
<1>3. /\ blocks \in Seq(Ids) /\ Len(blocks) = Len(keys) /\ MayInsert(keys, blocks)
      /\ IsInjective(blocks)
  BY <1>1 DEF TypeOK, CallTyped, CallInv, MayInsert
<1>4. /\ e \in Seq(Keys) /\ Len(e) = Len(keys) - position
      /\ \A i \in 1..(Len(keys) - position) : e[i] = keys[position + i]
  BY <1>2, LastPart
<1>5. /\ d \in Seq(Ids) /\ Len(d) = Len(keys) - position
      /\ \A i \in 1..(Len(keys) - position) : d[i] = blocks[position + i]
  <2>1. blocks \in Seq(Ids) /\ Len(blocks) = Len(keys) /\ position \in 0..Len(blocks)
    BY <1>2, <1>3
  <2>2. /\ d \in Seq(Ids) /\ Len(d) = Len(blocks) - position
        /\ \A i \in 1..(Len(blocks) - position) : d[i] = blocks[position + i]
    BY <2>1, LastPart, ZenonT(40)
  <2> QED
    BY <2>1, <2>2
<1>6. k \in Keys /\ k \notin DOMAIN children[node]
  BY <1>1, <1>2, LenProperties DEF HasChild
<1>7. PICK q, n : q = node /\ LeafAdded(q, n, k, e, d)
  BY LeafIs
<1> HIDE DEF k, e, d
<1>8. PICK l \in Nat : l = Len(keys) - position
  BY <1>1, <1>2
<1>9. ASSUME NEW i \in 1..l PROVE position + i \in 1..Len(keys) /\ position < position + i
  BY <1>2, <1>8
<1>10. Distinct(d)
  <2> SUFFICES ASSUME NEW i \in 1..l, NEW j \in 1..l, d[i] = d[j] PROVE i = j
    BY <1>5, <1>8 DEF Distinct
  <2>1. blocks[position + i] = blocks[position + j]
    BY <1>5, <1>8
  <2>2. position + i \in 1..Len(blocks) /\ position + j \in 1..Len(blocks)
    BY <1>3, <1>9
  <2>3. position + i = position + j
    BY <1>3, <2>1, <2>2, BlocksAreDifferent
  <2> QED
    BY <1>2, <1>8, <2>3
<1>11. \A b \in Range(d) : b \notin DOMAIN locations
  <2> SUFFICES ASSUME NEW b \in Range(d) PROVE b \notin DOMAIN locations
    OBVIOUS
  <2>1. PICK i \in 1..l : d[i] = b
    BY <1>5, <1>8, RangeIs
  <2>2. b = blocks[position + i]
    BY <1>5, <1>8, <2>1
  <2> QED
    BY <1>1, <1>2, <1>3, <1>9, <2>2, BlocksAreNew
<1>12. Len(e) = l /\ Len(d) = l /\ k = keys[position + 1]
       /\ \A i \in 1..l : e[i] = keys[position + i]
  BY <1>4, <1>5, <1>8 DEF k
<1>13. node \in Nodes /\ Depth(node) = position /\ Agree(path[node], keys, position)
  BY <1>2 DEF Walking, CallTyped
<1>14. LeafSetting(q, n, k, e, d)
  BY <1>1, <1>2, <1>4, <1>5, <1>6, <1>7, <1>10, <1>11, <1>12, <1>13, <1>8 DEF LeafSetting
<1> QED
  BY <1>14

\* The tables are typed after InsertLeaf, and the new leaf is the last accessed.
LEMMA LeafTyped ==
    ASSUME NEW q, NEW n, NEW k, NEW e, NEW d, LeafSetting(q, n, k, e, d)
    PROVE  TreeTyped' /\ OrderInv'
<1> DEFINE N == Nodes \cup {n}
<1>1. /\ TreeTyped /\ TreeInv /\ q \in Nodes /\ k \in Keys /\ e \in Seq(Keys) /\ d \in Seq(Ids)
      /\ keys \in Seq(Keys)
      /\ Distinct(d)
  BY DEF LeafSetting
<1>2. LeafAdded(q, n, k, e, d)
  BY DEF LeafSetting
<1>3. /\ n \in Nat /\ n \notin Nodes /\ n # Root /\ Tables(N)
      /\ older' = Touched(N, n) /\ locations' = IndexNode(locations, n, d, 0)
  BY <1>2 DEF LeafAdded
<1>4. Root \in N /\ N \subseteq Nat /\ IsFiniteSet(N) /\ N \ {Root} = Inner \cup {n}
  BY <1>1, <1>3, FS_AddElement DEF TreeTyped, Inner
<1>5. \A m \in N : /\ edge'[m] \in Seq(Keys) /\ ids'[m] \in Seq(Ids)
                   /\ parent'[m] \in N /\ path'[m] \in Seq(Keys)
  BY <1>1, <1>2 DEF LeafAdded, TreeTyped
<1>6. ASSUME NEW m \in N
      PROVE  /\ DOMAIN children'[m] \subseteq Keys
             /\ children'[m] \in [DOMAIN children'[m] -> N \ {Root}]
  <2>1. CASE m = n
    BY <1>2, <2>1 DEF LeafAdded, NoChildren
  <2>2. CASE m = q
    <3>1. DOMAIN children[m] \subseteq Keys /\ children[m] \in [DOMAIN children[m] -> Inner]
      BY <1>1, <2>2 DEF TreeTyped
    <3>2. /\ DOMAIN children'[q] = DOMAIN children[q] \cup {k} /\ children'[q][k] = n
          /\ \A x \in DOMAIN children[q] \ {k} : children'[q][x] = children[q][x]
          /\ children'[q] = [x \in DOMAIN children'[q] |-> children'[q][x]]
      BY <1>2 DEF LeafAdded
    <3>3. \A x \in DOMAIN children'[q] : children'[q][x] \in N \ {Root}
      BY <1>4, <2>2, <3>1, <3>2
    <3> QED
      BY <1>1, <2>2, <3>1, <3>2, <3>3
  <2>3. CASE m \in Nodes /\ m # q
    <3>1. DOMAIN children[m] \subseteq Keys /\ children[m] \in [DOMAIN children[m] -> Inner]
          /\ children'[m] = children[m]
      BY <1>1, <1>2, <2>3 DEF TreeTyped, LeafAdded
    <3> QED
      BY <1>4, <3>1
  <2> QED
    BY <2>1, <2>2, <2>3
<1>7. Linear(older', N \ {Root})
  <2>1. Linear(older, Inner)
    BY <1>1, OrderIsLinear DEF TreeInv
  <2>2. n \in N \ {Root} /\ N \ {Root, n} \subseteq Inner
    BY <1>3 DEF Inner
  <2> HIDE DEF N
  <2> QED
    BY <1>3, <2>1, <2>2, TouchKeeps
<1>8. /\ DOMAIN locations' \subseteq Ids
      /\ locations' \in [DOMAIN locations' -> [node : N \ {Root}, at : Nat]]
  <2>1. DOMAIN locations \subseteq Ids /\ Range(d) \subseteq Ids
    BY <1>1, RangeIn DEF TreeTyped
  <2>2. locations \in [DOMAIN locations -> [node : N \ {Root}, at : Nat]]
    <3>1. locations \in [DOMAIN locations -> [node : Inner, at : Nat]]
      BY <1>1 DEF TreeTyped
    <3> QED
      BY <1>4, <3>1
  <2>3. n \in N \ {Root} /\ 0 \in Nat
    BY <1>3
  <2> HIDE DEF N
  <2>4. locations' \in [DOMAIN locations \cup Range(d) -> [node : N \ {Root}, at : Nat]]
    BY <1>1, <1>3, <2>2, <2>3, IndexNodeTyped
  <2>5. DOMAIN locations' = DOMAIN locations \cup Range(d)
    BY <2>4
  <2> QED
    BY <2>1, <2>4, <2>5
<1> HIDE DEF N
<1> QED
  BY <1>3, <1>4, <1>5, <1>6, <1>7, <1>8, TypedAgain

\* The tree is linked after InsertLeaf.
LEMMA LeafLinked ==
    ASSUME NEW q, NEW n, NEW k, NEW e, NEW d, LeafSetting(q, n, k, e, d)
    PROVE  LinkInv'
<1>1. /\ TreeTyped /\ LinkInv /\ q \in Nodes /\ k \in Keys /\ k = keys[position + 1]
      /\ k \notin DOMAIN children[q]
      /\ Depth(q) = position /\ Agree(path[q], keys, position)
  BY DEF LeafSetting
<1>9. PICK l \in Nat : /\ l > 0 /\ Len(keys) = position + l /\ Len(e) = l /\ Len(d) = l
                       /\ \A i \in 1..l : e[i] = keys[position + i]
  <2>1. /\ Len(e) = Len(keys) - position /\ Len(d) = Len(e) /\ position \in Nat
        /\ Len(keys) \in Nat /\ position < Len(keys)
    BY DEF LeafSetting
  <2>2. \A i \in 1..Len(e) : e[i] = keys[position + i]
    BY DEF LeafSetting
  <2>3. Len(e) \in Nat /\ Len(e) > 0 /\ Len(keys) = position + Len(e)
    BY <2>1
  <2> QED
    BY <2>1, <2>2, <2>3
<1>10. position \in Nat /\ e[1] = k
  <2>1. 1 \in 1..l /\ position \in Nat
    BY <1>9 DEF LeafSetting
  <2> QED
    BY <1>1, <1>9, <2>1
<1>2. LeafAdded(q, n, k, e, d)
  BY DEF LeafSetting
<1>3. /\ n \notin Nodes /\ n # Root /\ Nodes' = Nodes \cup {n} /\ Inner' = Inner \cup {n}
      /\ edge'[n] = e /\ ids'[n] = d /\ parent'[n] = q /\ path'[n] = keys
      /\ DOMAIN children'[n] = {}
      /\ \A m \in Nodes : /\ edge'[m] = edge[m] /\ ids'[m] = ids[m]
                          /\ parent'[m] = parent[m] /\ path'[m] = path[m]
  BY <1>2 DEF LeafAdded, Tables, NoChildren, Inner
<1>4. /\ DOMAIN children'[q] = DOMAIN children[q] \cup {k} /\ children'[q][k] = n
      /\ \A x \in DOMAIN children[q] \ {k} : children'[q][x] = children[q][x]
      /\ \A m \in Nodes \ {q} : children'[m] = children[m]
  BY <1>2 DEF LeafAdded
<1>5. Rooted'
  BY <1>1, <1>3 DEF LinkInv, Rooted, TreeTyped
<1>6. ASSUME NEW m \in Inner PROVE LinkedUp(m)'
  <2>1. m \in Nodes /\ parent[m] \in Nodes /\ LinkedUp(m)
    BY <1>1, PathLengths DEF LinkInv
  <2>2. edge[m][1] \in DOMAIN children[parent[m]] /\ children[parent[m]][edge[m][1]] = m
    BY <2>1 DEF LinkedUp
  <2>3. edge[m][1] \in DOMAIN children'[parent[m]] /\ children'[parent[m]][edge[m][1]] = m
    BY <1>1, <1>4, <2>1, <2>2
  <2> QED
    BY <1>3, <2>1, <2>3, StaysLinkedUp
<1>7. LinkedUp(n)'
  <2>1. Depth(q)' = position /\ path'[q] = path[q]
    BY <1>1, <1>3 DEF Depth
  <2>2. Size(n)' = l /\ Depth(n)' = position + l /\ Len(ids'[n]) = l
    BY <1>3, <1>9 DEF Size, Depth
  <2>3. Agree(path'[n], path'[q], position)
    BY <1>1, <1>3, <1>10, <2>1, AgreeLess
  <2>4. \A i \in 1..l : path'[n][position + i] = edge'[n][i]
    BY <1>3, <1>9
  <2>5. edge'[n][1] \in DOMAIN children'[q] /\ children'[q][edge'[n][1]] = n
    BY <1>3, <1>4, <1>10
  <2> QED
    <3>1. PICK z : z = position
      OBVIOUS
    <3>2. Continues(n, q, z, l)'
      BY <1>3, <1>9, <2>1, <2>2, <2>3, <2>4, <2>5, <3>1 DEF Continues
    <3> QED
      BY <3>2, LinkedUpNext
<1>8. ASSUME NEW m \in Nodes' PROVE LinkedDown(m)'
  <2> SUFFICES ASSUME NEW x \in DOMAIN children'[m]
               PROVE  /\ parent'[children'[m][x]] = m /\ edge'[children'[m][x]][1] = x
    BY DEF LinkedDown
  <2>0. m \in Nodes /\ m # n
    BY <1>3
  <2>1. CASE m = q /\ x = k
    <3>1. edge'[n][1] = k
      BY <1>3, <1>10
    <3> QED
      BY <1>3, <1>4, <2>1, <3>1
  <2>2. CASE ~(m = q /\ x = k)
    <3>1. x \in DOMAIN children[m] /\ children'[m][x] = children[m][x]
      BY <1>4, <2>0, <2>2
    <3>2. children[m][x] \in Nodes /\ parent[children[m][x]] = m /\ edge[children[m][x]][1] = x
      BY <1>1, <2>0, <3>1 DEF LinkInv, LinkedDown, TreeTyped, Inner
    <3> QED
      BY <1>3, <3>1, <3>2
  <2> QED
    BY <2>1, <2>2
<1> QED
  BY <1>3, <1>5, <1>6, <1>7, <1>8 DEF LinkInv

\* block_locations is the inverse of the block ids after InsertLeaf.
LEMMA LeafLocated ==
    ASSUME NEW q, NEW n, NEW k, NEW e, NEW d, LeafSetting(q, n, k, e, d)
    PROVE  LocationInv'
<1>1. /\ TreeTyped /\ TreeInv /\ LocationInv /\ d \in Seq(Ids) /\ Distinct(d)
      /\ \A b \in Range(d) : b \notin DOMAIN locations
  BY DEF LeafSetting, TreeInv
<1>2. LeafAdded(q, n, k, e, d)
  BY DEF LeafSetting
<1>3. /\ n \notin Nodes /\ n # Root /\ Inner' = Inner \cup {n} /\ Inner \subseteq Nodes
      /\ ids'[n] = d /\ \A m \in Nodes : ids'[m] = ids[m]
  BY <1>2 DEF LeafAdded, Tables, Inner
<1>4. /\ DOMAIN locations' = DOMAIN locations \cup Range(d)
      /\ \A i \in 1..Len(d) : locations'[d[i]].node = n /\ locations'[d[i]].at = i
      /\ \A b \in DOMAIN locations : b \notin Range(d) => locations'[b] = locations[b]
  <2>1. PICK o \in Nat : o = 0 /\ locations' = IndexNode(locations, n, d, o)
    BY <1>2 DEF LeafAdded
  <2>2. /\ \A b : b \in DOMAIN locations' <=> b \in DOMAIN locations \/ b \in Range(d)
        /\ \A i \in 1..Len(d) : locations'[d[i]].node = n /\ locations'[d[i]].at = o + i
        /\ \A b \in DOMAIN locations : b \notin Range(d) => locations'[b] = locations[b]
    BY <1>1, <2>1, IndexNodeIs
  <2>3. \A i \in 1..Len(d) : o + i = i
    BY <2>1
  <2>4. DOMAIN locations' = DOMAIN locations \cup Range(d)
    BY <2>2, Zenon
  <2>5. \A i \in 1..Len(d) : locations'[d[i]].node = n /\ locations'[d[i]].at = i
    BY <2>2, <2>3, Zenon
  <2> QED
    BY <2>2, <2>4, <2>5, Zenon
<1>5. ASSUME NEW m \in Inner', NEW i \in 1..Len(ids'[m])
      PROVE  /\ ids'[m][i] \in DOMAIN locations'
             /\ locations'[ids'[m][i]].node = m /\ locations'[ids'[m][i]].at = i
  <2>1. CASE m = n
    <3>1. i \in 1..Len(d) /\ ids'[m][i] = d[i]
      BY <1>3, <2>1
    <3>2. d[i] \in Range(d)
      BY <1>1, <3>1, RangeIs
    <3> QED
      BY <1>4, <2>1, <3>1, <3>2
  <2>2. CASE m \in Inner
    <3>1. i \in 1..Len(ids[m]) /\ ids'[m][i] = ids[m][i]
      BY <1>3, <2>2
    <3>2. /\ ids[m][i] \in DOMAIN locations
          /\ locations[ids[m][i]].node = m /\ locations[ids[m][i]].at = i
      BY <1>1, <2>2, <3>1 DEF LocationInv
    <3> QED
      BY <1>1, <1>4, <3>1, <3>2
  <2> QED
    BY <1>3, <2>1, <2>2
<1>6. ASSUME NEW b \in DOMAIN locations'
      PROVE  /\ locations'[b].at \in 1..Len(ids'[locations'[b].node])
             /\ ids'[locations'[b].node][locations'[b].at] = b
  <2>1. CASE b \in Range(d)
    <3>1. PICK i \in 1..Len(d) : d[i] = b
      BY <1>1, <2>1, RangeIs
    <3> QED
      BY <1>3, <1>4, <3>1
  <2>2. CASE b \in DOMAIN locations
    <3>1. locations'[b] = locations[b]
      BY <1>1, <1>4, <2>2
    <3>2. locations[b].node \in Nodes
      BY <1>1, <1>3, <2>2 DEF TreeTyped
    <3>3. ids'[locations[b].node] = ids[locations[b].node]
      BY <1>3, <3>2
    <3> QED
      BY <1>1, <2>2, <3>1, <3>3 DEF LocationInv
  <2> QED
    BY <1>4, <2>1, <2>2
<1> QED
  BY <1>5, <1>6 DEF LocationInv

\* The prefixes of the keys are indexed, and those that were keep their block.
IndexGrows(k) ==
    /\ DOMAIN IndexOfTree' = DOMAIN IndexOfTree \cup {SubSeq(k, 1, i) : i \in 1..Len(k)}
    /\ \A p \in DOMAIN IndexOfTree : IndexOfTree'[p] = IndexOfTree[p]

\* InsertLeaf adds the missing prefixes of the keys to the index, and nothing else.
LEMMA LeafIndexed ==
    ASSUME NEW q, NEW n, NEW k, NEW e, NEW d, LeafSetting(q, n, k, e, d),
           PrefixMap', NEW w \in Paths, w = keys
    PROVE  IndexGrows(w)
<1>1. /\ TreeTyped /\ LinkInv /\ TreeInv /\ Walking /\ ~HasChild
      /\ position \in Nat /\ Len(w) \in Nat /\ position < Len(w)
      /\ w \in Seq(Keys)
  BY DEF LeafSetting
<1>2. LeafAdded(q, n, k, e, d)
  BY DEF LeafSetting
<1>3. /\ n \notin Nodes /\ Inner' = Inner \cup {n} /\ Inner \subseteq Nodes
      /\ path'[n] = w /\ edge'[n] = e
      /\ \A m \in Nodes : edge'[m] = edge[m] /\ ids'[m] = ids[m] /\ path'[m] = path[m]
  BY <1>2 DEF LeafAdded, Tables, Inner
<1>4. PrefixMap
  BY <1>1, PrefixMapIs
<1>5. ASSUME NEW m \in Inner, NEW p PROVE (EndsOn(m, p)' <=> EndsOn(m, p)) /\ Block(m, p)' = Block(m, p)
  <2>1. edge'[m] = edge[m] /\ ids'[m] = ids[m] /\ path'[m] = path[m]
    BY <1>3
  <2> QED
    BY <2>1 DEF EndsOn, Covers, Start, Depth, Block
<1>6. ASSUME NEW p \in Seq(Keys)
      PROVE  EndsOn(n, p)' <=> \E i \in 1..Len(w) : position < i /\ p = SubSeq(w, 1, i)
  <2>1. Start(n)' = position /\ Depth(n)' = Len(w)
    <3>1. PICK x \in Nat : x = Len(w)
      BY <1>1
    <3>2. Len(e) = x - position
      BY <3>1 DEF LeafSetting
    <3>3. Start(n)' = Len(path'[n]) - Len(edge'[n])
      BY DEF Start
    <3>4. Start(n)' = position
      BY <1>1, <1>3, <3>1, <3>2, <3>3
    <3> QED
      BY <1>3, <3>4 DEF Depth
  <2>2. EndsOn(n, p)' <=> position < Len(p) /\ Len(p) <= Len(w) /\ Agree(p, w, Len(p))
    BY <1>3, <2>1 DEF EndsOn, Covers
  <2>3. Len(p) \in Nat /\ SubSeq(p, 1, Len(p)) = p
    BY LenProperties, SubSeqFull
  <2>4. ASSUME Len(p) <= Len(w), Agree(p, w, Len(p)) PROVE p = SubSeq(w, 1, Len(p))
    <3>1. Len(p) \in 0..Len(p)
      BY <2>3
    <3> QED
      BY <1>1, <2>3, <2>4, <3>1, EqualParts
  <2>5. ASSUME NEW i \in 1..Len(w), p = SubSeq(w, 1, i)
        PROVE  Len(p) = i /\ Agree(p, w, Len(p))
    <3>1. i \in 0..Len(w)
      BY <1>1
    <3> QED
      BY <1>1, <2>5, <3>1, FirstPart DEF Agree
  <2>6. ASSUME EndsOn(n, p)' PROVE \E i \in 1..Len(w) : position < i /\ p = SubSeq(w, 1, i)
    <3>1. Len(p) \in 1..Len(w) /\ position < Len(p)
      BY <1>1, <2>2, <2>3, <2>6
    <3> QED
      BY <2>2, <2>4, <2>6, <3>1
  <2>7. ASSUME NEW i \in 1..Len(w), position < i, p = SubSeq(w, 1, i) PROVE EndsOn(n, p)'
    BY <1>1, <2>2, <2>5, <2>7
  <2> QED
    BY <2>6, <2>7
<1>7. \A i \in 1..Len(w) : SubSeq(w, 1, i) \in Seq(Keys)
  <2>1. \A i \in 1..Len(w) : i \in 0..Len(w)
    BY <1>1
  <2> QED
    BY <1>1, <2>1, FirstPart
<1>8. \A i \in 1..Len(w) : SubSeq(w, 1, i) \in DOMAIN IndexOfTree <=> i <= position
  BY <1>1, WalkEnds
<1> DEFINE D == DOMAIN IndexOfTree
           E == DOMAIN IndexOfTree'
           P == {SubSeq(w, 1, i) : i \in 1..Len(w)}
<1>9. ASSUME NEW p \in E PROVE p \in D \/ p \in P
  <2>1. p \in Seq(Keys)
    BY DEF PrefixMap
  <2>2. PICK m \in Inner' : EndsOn(m, p)'
    BY DEF PrefixMap
  <2>3. CASE m = n
    BY <1>6, <2>1, <2>2, <2>3
  <2>4. CASE m \in Inner
    BY <1>4, <1>5, <2>1, <2>2, <2>4 DEF PrefixMap
  <2> QED
    BY <1>3, <2>3, <2>4
<1>10. ASSUME NEW p \in D PROVE p \in E /\ IndexOfTree'[p] = IndexOfTree[p]
  <2>1. p \in Seq(Keys)
    BY <1>4 DEF PrefixMap
  <2>2. PICK m \in Inner : EndsOn(m, p)
    BY <1>4 DEF PrefixMap
  <2>3. m \in Inner' /\ EndsOn(m, p)' /\ Block(m, p)' = Block(m, p)
    BY <1>3, <1>5, <2>2
  <2>4. IndexOfTree[p] = Block(m, p)
    BY <1>4, <2>1, <2>2 DEF PrefixMap
  <2>5. p \in E /\ IndexOfTree'[p] = Block(m, p)'
    BY <2>1, <2>3 DEF PrefixMap
  <2> QED
    BY <2>3, <2>4, <2>5
<1>11. ASSUME NEW i \in 1..Len(w) PROVE SubSeq(w, 1, i) \in E
  <2>1. CASE i <= position
    BY <1>8, <1>10, <2>1
  <2>2. CASE position < i
    <3>1. EndsOn(n, SubSeq(w, 1, i))' /\ SubSeq(w, 1, i) \in Seq(Keys) /\ n \in Inner'
      BY <1>3, <1>6, <1>7, <2>2
    <3> QED
      BY <3>1 DEF PrefixMap
  <2> QED
    BY <1>1, <2>1, <2>2
<1>12. E = D \cup P
  <2> HIDE DEF D, E
  <2> QED
    BY <1>9, <1>10, <1>11
<1> QED
  BY <1>10, <1>12 DEF IndexGrows

\* InsertLeaf keeps the invariant and is the insertion of the prefix map.
LEMMA InsertLeafStep ==
    ASSUME IndInv, InsertLeaf, NEW w \in Paths, w = keys
    PROVE  IndInv' /\ IndexGrows(w)
<1>1. PICK q, n, k, e, d : LeafSetting(q, n, k, e, d)
  BY LeafSettingIs
<1>2. TreeTyped' /\ OrderInv' /\ LinkInv' /\ LocationInv'
  BY <1>1, LeafTyped, LeafLinked, LeafLocated
<1>3. PrefixMap'
  BY <1>2, PrefixMapIsNext
<1>4. IndexGrows(w)
  BY <1>1, <1>3, LeafIndexed
<1>5. CallTyped' /\ CallInv'
  BY <1>2, Returns DEF InsertLeaf
<1> QED
  BY <1>2, <1>4, <1>5 DEF IndInv, TypeOK

---------------------------------------------------------------------------
(* A split edge *)

\* What InsertSplit does to each node: n is the new node, c the child whose edge
\* is cut into ea, ia above and eb, ib below, q its parent.
SplitDone(q, c, n, x, y, ea, eb, ia, ib, pa) ==
    /\ q \in Nodes /\ c \in Inner /\ c # q /\ n \in Nat /\ n \notin Nodes /\ n # Root
    /\ Tables(Nodes \cup {n})
    /\ edge'[n] = ea /\ edge'[c] = eb /\ ids'[n] = ia /\ ids'[c] = ib
    /\ parent'[n] = q /\ parent'[c] = n /\ path'[n] = pa
    /\ \A j \in Nodes \ {c} : edge'[j] = edge[j] /\ ids'[j] = ids[j] /\ parent'[j] = parent[j]
    /\ \A j \in Nodes : path'[j] = path[j]
    /\ children'[n] = Put(NoChildren, y, c) /\ children'[q] = Put(children[q], x, n)
    /\ \A j \in Nodes \ {q} : children'[j] = children[j]
    /\ locations' = IndexNode(IndexNode(locations, n, ia, 0), c, ib, 0)
    /\ older' = Touched(Nodes \cup {n}, n)

\* InsertSplit puts a new node between the node reached and its child.
LEMMA SplitIs ==
    ASSUME IndInv, InsertSplit, Child \in Inner, Child # node
    PROVE  \E q, c, n, m : /\ q = node /\ c = Child /\ m = Common
                           /\ SplitDone(q, c, n, edge[c][1], edge[c][m + 1],
                                        SubSeq(edge[c], 1, m), From(edge[c], m + 1),
                                        SubSeq(ids[c], 1, m), From(ids[c], m + 1),
                                        SubSeq(keys, 1, position + m))
                           /\ node' = n /\ position' = position + m
<1>1. PICK q, c, n, m : q = node /\ c = Child /\ n = Fresh /\ m = Common
  OBVIOUS
<1> DEFINE x == edge[c][1]
           y == edge[c][m + 1]
           ea == SubSeq(edge[c], 1, m)
           eb == From(edge[c], m + 1)
           ia == SubSeq(ids[c], 1, m)
           ib == From(ids[c], m + 1)
           pa == SubSeq(keys, 1, position + m)
<1>2. /\ edge' = Put([edge EXCEPT ![c] = eb], n, ea)
      /\ ids' = Put([ids EXCEPT ![c] = ib], n, ia)
      /\ parent' = Put([parent EXCEPT ![c] = n], n, q)
      /\ children' = Put([children EXCEPT ![q] = Put(@, x, n)], n, Put(NoChildren, y, c))
      /\ older' = Touched(Nodes \cup {n}, n)
      /\ locations' = IndexNode(IndexNode(locations, n, ia, 0), c, ib, 0)
      /\ path' = Put(path, n, pa)
      /\ node' = n /\ position' = position + m
  BY <1>1 DEF InsertSplit, IndexHalves
<1>3. /\ TreeTyped /\ q \in Nodes /\ c \in Inner /\ c \in Nodes /\ c # q
      /\ n \in Nat /\ n \notin Nodes /\ n # Root
  BY <1>1, FreshIs DEF IndInv, TypeOK, CallTyped, Inner
<1> HIDE DEF x, y, ea, eb, ia, ib, pa
<1>4. /\ DOMAIN edge = Nodes /\ DOMAIN ids = Nodes /\ DOMAIN parent = Nodes
      /\ DOMAIN path = Nodes /\ DOMAIN children = Nodes
  BY <1>3 DEF TreeTyped
<1>5. Tables(Nodes \cup {n})
  BY <1>2, <1>3, <1>4 DEF Tables, Nodes, Inner, Put
<1>6. /\ edge'[n] = ea /\ ids'[n] = ia /\ parent'[n] = q /\ path'[n] = pa
      /\ children'[n] = Put(NoChildren, y, c)
  <2>1. \A f, v : Put(f, n, v)[n] = v
    BY DEF Put
  <2> QED
    BY <1>2, <2>1
<1>7. edge'[c] = eb /\ ids'[c] = ib /\ parent'[c] = n
  BY <1>2, <1>3, <1>4 DEF Put
<1>8. \A j \in Nodes \ {c} : edge'[j] = edge[j] /\ ids'[j] = ids[j] /\ parent'[j] = parent[j]
  BY <1>2, <1>3, <1>4 DEF Put
<1>9. \A j \in Nodes : path'[j] = path[j]
  BY <1>2, <1>3, <1>4 DEF Put
<1>10. children'[q] = Put(children[q], x, n)
       /\ \A j \in Nodes \ {q} : children'[j] = children[j]
  <2>1. \A f, v : \A j \in DOMAIN f \ {n} : Put(f, n, v)[j] = f[j]
    BY DEF Put
  <2>2. \A j \in Nodes : children'[j] = [children EXCEPT ![q] = Put(@, x, n)][j]
    BY <1>2, <1>3, <1>4, <2>1
  <2> QED
    BY <1>3, <1>4, <2>2
<1> HIDE DEF Nodes, Inner
<1>11. SplitDone(q, c, n, x, y, ea, eb, ia, ib, pa)
  BY <1>2, <1>3, <1>5, <1>6, <1>7, <1>8, <1>9, <1>10 DEF SplitDone
<1> QED
  BY <1>1, <1>2, <1>11 DEF x, y, ea, eb, ia, ib, pa

\* The situation of InsertSplit; the cut is m of m + l pages.
SplitSetting(q, c, n, x, y, ea, eb, ia, ib, pa, z, m, l) ==
    /\ TreeInv /\ TreeTyped /\ LinkInv
    /\ parent[c] = q /\ z \in Nat /\ m \in Nat /\ m > 0 /\ l \in Nat /\ l > 0
    /\ Depth(q) = z /\ Start(c) = z /\ Size(c) = m + l /\ Depth(c) = z + (m + l)
    /\ ea \in Seq(Keys) /\ Len(ea) = m /\ \A i \in 1..m : ea[i] = edge[c][i]
    /\ eb \in Seq(Keys) /\ Len(eb) = l /\ \A i \in 1..l : eb[i] = edge[c][m + i]
    /\ ia \in Seq(Ids) /\ Len(ia) = m /\ \A i \in 1..m : ia[i] = ids[c][i]
    /\ ib \in Seq(Ids) /\ Len(ib) = l /\ \A i \in 1..l : ib[i] = ids[c][m + i]
    /\ Len(ids[c]) = m + l
    /\ pa \in Seq(Keys) /\ Len(pa) = z + m /\ Agree(pa, path[c], z + m)
    /\ x \in Keys /\ x = edge[c][1] /\ x = ea[1] /\ y \in Keys /\ y = eb[1]
    /\ x \in DOMAIN children[q] /\ children[q][x] = c
    /\ SplitDone(q, c, n, x, y, ea, eb, ia, ib, pa)

\* InsertSplit happens in the situation above, and the walk goes on from the new node.
LEMMA SplitSettingIs ==
    ASSUME IndInv, InsertSplit
    PROVE  \E q, c, n, x, y, ea, eb, ia, ib, pa, z, m, l :
              /\ SplitSetting(q, c, n, x, y, ea, eb, ia, ib, pa, z, m, l)
              /\ node' = n /\ position' = z + m /\ z + m < Len(keys)
              /\ pa = SubSeq(keys, 1, z + m) /\ Agree(pa, keys, z + m)
<1>1. /\ TreeInv /\ TypeOK /\ CallInv /\ TreeTyped /\ LinkInv
      /\ op = "insert" /\ HasChild /\ Common < Size(Child) /\ position + Common < Len(keys)
  BY DEF IndInv, TreeInv, TypeOK, InsertSplit, Size
<1>2. /\ Walking /\ keys \in Seq(Keys) /\ position \in Nat /\ Len(keys) \in Nat
      /\ Depth(node) = position
  BY <1>1, WalkIs DEF Walking
<1>3. /\ Child \in Inner /\ parent[Child] = node
      /\ Start(Child) = position /\ Depth(Child) = position + Size(Child)
      /\ Common \in 1..Size(Child)
      /\ Agree(path[Child], keys, position + Common)
  BY <1>1, <1>2, ChildIs
<1>4. Size(Child) \in Nat /\ Size(Child) > 0
  BY <1>1, <1>3, PathLengths
<1>5. Child # node
  BY <1>2, <1>3, <1>4
<1>6. PICK q, c, n, m :
        /\ q = node /\ c = Child /\ m = Common
        /\ SplitDone(q, c, n, edge[c][1], edge[c][m + 1],
                     SubSeq(edge[c], 1, m), From(edge[c], m + 1),
                     SubSeq(ids[c], 1, m), From(ids[c], m + 1),
                     SubSeq(keys, 1, position + m))
        /\ node' = n /\ position' = position + m
  BY <1>3, <1>5, SplitIs
<1> DEFINE x == edge[c][1]
           y == edge[c][m + 1]
           ea == SubSeq(edge[c], 1, m)
           eb == From(edge[c], m + 1)
           ia == SubSeq(ids[c], 1, m)
           ib == From(ids[c], m + 1)
           pa == SubSeq(keys, 1, position + m)
<1>7. PICK z, l : z = position /\ l = Size(c) - m
  OBVIOUS
<1>8. /\ z \in Nat /\ m \in Nat /\ m > 0 /\ l \in Nat /\ l > 0 /\ Size(c) = m + l
      /\ Depth(q) = z /\ Start(c) = z /\ Depth(c) = z + (m + l) /\ parent[c] = q
      /\ c \in Inner /\ z + m < Len(keys) /\ position' = z + m
      /\ Agree(path[c], keys, z + m)
  BY <1>1, <1>2, <1>3, <1>4, <1>6, <1>7
<1>9. /\ c \in Nodes /\ edge[c] \in Seq(Keys) /\ ids[c] \in Seq(Ids)
      /\ Len(edge[c]) = m + l /\ Len(ids[c]) = m + l
  <2>1. c \in Nodes
    BY <1>8 DEF Inner
  <2>2. edge[c] \in Seq(Keys) /\ ids[c] \in Seq(Ids) /\ LinkedUp(c)
    BY <1>1, <1>8, <2>1, Lengths DEF LinkInv
  <2> QED
    BY <1>8, <2>1, <2>2 DEF LinkedUp, Size
<1>10. m \in 0..Len(edge[c]) /\ m \in 0..Len(ids[c]) /\ (m + l) - m = l
  BY <1>8, <1>9
<1>11. ea \in Seq(Keys) /\ Len(ea) = m /\ \A i \in 1..m : ea[i] = edge[c][i]
  BY <1>9, <1>10, FirstPart
<1>12. ia \in Seq(Ids) /\ Len(ia) = m /\ \A i \in 1..m : ia[i] = ids[c][i]
  BY <1>9, <1>10, FirstPart
<1>13. eb \in Seq(Keys) /\ Len(eb) = l /\ \A i \in 1..l : eb[i] = edge[c][m + i]
  <2>1. /\ eb \in Seq(Keys) /\ Len(eb) = Len(edge[c]) - m
        /\ \A i \in 1..(Len(edge[c]) - m) : eb[i] = edge[c][m + i]
    BY <1>9, <1>10, LastPart
  <2>2. Len(edge[c]) - m = l
    BY <1>9, <1>10
  <2> HIDE DEF eb
  <2> QED
    BY <2>1, <2>2
<1>14. ib \in Seq(Ids) /\ Len(ib) = l /\ \A i \in 1..l : ib[i] = ids[c][m + i]
  <2>1. /\ ib \in Seq(Ids) /\ Len(ib) = Len(ids[c]) - m
        /\ \A i \in 1..(Len(ids[c]) - m) : ib[i] = ids[c][m + i]
    BY <1>9, <1>10, LastPart
  <2>2. Len(ids[c]) - m = l
    BY <1>9, <1>10
  <2> HIDE DEF ib
  <2> QED
    BY <2>1, <2>2
<1>15. /\ pa \in Seq(Keys) /\ Len(pa) = z + m /\ Agree(pa, keys, z + m)
       /\ Agree(pa, path[c], z + m) /\ pa = SubSeq(keys, 1, z + m)
  <2>1. z + m \in 0..Len(keys) /\ z + m \in Nat
    BY <1>2, <1>8
  <2>2. pa \in Seq(Keys) /\ Len(pa) = z + m /\ \A i \in 1..(z + m) : pa[i] = keys[i]
    BY <1>2, <1>7, <2>1, FirstPart
  <2>3. Agree(pa, keys, z + m)
    BY <2>2 DEF Agree
  <2>4. Agree(keys, path[c], z + m)
    BY <1>8, <2>1, AgreeLess
  <2> QED
    BY <1>7, <2>2, <2>3, <2>4, AgreeTransitive
<1>16. /\ x \in Keys /\ x = ea[1] /\ y \in Keys /\ y = eb[1]
       /\ x \in DOMAIN children[q] /\ children[q][x] = c
  <2>1. 1 \in 1..m /\ 1 \in 1..l /\ 1 \in 1..(m + l) /\ m + 1 \in 1..(m + l)
    BY <1>8
  <2>2. x \in Keys /\ y \in Keys
    BY <1>9, <2>1, LenProperties
  <2>3. x \in DOMAIN children[q] /\ children[q][x] = c
    BY <1>1, <1>8 DEF LinkInv, LinkedUp
  <2> QED
    BY <1>11, <1>13, <2>1, <2>2, <2>3
<1>17. SplitDone(q, c, n, x, y, ea, eb, ia, ib, pa)
  BY <1>6
<1>18. x = edge[c][1]
  OBVIOUS
<1> HIDE DEF x, y, ea, eb, ia, ib, pa
<1>19. SplitSetting(q, c, n, x, y, ea, eb, ia, ib, pa, z, m, l)
  BY <1>1, <1>8, <1>9, <1>11, <1>12, <1>13, <1>14, <1>15, <1>16, <1>17, <1>18 DEF SplitSetting
<1> QED
  BY <1>6, <1>8, <1>15, <1>19

\* The two halves hold different blocks, those of the cut node.
LEMMA SplitDistinct ==
    ASSUME NEW q, NEW c, NEW n, NEW x, NEW y, NEW ea, NEW eb, NEW ia, NEW ib, NEW pa,
           NEW z, NEW m, NEW l,
           SplitSetting(q, c, n, x, y, ea, eb, ia, ib, pa, z, m, l)
    PROVE  /\ Distinct(ia) /\ Distinct(ib)
           /\ \A b \in Range(ia) : b \notin Range(ib)
           /\ \A b \in DOMAIN locations : locations[b].node = c => b \in Range(ia) \/ b \in Range(ib)
           /\ \A b : b \in Range(ia) \/ b \in Range(ib) => b \in DOMAIN locations /\ locations[b].node = c
<1>1. /\ c \in Inner /\ TreeInv /\ m \in Nat /\ l \in Nat
      /\ ia \in Seq(Ids) /\ Len(ia) = m /\ ib \in Seq(Ids) /\ Len(ib) = l
      /\ Len(ids[c]) = m + l
  BY DEF SplitSetting, SplitDone
<1>2. \A i \in 1..m : ia[i] = ids[c][i]
  BY DEF SplitSetting
<1>3. \A i \in 1..l : ib[i] = ids[c][m + i]
  BY DEF SplitSetting
<1>4. \A i \in 1..m : i \in 1..Len(ids[c])
  BY <1>1
<1>5. \A i \in 1..l : m + i \in 1..Len(ids[c])
  BY <1>1
<1>6. Distinct(ia)
  BY <1>1, <1>2, <1>4, BlocksDiffer DEF Distinct
<1>7. Distinct(ib)
  <2> SUFFICES ASSUME NEW i \in 1..l, NEW j \in 1..l, ib[i] = ib[j] PROVE i = j
    BY <1>1 DEF Distinct
  <2>1. PICK u, v : u = m + i /\ v = m + j
    OBVIOUS
  <2>2. u \in 1..Len(ids[c]) /\ v \in 1..Len(ids[c]) /\ ids[c][u] = ids[c][v]
    BY <1>3, <1>5, <2>1
  <2>3. u = v
    BY <1>1, <2>2, BlocksDiffer
  <2> QED
    BY <1>1, <2>1, <2>3
<1>8. ASSUME NEW b \in Range(ia), b \in Range(ib) PROVE FALSE
  <2>1. PICK i \in 1..m : ia[i] = b
    BY <1>1, RangeIs
  <2>2. PICK j \in 1..l : ib[j] = b
    BY <1>1, <1>8, RangeIs
  <2>3. PICK v : v = m + j
    OBVIOUS
  <2>4. /\ i \in 1..Len(ids[c]) /\ v \in 1..Len(ids[c])
        /\ ids[c][i] = b /\ ids[c][v] = b
    BY <1>2, <1>3, <1>4, <1>5, <2>1, <2>2, <2>3
  <2>5. i = v
    BY <1>1, <2>4, BlocksDiffer
  <2> QED
    BY <1>1, <2>3, <2>5
<1>9. ASSUME NEW b \in DOMAIN locations, locations[b].node = c
      PROVE  b \in Range(ia) \/ b \in Range(ib)
  <2>1. PICK i \in 1..(m + l) : ids[c][i] = b
    BY <1>1, <1>9 DEF TreeInv, LocationInv
  <2>2. CASE i <= m
    <3>1. i \in 1..m /\ ia[i] = b
      BY <1>1, <1>2, <2>1, <2>2
    <3> QED
      BY <1>1, <3>1, RangeIs
  <2>3. CASE m < i
    <3>1. i - m \in 1..l /\ m + (i - m) = i
      BY <1>1, <2>3
    <3>2. ib[i - m] = b
      BY <1>3, <2>1, <3>1
    <3> QED
      BY <1>1, <3>1, <3>2, RangeIs
  <2> QED
    BY <1>1, <2>2, <2>3
<1>10. ASSUME NEW i \in 1..Len(ids[c])
       PROVE  ids[c][i] \in DOMAIN locations /\ locations[ids[c][i]].node = c
  BY <1>1 DEF TreeInv, LocationInv
<1>11. ASSUME NEW b \in Range(ia) PROVE b \in DOMAIN locations /\ locations[b].node = c
  BY <1>1, <1>2, <1>4, <1>10, RangeIs
<1>12. ASSUME NEW b \in Range(ib) PROVE b \in DOMAIN locations /\ locations[b].node = c
  <2>1. PICK i \in 1..l : ib[i] = b
    BY <1>1, <1>12, RangeIs
  <2>2. b = ids[c][m + i] /\ m + i \in 1..Len(ids[c])
    BY <1>3, <1>5, <2>1
  <2> QED
    BY <1>10, <2>2
<1> QED
  BY <1>6, <1>7, <1>8, <1>9, <1>11, <1>12

\* The tables are typed after a split, and the new node is the last accessed.
LEMMA SplitTyped ==
    ASSUME NEW q, NEW c, NEW n, NEW x, NEW y, NEW ea, NEW eb, NEW ia, NEW ib, NEW pa,
           NEW z, NEW m, NEW l,
           SplitSetting(q, c, n, x, y, ea, eb, ia, ib, pa, z, m, l)
    PROVE  TreeTyped' /\ OrderInv'
<1> DEFINE N == Nodes \cup {n}
<1>1. /\ TreeTyped /\ TreeInv /\ x \in Keys /\ y \in Keys /\ ea \in Seq(Keys) /\ eb \in Seq(Keys)
      /\ ia \in Seq(Ids) /\ ib \in Seq(Ids) /\ pa \in Seq(Keys)
      /\ x \in DOMAIN children[q]
  BY DEF SplitSetting
<1>2. SplitDone(q, c, n, x, y, ea, eb, ia, ib, pa)
  BY DEF SplitSetting
<1>3. /\ n \in Nat /\ n \notin Nodes /\ n # Root /\ Tables(N) /\ q \in Nodes /\ c \in Inner
      /\ older' = Touched(N, n)
      /\ locations' = IndexNode(IndexNode(locations, n, ia, 0), c, ib, 0)
  BY <1>2 DEF SplitDone
<1>4. Root \in N /\ N \subseteq Nat /\ IsFiniteSet(N) /\ N \ {Root} = Inner \cup {n}
  BY <1>1, <1>3, FS_AddElement, ZenonT(40) DEF TreeTyped, Inner
<1>5. \A j \in N : /\ edge'[j] \in Seq(Keys) /\ ids'[j] \in Seq(Ids)
                   /\ parent'[j] \in N /\ path'[j] \in Seq(Keys)
  BY <1>1, <1>2 DEF SplitDone, TreeTyped
<1>6. ASSUME NEW j \in N
      PROVE  /\ DOMAIN children'[j] \subseteq Keys
             /\ children'[j] \in [DOMAIN children'[j] -> N \ {Root}]
  <2>1. CASE j = n
    <3>1. children'[j] = Put(NoChildren, y, c)
      BY <1>2, <2>1 DEF SplitDone
    <3>2. children'[j] \in [{y} -> {c}]
      BY <3>1 DEF Put, NoChildren
    <3> QED
      BY <1>1, <1>3, <1>4, <3>2
  <2>2. ASSUME j \in Nodes
        PROVE  DOMAIN children[j] \subseteq Keys /\ children[j] \in [DOMAIN children[j] -> Inner]
    BY <1>1, <2>2 DEF TreeTyped
  <2>3. CASE j = q
    <3>1. children'[j] = Put(children[j], x, n)
      BY <1>2, <2>3 DEF SplitDone
    <3>2. children'[j] \in [DOMAIN children[j] -> N \ {Root}]
      BY <1>1, <1>3, <1>4, <2>2, <2>3, <3>1 DEF Put
    <3> QED
      BY <1>3, <2>2, <2>3, <3>2
  <2>4. CASE j \in Nodes /\ j # q
    <3>1. children'[j] = children[j]
      BY <1>2, <2>4 DEF SplitDone
    <3> QED
      BY <1>4, <2>2, <2>4, <3>1
  <2> QED
    BY <2>1, <2>3, <2>4
<1>7. Linear(older', N \ {Root})
  <2>1. Linear(older, Inner)
    BY <1>1, OrderIsLinear DEF TreeInv
  <2>2. n \in N \ {Root} /\ N \ {Root, n} \subseteq Inner
    BY <1>3 DEF Inner
  <2> HIDE DEF N
  <2> QED
    BY <1>3, <2>1, <2>2, TouchKeeps
<1>8. /\ DOMAIN locations' \subseteq Ids
      /\ locations' \in [DOMAIN locations' -> [node : N \ {Root}, at : Nat]]
  <2> DEFINE t == IndexNode(locations, n, ia, 0)
             W == N \ {Root}
  <2>1. locations \in [DOMAIN locations -> [node : W, at : Nat]]
    <3>1. locations \in [DOMAIN locations -> [node : Inner, at : Nat]]
      BY <1>1 DEF TreeTyped
    <3> QED
      BY <1>4, <3>1
  <2>2. n \in W /\ c \in W /\ 0 \in Nat
    BY <1>3, <1>4
  <2>3. Distinct(ia) /\ Distinct(ib)
    BY SplitDistinct
  <2> HIDE DEF W
  <2>4. t \in [DOMAIN locations \cup Range(ia) -> [node : W, at : Nat]]
    BY <1>1, <2>1, <2>2, <2>3, IndexNodeTyped
  <2> HIDE DEF t
  <2>5. t \in [DOMAIN t -> [node : W, at : Nat]] /\ DOMAIN t = DOMAIN locations \cup Range(ia)
    BY <2>4
  <2>6. locations' = IndexNode(t, c, ib, 0)
    BY <1>3 DEF t
  <2>7. locations' \in [DOMAIN t \cup Range(ib) -> [node : W, at : Nat]]
    BY <1>1, <2>2, <2>3, <2>5, <2>6, IndexNodeTyped
  <2>8. DOMAIN locations' = DOMAIN locations \cup Range(ia) \cup Range(ib)
        /\ locations' \in [DOMAIN locations' -> [node : W, at : Nat]]
    BY <2>5, <2>7
  <2>9. DOMAIN locations \subseteq Ids /\ Range(ia) \subseteq Ids /\ Range(ib) \subseteq Ids
    BY <1>1, RangeIn DEF TreeTyped
  <2> QED
    BY <2>8, <2>9 DEF W
<1> HIDE DEF N
<1> QED
  BY <1>3, <1>4, <1>5, <1>6, <1>7, <1>8, TypedAgain

\* The tree is linked after a split: the old children hang below the lower half.
LEMMA SplitLinked ==
    ASSUME NEW q, NEW c, NEW n, NEW x, NEW y, NEW ea, NEW eb, NEW ia, NEW ib, NEW pa,
           NEW z, NEW m, NEW l,
           SplitSetting(q, c, n, x, y, ea, eb, ia, ib, pa, z, m, l)
    PROVE  LinkInv'
<1>1. /\ TreeTyped /\ LinkInv /\ parent[c] = q /\ x = edge[c][1] /\ x = ea[1] /\ y = eb[1]
      /\ x \in DOMAIN children[q] /\ children[q][x] = c
      /\ Depth(q) = z /\ Start(c) = z /\ Depth(c) = z + (m + l)
  BY DEF SplitSetting
<1>2. /\ z \in Nat /\ m \in Nat /\ m > 0 /\ l \in Nat /\ l > 0
      /\ Len(ea) = m /\ Len(eb) = l /\ Len(ia) = m /\ Len(ib) = l
      /\ Len(pa) = z + m /\ Agree(pa, path[c], z + m) /\ Size(c) = m + l
  BY DEF SplitSetting
<1>3. /\ \A i \in 1..m : ea[i] = edge[c][i]
      /\ \A i \in 1..l : eb[i] = edge[c][m + i]
  BY DEF SplitSetting
<1>4. SplitDone(q, c, n, x, y, ea, eb, ia, ib, pa)
  BY DEF SplitSetting
<1>5. /\ q \in Nodes /\ c \in Inner /\ c \in Nodes /\ c # q /\ n \notin Nodes /\ n # Root
      /\ Nodes' = Nodes \cup {n} /\ Inner' = Inner \cup {n}
      /\ edge'[n] = ea /\ edge'[c] = eb /\ ids'[n] = ia /\ ids'[c] = ib
      /\ parent'[n] = q /\ parent'[c] = n /\ path'[n] = pa
      /\ \A j \in Nodes \ {c} : edge'[j] = edge[j] /\ ids'[j] = ids[j] /\ parent'[j] = parent[j]
      /\ \A j \in Nodes : path'[j] = path[j]
  BY <1>4 DEF SplitDone, Tables, Inner
<1>6. /\ DOMAIN children'[n] = {y} /\ children'[n][y] = c
      /\ DOMAIN children'[q] = DOMAIN children[q] /\ children'[q][x] = n
      /\ \A k \in DOMAIN children[q] \ {x} : children'[q][k] = children[q][k]
      /\ \A j \in Nodes \ {q} : children'[j] = children[j]
  <2>1. children'[n] = Put(NoChildren, y, c) /\ children'[q] = Put(children[q], x, n)
    BY <1>4 DEF SplitDone
  <2>2. \A j \in Nodes \ {q} : children'[j] = children[j]
    BY <1>4 DEF SplitDone
  <2> QED
    BY <1>1, <2>1, <2>2 DEF Put, NoChildren
<1>7. Rooted'
  BY <1>1, <1>5 DEF LinkInv, Rooted, TreeTyped, Inner
<1>8. Depth(q)' = z /\ path'[q] = path[q] /\ path'[c] = path[c] /\ Depth(c)' = z + (m + l)
  BY <1>1, <1>5 DEF Depth
<1>9. /\ Agree(path[c], path[q], z)
      /\ \A i \in 1..(m + l) : path[c][z + i] = edge[c][i]
  <2>1. LinkedUp(c)
    BY <1>1, <1>5 DEF LinkInv
  <2> QED
    BY <1>1, <1>2, <2>1 DEF LinkedUp
<1>10. LinkedUp(n)'
  <2>1. Size(n)' = m /\ Len(ids'[n]) = m /\ Depth(n)' = z + m
    BY <1>2, <1>5 DEF Size, Depth
  <2>2. Agree(path'[n], path'[q], z)
    <3>1. Agree(pa, path[c], z)
      BY <1>2, AgreeLess
    <3> QED
      BY <1>5, <1>8, <1>9, <3>1, AgreeTransitive
  <2>3. \A i \in 1..m : path'[n][z + i] = edge'[n][i]
    <3> SUFFICES ASSUME NEW i \in 1..m PROVE pa[z + i] = ea[i]
      BY <1>5
    <3>1. z + i \in 1..(z + m) /\ i \in 1..(m + l)
      BY <1>2
    <3>2. pa[z + i] = path[c][z + i]
      BY <1>2, <3>1 DEF Agree
    <3> QED
      BY <1>3, <1>9, <3>1, <3>2
  <2>4. edge'[n][1] \in DOMAIN children'[q] /\ children'[q][edge'[n][1]] = n
    BY <1>1, <1>5, <1>6
  <2> QED
    <3>1. Continues(n, q, z, m)'
      BY <1>2, <1>5, <1>8, <2>1, <2>2, <2>3, <2>4 DEF Continues
    <3> QED
      BY <3>1, LinkedUpNext
<1>11. LinkedUp(c)'
  <2>1. Size(c)' = l /\ Len(ids'[c]) = l /\ Depth(n)' = z + m /\ Depth(c)' = (z + m) + l
    BY <1>2, <1>5, <1>8 DEF Size, Depth
  <2>2. Agree(path'[c], path'[n], z + m)
    <3>1. z + m \in Nat
      BY <1>2
    <3>2. Agree(path[c], pa, z + m)
      BY <1>2, <3>1, AgreeLess
    <3> QED
      BY <1>5, <1>8, <3>2
  <2>3. \A i \in 1..l : path'[c][(z + m) + i] = edge'[c][i]
    <3> SUFFICES ASSUME NEW i \in 1..l PROVE path[c][(z + m) + i] = eb[i]
      BY <1>5, <1>8
    <3>1. m + i \in 1..(m + l) /\ (z + m) + i = z + (m + i)
      BY <1>2
    <3>2. path[c][z + (m + i)] = edge[c][m + i]
      BY <1>9, <3>1
    <3> QED
      BY <1>3, <3>1, <3>2
  <2>4. edge'[c][1] \in DOMAIN children'[n] /\ children'[n][edge'[c][1]] = c
    BY <1>1, <1>5, <1>6
  <2> DEFINE s == z + m
  <2> HIDE DEF s
  <2>5. /\ Depth(n)' = s /\ Depth(c)' = s + l /\ Agree(path'[c], path'[n], s)
        /\ \A i \in 1..l : path'[c][s + i] = edge'[c][i]
    BY <2>1, <2>2, <2>3 DEF s
  <2> QED
    <3>1. Continues(c, n, s, l)'
      BY <1>2, <1>5, <2>1, <2>4, <2>5 DEF Continues
    <3> QED
      BY <3>1, LinkedUpNext
<1>12. ASSUME NEW j \in Inner, j # c PROVE LinkedUp(j)'
  <2>1. j \in Nodes /\ parent[j] \in Nodes /\ LinkedUp(j)
    BY <1>1, PathLengths DEF LinkInv
  <2>2. edge[j][1] \in DOMAIN children[parent[j]] /\ children[parent[j]][edge[j][1]] = j
    BY <2>1 DEF LinkedUp
  <2>3. edge[j][1] \in DOMAIN children'[parent[j]] /\ children'[parent[j]][edge[j][1]] = j
    BY <1>1, <1>6, <1>12, <2>1, <2>2
  <2> QED
    BY <1>5, <1>12, <2>1, <2>3, StaysLinkedUp
<1>13. ASSUME NEW j \in Nodes' PROVE LinkedDown(j)'
  <2> SUFFICES ASSUME NEW k \in DOMAIN children'[j]
               PROVE  /\ parent'[children'[j][k]] = j /\ edge'[children'[j][k]][1] = k
    BY DEF LinkedDown
  <2>1. CASE j = n
    BY <1>1, <1>5, <1>6, <2>1
  <2>2. CASE j = q /\ k = x
    BY <1>1, <1>5, <1>6, <2>2
  <2>3. CASE j \in Nodes /\ ~(j = q /\ k = x)
    <3>1. k \in DOMAIN children[j] /\ children'[j][k] = children[j][k]
      BY <1>6, <2>3
    <3>2. children[j][k] \in Nodes /\ parent[children[j][k]] = j /\ edge[children[j][k]][1] = k
      BY <1>1, <2>3, <3>1 DEF LinkInv, LinkedDown, TreeTyped, Inner
    <3>3. children[j][k] # c
      BY <1>1, <2>3, <3>2
    <3> QED
      BY <1>5, <3>1, <3>2, <3>3
  <2> QED
    BY <1>5, <2>1, <2>2, <2>3
<1> QED
  BY <1>5, <1>7, <1>10, <1>11, <1>12, <1>13 DEF LinkInv

\* block_locations points to both halves after a split.
LEMMA SplitLocated ==
    ASSUME NEW q, NEW c, NEW n, NEW x, NEW y, NEW ea, NEW eb, NEW ia, NEW ib, NEW pa,
           NEW z, NEW m, NEW l,
           SplitSetting(q, c, n, x, y, ea, eb, ia, ib, pa, z, m, l)
    PROVE  LocationInv'
<1>1. /\ TreeTyped /\ TreeInv /\ LocationInv /\ ia \in Seq(Ids) /\ ib \in Seq(Ids)
      /\ Len(ia) = m /\ Len(ib) = l
  BY DEF SplitSetting, TreeInv
<1>2. SplitDone(q, c, n, x, y, ea, eb, ia, ib, pa)
  BY DEF SplitSetting
<1>3. /\ c \in Inner /\ n \notin Nodes /\ n # Root /\ n # c
      /\ Inner' = Inner \cup {n} /\ Inner \subseteq Nodes
      /\ ids'[n] = ia /\ ids'[c] = ib /\ \A j \in Nodes \ {c} : ids'[j] = ids[j]
  BY <1>2 DEF SplitDone, Tables, Inner
<1>4. /\ Distinct(ia) /\ Distinct(ib)
      /\ \A b \in Range(ia) : b \notin Range(ib)
      /\ \A b \in DOMAIN locations : locations[b].node = c => b \in Range(ia) \/ b \in Range(ib)
      /\ \A b : b \in Range(ia) \/ b \in Range(ib) => b \in DOMAIN locations /\ locations[b].node = c
  BY SplitDistinct
<1>5. PICK o, t : /\ o = 0 /\ t = IndexNode(locations, n, ia, o)
                  /\ locations' = IndexNode(t, c, ib, o)
  BY <1>2 DEF SplitDone
<1>6. /\ \A b : b \in DOMAIN t <=> b \in DOMAIN locations \/ b \in Range(ia)
      /\ \A i \in 1..Len(ia) : t[ia[i]].node = n /\ t[ia[i]].at = o + i
      /\ \A b \in DOMAIN locations : b \notin Range(ia) => t[b] = locations[b]
  <2>1. o \in Nat
    BY <1>5
  <2> QED
    BY <1>1, <1>4, <1>5, <2>1, IndexNodeIs
<1>7. /\ \A b : b \in DOMAIN locations' <=> b \in DOMAIN t \/ b \in Range(ib)
      /\ \A i \in 1..Len(ib) : locations'[ib[i]].node = c /\ locations'[ib[i]].at = o + i
      /\ \A b \in DOMAIN t : b \notin Range(ib) => locations'[b] = t[b]
  <2>1. o \in Nat
    BY <1>5
  <2> QED
    BY <1>1, <1>4, <1>5, <2>1, IndexNodeIs
<1>8. \A b : b \in DOMAIN locations' <=> b \in DOMAIN locations
  BY <1>4, <1>6, <1>7
<1>9. ASSUME NEW i \in 1..Len(ia)
      PROVE  /\ ia[i] \in DOMAIN locations' /\ locations'[ia[i]].node = n
             /\ locations'[ia[i]].at = i
  <2>1. ia[i] \in Range(ia)
    BY <1>1, RangeIs
  <2>2. locations'[ia[i]] = t[ia[i]]
    BY <1>4, <1>6, <1>7, <2>1
  <2>3. t[ia[i]].node = n /\ t[ia[i]].at = i
    BY <1>5, <1>6
  <2> QED
    BY <1>4, <1>8, <2>1, <2>2, <2>3
<1>10. ASSUME NEW i \in 1..Len(ib)
       PROVE  /\ ib[i] \in DOMAIN locations' /\ locations'[ib[i]].node = c
              /\ locations'[ib[i]].at = i
  <2>1. ib[i] \in Range(ib)
    BY <1>1, RangeIs
  <2>2. locations'[ib[i]].node = c /\ locations'[ib[i]].at = i
    BY <1>5, <1>7
  <2> QED
    BY <1>4, <1>8, <2>1, <2>2
<1>11. ASSUME NEW b \in DOMAIN locations, locations[b].node # c
       PROVE  locations'[b] = locations[b]
  <2>1. b \notin Range(ia) /\ b \notin Range(ib)
    BY <1>4, <1>11
  <2> QED
    BY <1>6, <1>7, <2>1
<1>12. ASSUME NEW j \in Inner', NEW i \in 1..Len(ids'[j])
       PROVE  /\ ids'[j][i] \in DOMAIN locations'
              /\ locations'[ids'[j][i]].node = j /\ locations'[ids'[j][i]].at = i
  <2>1. CASE j = n
    BY <1>3, <1>9, <2>1
  <2>2. CASE j = c
    BY <1>3, <1>10, <2>2
  <2>3. CASE j \in Inner /\ j # c
    <3>1. i \in 1..Len(ids[j]) /\ ids'[j][i] = ids[j][i]
      BY <1>3, <2>3
    <3>2. /\ ids[j][i] \in DOMAIN locations
          /\ locations[ids[j][i]].node = j /\ locations[ids[j][i]].at = i
      BY <1>1, <2>3, <3>1 DEF LocationInv
    <3> QED
      BY <1>8, <1>11, <2>3, <3>1, <3>2
  <2> QED
    BY <1>3, <2>1, <2>2, <2>3
<1>13. ASSUME NEW b \in DOMAIN locations'
       PROVE  /\ locations'[b].at \in 1..Len(ids'[locations'[b].node])
              /\ ids'[locations'[b].node][locations'[b].at] = b
  <2>1. CASE b \in Range(ia)
    <3>1. PICK i \in 1..Len(ia) : ia[i] = b
      BY <1>1, <2>1, RangeIs
    <3> QED
      BY <1>3, <1>9, <3>1
  <2>2. CASE b \in Range(ib)
    <3>1. PICK i \in 1..Len(ib) : ib[i] = b
      BY <1>1, <2>2, RangeIs
    <3> QED
      BY <1>3, <1>10, <3>1
  <2>3. CASE b \notin Range(ia) /\ b \notin Range(ib)
    <3>1. b \in DOMAIN locations /\ locations[b].node # c
      BY <1>4, <1>8, <2>3
    <3>2. locations'[b] = locations[b]
      BY <1>11, <3>1
    <3>3. locations[b].node \in Nodes
      BY <1>1, <1>3, <3>1 DEF TreeTyped
    <3>4. ids'[locations[b].node] = ids[locations[b].node]
      BY <1>3, <3>1, <3>3
    <3> QED
      BY <1>1, <3>1, <3>2, <3>4 DEF LocationInv
  <2> QED
    BY <2>1, <2>2, <2>3
<1> QED
  BY <1>12, <1>13 DEF LocationInv

\* A split leaves the index alone.
LEMMA SplitIndexed ==
    ASSUME NEW q, NEW c, NEW n, NEW x, NEW y, NEW ea, NEW eb, NEW ia, NEW ib, NEW pa,
           NEW z, NEW m, NEW l,
           SplitSetting(q, c, n, x, y, ea, eb, ia, ib, pa, z, m, l), PrefixMap'
    PROVE  IndexOfTree' = IndexOfTree
<1>1. /\ TreeTyped /\ LinkInv /\ Start(c) = z /\ Depth(c) = z + (m + l)
      /\ z \in Nat /\ m \in Nat /\ l \in Nat /\ m > 0 /\ l > 0
      /\ Len(ea) = m /\ Len(eb) = l /\ Len(pa) = z + m /\ Agree(pa, path[c], z + m)
  BY DEF SplitSetting
<1>2. /\ \A i \in 1..m : ia[i] = ids[c][i]
      /\ \A i \in 1..l : ib[i] = ids[c][m + i]
  BY DEF SplitSetting
<1>3. SplitDone(q, c, n, x, y, ea, eb, ia, ib, pa)
  BY DEF SplitSetting
<1>4. /\ c \in Inner /\ c \in Nodes /\ n \notin Nodes /\ n # c
      /\ Inner' = Inner \cup {n} /\ Inner \subseteq Nodes
      /\ edge'[n] = ea /\ edge'[c] = eb /\ ids'[n] = ia /\ ids'[c] = ib /\ path'[n] = pa
      /\ \A j \in Nodes \ {c} : edge'[j] = edge[j] /\ ids'[j] = ids[j]
      /\ \A j \in Nodes : path'[j] = path[j]
  BY <1>3 DEF SplitDone, Tables, Inner
<1>5. PrefixMap
  BY <1>1, PrefixMapIs
<1>6. ASSUME NEW j \in Inner, j # c, NEW p
      PROVE  (EndsOn(j, p)' <=> EndsOn(j, p)) /\ Block(j, p)' = Block(j, p)
  <2>1. edge'[j] = edge[j] /\ ids'[j] = ids[j] /\ path'[j] = path[j]
    BY <1>4, <1>6
  <2> QED
    BY <2>1 DEF EndsOn, Covers, Start, Depth, Block
<1>7. Start(n)' = z /\ Depth(n)' = z + m /\ Start(c)' = z + m /\ Depth(c)' = z + (m + l)
  <2>1. Len(path[c]) = z + (m + l) /\ path'[c] = path[c]
    BY <1>1, <1>4 DEF Depth
  <2>2. Start(n)' = Len(path'[n]) - Len(edge'[n]) /\ Start(c)' = Len(path'[c]) - Len(edge'[c])
    BY DEF Start
  <2>3. (z + m) - m = z /\ (z + (m + l)) - l = z + m
    BY <1>1
  <2> QED
    BY <1>1, <1>4, <2>1, <2>2, <2>3 DEF Depth
<1>8. ASSUME NEW p \in Seq(Keys), EndsOn(n, p)'
      PROVE  EndsOn(c, p) /\ Block(c, p) = Block(n, p)'
  <2>1. z < Len(p) /\ Len(p) <= z + m /\ Agree(p, pa, Len(p)) /\ Len(p) \in Nat
    BY <1>4, <1>7, <1>8, LenProperties DEF EndsOn, Covers
  <2>2. Agree(pa, path[c], Len(p)) /\ Len(p) <= z + (m + l)
    <3>1. z + m \in Nat /\ Len(p) <= z + (m + l)
      BY <1>1, <2>1
    <3> QED
      BY <1>1, <2>1, <3>1, AgreeLess
  <2>3. Agree(p, path[c], Len(p))
    BY <2>1, <2>2, AgreeTransitive
  <2>4. Len(p) - z \in 1..m
    BY <1>1, <2>1
  <2>5. Block(n, p)' = ia[Len(p) - z] /\ Block(c, p) = ids[c][Len(p) - z]
    BY <1>1, <1>4, <1>7 DEF Block
  <2> QED
    BY <1>1, <1>2, <2>1, <2>2, <2>3, <2>4, <2>5 DEF EndsOn, Covers
<1>9. ASSUME NEW p \in Seq(Keys), EndsOn(c, p)'
      PROVE  EndsOn(c, p) /\ Block(c, p) = Block(c, p)'
  <2>1. z + m < Len(p) /\ Len(p) <= z + (m + l) /\ Agree(p, path[c], Len(p)) /\ Len(p) \in Nat
    BY <1>4, <1>7, <1>9, LenProperties DEF EndsOn, Covers
  <2>2. PICK i \in 1..l : Len(p) = (z + m) + i
    <3>1. Len(p) - (z + m) \in 1..l /\ Len(p) = (z + m) + (Len(p) - (z + m))
      BY <1>1, <2>1
    <3> QED
      BY <3>1
  <2>3. Len(p) - z = m + i /\ Len(p) - (z + m) = i /\ z < Len(p)
    BY <1>1, <2>2
  <2>4. Block(c, p)' = ib[i] /\ Block(c, p) = ids[c][m + i]
    BY <1>1, <1>4, <1>7, <2>3 DEF Block
  <2> QED
    BY <1>1, <1>2, <2>1, <2>2, <2>3, <2>4 DEF EndsOn, Covers
<1>10. ASSUME NEW p \in Seq(Keys), EndsOn(c, p)
       PROVE  EndsOn(c, p)' \/ EndsOn(n, p)'
  <2>1. z < Len(p) /\ Len(p) <= z + (m + l) /\ Agree(p, path[c], Len(p)) /\ Len(p) \in Nat
    BY <1>1, <1>10, LenProperties DEF EndsOn, Covers
  <2>2. CASE z + m < Len(p)
    BY <1>4, <1>7, <2>1, <2>2 DEF EndsOn, Covers
  <2>3. CASE Len(p) <= z + m
    <3>1. Agree(path[c], pa, Len(p))
      BY <1>1, <2>1, <2>3, AgreeLess
    <3>2. Agree(p, pa, Len(p))
      BY <2>1, <3>1, AgreeTransitive
    <3> QED
      BY <1>4, <1>7, <2>1, <2>3, <3>2 DEF EndsOn, Covers
  <2> QED
    BY <1>1, <2>1, <2>2, <2>3
<1>11. ASSUME NEW j \in Inner', NEW p \in Seq(Keys), EndsOn(j, p)'
       PROVE  \E i \in Inner : EndsOn(i, p) /\ Block(i, p) = Block(j, p)'
  <2>1. CASE j = n
    BY <1>4, <1>8, <1>11, <2>1
  <2>2. CASE j = c
    BY <1>4, <1>9, <1>11, <2>2
  <2>3. CASE j \in Inner /\ j # c
    BY <1>6, <1>11, <2>3
  <2> QED
    BY <1>4, <2>1, <2>2, <2>3
<1>12. ASSUME NEW j \in Inner, NEW p \in Seq(Keys), EndsOn(j, p)
       PROVE  \E i \in Inner' : EndsOn(i, p)'
  <2>1. CASE j = c
    BY <1>4, <1>10, <1>12, <2>1
  <2>2. CASE j # c
    BY <1>4, <1>6, <1>12, <2>2
  <2> QED
    BY <2>1, <2>2
<1> QED
  BY <1>5, <1>11, <1>12, SameIndex

\* InsertSplit keeps the invariant and is invisible in the prefix map.
LEMMA InsertSplitStep ==
    ASSUME IndInv, InsertSplit
    PROVE  Quiet
<1>1. PICK q, c, n, x, y, ea, eb, ia, ib, pa, z, m, l :
              /\ SplitSetting(q, c, n, x, y, ea, eb, ia, ib, pa, z, m, l)
              /\ node' = n /\ position' = z + m /\ z + m < Len(keys)
              /\ pa = SubSeq(keys, 1, z + m) /\ Agree(pa, keys, z + m)
  BY SplitSettingIs
<1>2. TreeTyped' /\ OrderInv' /\ LinkInv' /\ LocationInv'
  BY <1>1, SplitTyped, SplitLinked, SplitLocated
<1>3. PrefixMap'
  BY <1>2, PrefixMapIsNext
<1>4. IndexOfTree' = IndexOfTree
  BY <1>1, <1>3, SplitIndexed
<1>5. /\ z \in Nat /\ m \in Nat /\ Len(pa) = z + m /\ n \in Nodes' /\ path'[n] = pa
  <2>1. SplitDone(q, c, n, x, y, ea, eb, ia, ib, pa)
    BY <1>1 DEF SplitSetting
  <2> QED
    BY <1>1, <2>1 DEF SplitSetting, SplitDone, Tables
<1>6. /\ TypeOK /\ CallInv /\ op = "insert" /\ UNCHANGED <<op, keys, blocks, matched>>
      /\ keys \in Paths /\ Len(keys) \in Nat
  BY WalkIs DEF IndInv, InsertSplit
<1>7. CallTyped'
  BY <1>1, <1>5, <1>6 DEF TypeOK, CallTyped
<1>8. CallInv'
  <2>1. Depth(node)' = position' /\ Agree(path[node], keys, position)'
    <3>1. path'[node'] = pa /\ position' = z + m
      BY <1>1, <1>5
    <3> QED
      BY <1>1, <1>5, <1>6, <3>1 DEF Depth
  <2>2. MayInsert(keys, blocks)' /\ Len(blocks') = Len(keys')
    BY <1>4, <1>6, MayStillInsert DEF CallInv
  <2> QED
    BY <1>6, <2>1, <2>2 DEF CallInv
<1> QED
  BY <1>2, <1>4, <1>7, <1>8 DEF IndInv, TypeOK, Quiet

---------------------------------------------------------------------------
(* A removed block *)

\* The block is page at of node n.  Everything at and under that page goes; the
\* nodes N stay.
Gone(n, at, b) == /\ Under(n, locations[b].node)
                  /\ locations[b].node = n => at <= locations[b].at

PruneDone(n, at, N) ==
    /\ n \in Inner /\ at \in Nat /\ at > 0 /\ at <= Size(n)
    /\ N = {j \in Nodes : ~Under(n, j) \/ (at > 1 /\ j = n)}
    /\ Tables(N)
    /\ \A j \in N : parent'[j] = parent[j]
    /\ \A j \in N \ {n} : edge'[j] = edge[j] /\ ids'[j] = ids[j] /\ path'[j] = path[j]
    /\ n \in N =>
          /\ edge'[n] = SubSeq(edge[n], 1, at - 1) /\ ids'[n] = SubSeq(ids[n], 1, at - 1)
          /\ path'[n] = SubSeq(path[n], 1, Start(n) + at - 1)
    /\ \A j \in N : /\ children'[j] = [k \in DOMAIN children'[j] |-> children[j][k]]
                    /\ DOMAIN children'[j] \subseteq DOMAIN children[j]
                    /\ \A k \in DOMAIN children'[j] : children[j][k] \in N
                    /\ \A k \in DOMAIN children[j] :
                          children[j][k] \in N => k \in DOMAIN children'[j]
    /\ older' = [j \in N \ {Root} |-> older[j] \cap N]
    /\ locations' = [b \in DOMAIN locations' |-> locations[b]]
    /\ \A b : b \in DOMAIN locations' <=> b \in DOMAIN locations /\ ~Gone(n, at, b)

\* A node lies under itself.
LEMMA UnderSelf ==
    ASSUME TreeTyped, NEW n \in Nodes
    PROVE  Under(n, n)
<1>1. Depth(n) \in Nat
  BY Lengths
<1> QED
  BY <1>1 DEF Under, Agree

\* Nothing that stays hangs below the removed page.
LEMMA PruneKeeps ==
    ASSUME TreeInv, NEW n, NEW at, NEW N, PruneDone(n, at, N)
    PROVE  /\ Root \in N /\ N \subseteq Nodes /\ N \ {Root} \subseteq Inner
           /\ \A j \in N \ {Root} : parent[j] \in N /\ parent[j] # n
<1>1. TreeTyped /\ LinkInv /\ n \in Inner /\ n \in Nodes
  BY DEF TreeInv, PruneDone, Inner
<1>2. N = {j \in Nodes : ~Under(n, j) \/ (at > 1 /\ j = n)}
  BY DEF PruneDone
<1>3. Root \in N
  <2>1. Root \in Nodes /\ Depth(Root) = 0 /\ Depth(n) \in Nat /\ Depth(n) # 0
    BY <1>1, RootPath DEF TreeTyped, Inner
  <2> QED
    BY <1>2, <2>1 DEF Under
<1>4. ASSUME NEW j \in N \ {Root} PROVE parent[j] \in N /\ parent[j] # n
  <2>1. j \in Inner /\ j \in Nodes /\ parent[j] \in Nodes
    BY <1>1, <1>2, PathLengths DEF Inner
  <2>2. Under(n, parent[j]) => j = n
    BY <1>1, <1>2, <2>1, UnderChild
  <2>3. ~Under(n, parent[j])
    <3> SUFFICES ASSUME Under(n, parent[j]) PROVE FALSE
      OBVIOUS
    <3>1. j = n /\ Under(j, parent[j])
      BY <2>2
    <3>2. /\ Depth(j) \in Nat /\ Start(j) \in Nat /\ Size(j) > 0 /\ Size(j) \in Nat
          /\ Start(j) = Depth(parent[j]) /\ Depth(j) = Start(j) + Size(j)
      BY <1>1, <2>1, PathLengths
    <3> QED
      BY <3>1, <3>2 DEF Under
  <2>4. Under(n, n)
    BY <1>1, UnderSelf
  <2> QED
    BY <1>2, <2>1, <2>3, <2>4
<1> QED
  BY <1>2, <1>3, <1>4 DEF Inner

\* What is left of the node the block was on.
LEMMA PruneCut ==
    ASSUME TreeInv, NEW n, NEW at, NEW N, PruneDone(n, at, N), n \in N
    PROVE  /\ at > 1 /\ at - 1 \in Nat /\ at - 1 > 0
           /\ edge'[n] \in Seq(Keys) /\ ids'[n] \in Seq(Ids) /\ path'[n] \in Seq(Keys)
           /\ Size(n)' = at - 1 /\ Len(ids'[n]) = at - 1 /\ Depth(n)' = Start(n) + (at - 1)
           /\ Start(n)' = Start(n)
           /\ \A i \in 1..(at - 1) : edge'[n][i] = edge[n][i] /\ ids'[n][i] = ids[n][i]
           /\ Agree(path'[n], path[n], Start(n) + (at - 1))
<1>1. TreeTyped /\ LinkInv /\ n \in Inner /\ n \in Nodes /\ at \in Nat /\ at > 0 /\ at <= Size(n)
  BY DEF TreeInv, PruneDone, Inner
<1>2. at > 1
  <2>1. Under(n, n)
    BY <1>1, UnderSelf
  <2> QED
    BY <2>1 DEF PruneDone
<1>3. PICK a \in Nat : a = at - 1 /\ a > 0
  BY <1>1, <1>2
<1>4. /\ Start(n) \in Nat /\ Size(n) \in Nat /\ Depth(n) = Start(n) + Size(n)
      /\ edge[n] \in Seq(Keys) /\ ids[n] \in Seq(Ids) /\ path[n] \in Seq(Keys)
      /\ Len(edge[n]) = Size(n) /\ Len(ids[n]) = Size(n)
  BY <1>1, PathLengths, Lengths DEF LinkInv, LinkedUp, Size
<1>5. /\ edge'[n] = SubSeq(edge[n], 1, a) /\ ids'[n] = SubSeq(ids[n], 1, a)
      /\ path'[n] = SubSeq(path[n], 1, Start(n) + a)
  <2>1. Start(n) + at - 1 = Start(n) + a
    BY <1>1, <1>3, <1>4
  <2> QED
    BY <1>3, <2>1 DEF PruneDone
<1>6. /\ a \in 0..Len(edge[n]) /\ a \in 0..Len(ids[n]) /\ Start(n) + a \in 0..Len(path[n])
  BY <1>1, <1>3, <1>4 DEF Depth
<1>7. /\ edge'[n] \in Seq(Keys) /\ Len(edge'[n]) = a /\ \A i \in 1..a : edge'[n][i] = edge[n][i]
  BY <1>4, <1>5, <1>6, FirstPart
<1>8. /\ ids'[n] \in Seq(Ids) /\ Len(ids'[n]) = a /\ \A i \in 1..a : ids'[n][i] = ids[n][i]
  BY <1>4, <1>5, <1>6, FirstPart
<1>9. /\ path'[n] \in Seq(Keys) /\ Len(path'[n]) = Start(n) + a
      /\ Agree(path'[n], path[n], Start(n) + a)
  <2> DEFINE s == Start(n) + a
  <2>1. s \in 0..Len(path[n]) /\ path'[n] = SubSeq(path[n], 1, s)
    BY <1>5, <1>6
  <2> HIDE DEF s
  <2>2. /\ path'[n] \in Seq(Keys) /\ Len(path'[n]) = s /\ \A i \in 1..s : path'[n][i] = path[n][i]
    BY <1>4, <2>1, FirstPart
  <2> QED
    BY <2>2 DEF s, Agree
<1>10. Size(n)' = a /\ Depth(n)' = Start(n) + a
  BY <1>7, <1>9 DEF Size, Depth
<1>11. Start(n)' = Start(n)
  <2>1. Start(n)' = Len(path'[n]) - Len(edge'[n])
    BY DEF Start
  <2> QED
    BY <1>3, <1>4, <1>7, <1>9, <2>1
<1> QED
  BY <1>2, <1>3, <1>7, <1>8, <1>9, <1>10, <1>11

\* The tables are typed after a removal, and the order of the nodes left is linear.
LEMMA PruneTyped ==
    ASSUME TreeInv, NEW n, NEW at, NEW N, PruneDone(n, at, N)
    PROVE  TreeTyped' /\ OrderInv'
<1>1. /\ TreeTyped /\ LocationInv /\ n \in Inner /\ Tables(N)
      /\ N = {j \in Nodes : ~Under(n, j) \/ (at > 1 /\ j = n)}
      /\ older' = [j \in N \ {Root} |-> older[j] \cap N]
      /\ at \in Nat /\ at > 0
  BY DEF TreeInv, PruneDone
<1>2. Root \in N /\ N \subseteq Nodes /\ N \ {Root} \subseteq Inner
      /\ \A j \in N \ {Root} : parent[j] \in N
  BY PruneKeeps
<1>3. N \subseteq Nat /\ IsFiniteSet(N)
  <2>1. N \in SUBSET Nodes /\ IsFiniteSet(Nodes) /\ Nodes \subseteq Nat
    BY <1>1, <1>2 DEF TreeTyped
  <2> QED
    BY <2>1, FS_Subset
<1>4. ASSUME NEW j \in N
      PROVE  /\ edge'[j] \in Seq(Keys) /\ ids'[j] \in Seq(Ids)
             /\ parent'[j] \in N /\ path'[j] \in Seq(Keys)
  <2>1. parent'[j] = parent[j]
    BY DEF PruneDone
  <2>2. parent[j] \in N
    <3>1. CASE j = Root
      <4>1. parent[Root] = Root
        BY <1>1 DEF TreeInv, LinkInv, Rooted
      <4> QED
        BY <1>2, <3>1, <4>1
    <3> QED
      BY <1>2, <3>1
  <2>3. CASE j = n
    BY <2>1, <2>2, <2>3, PruneCut
  <2>4. CASE j # n
    <3>1. edge'[j] = edge[j] /\ ids'[j] = ids[j] /\ path'[j] = path[j]
      BY <2>4 DEF PruneDone
    <3> QED
      BY <1>1, <1>2, <2>1, <2>2, <3>1 DEF TreeTyped
  <2> QED
    BY <2>3, <2>4
<1>5. ASSUME NEW j \in N
      PROVE  /\ DOMAIN children'[j] \subseteq Keys
             /\ children'[j] \in [DOMAIN children'[j] -> N \ {Root}]
  <2>1. /\ children'[j] = [k \in DOMAIN children'[j] |-> children[j][k]]
        /\ DOMAIN children'[j] \subseteq DOMAIN children[j]
        /\ \A k \in DOMAIN children'[j] : children[j][k] \in N
    BY DEF PruneDone
  <2>2. DOMAIN children[j] \subseteq Keys /\ children[j] \in [DOMAIN children[j] -> Inner]
    BY <1>1, <1>2 DEF TreeTyped
  <2>3. \A k \in DOMAIN children'[j] : children[j][k] \in N \ {Root}
    BY <2>1, <2>2 DEF Inner
  <2> QED
    BY <2>1, <2>2, <2>3
<1>6. Linear(older', N \ {Root})
  <2>1. Linear(older, Inner)
    BY <1>1, OrderIsLinear DEF TreeInv
  <2> QED
    BY <1>1, <1>2, <2>1, RestrictKeeps
<1>7. /\ DOMAIN locations' \subseteq Ids
      /\ locations' \in [DOMAIN locations' -> [node : N \ {Root}, at : Nat]]
  <2>1. locations' = [b \in DOMAIN locations' |-> locations[b]]
    BY DEF PruneDone
  <2>2. \A b : b \in DOMAIN locations' <=> b \in DOMAIN locations /\ ~Gone(n, at, b)
    BY DEF PruneDone
  <2>3. ASSUME NEW b \in DOMAIN locations' PROVE locations[b] \in [node : N \ {Root}, at : Nat]
    <3>1. b \in DOMAIN locations /\ ~Gone(n, at, b)
      BY <2>2
    <3>2. locations[b] \in [node : Inner, at : Nat]
      BY <1>1, <3>1 DEF TreeTyped
    <3>3. locations[b].node \in Inner /\ locations[b].at \in Nat /\ locations[b].node \in Nodes
      BY <3>2 DEF Inner
    <3>4. locations[b].at > 0
      BY <1>1, <3>1, <3>3 DEF LocationInv
    <3>5. ~Under(n, locations[b].node) \/ (at > 1 /\ locations[b].node = n)
      BY <1>1, <3>1, <3>3, <3>4 DEF Gone
    <3>6. locations[b].node \in N \ {Root}
      BY <1>1, <3>3, <3>5 DEF Inner
    <3> QED
      BY <3>2, <3>6
  <2>4. DOMAIN locations' \subseteq Ids
    BY <1>1, <2>2 DEF TreeTyped
  <2> DEFINE L == [node : N \ {Root}, at : Nat]
  <2>5. \A b \in DOMAIN locations' : locations[b] \in L
    BY <2>3
  <2> HIDE DEF L
  <2>6. locations' \in [DOMAIN locations' -> L]
    BY <2>1, <2>5
  <2> QED
    BY <2>4, <2>6 DEF L
<1> QED
  BY <1>1, <1>2, <1>3, <1>4, <1>5, <1>6, <1>7, TypedAgain

\* The tree is linked after a removal.
LEMMA PruneLinked ==
    ASSUME TreeInv, NEW n, NEW at, NEW N, PruneDone(n, at, N)
    PROVE  LinkInv'
<1>1. /\ TreeTyped /\ LinkInv /\ n \in Inner /\ Nodes' = N /\ Inner' = N \ {Root}
      /\ \A j \in N : parent'[j] = parent[j]
  BY DEF TreeInv, PruneDone, Tables
<1>2. /\ Root \in N /\ N \subseteq Nodes /\ N \ {Root} \subseteq Inner /\ n # Root
      /\ \A j \in N \ {Root} : parent[j] \in N /\ parent[j] # n
  BY <1>1, PruneKeeps DEF Inner
<1>3. \A j \in N : j # n => edge'[j] = edge[j] /\ ids'[j] = ids[j] /\ path'[j] = path[j]
  BY DEF PruneDone
<1>4. Rooted'
  BY <1>1, <1>2, <1>3 DEF LinkInv, Rooted
<1>5. ASSUME NEW j \in N \ {Root}
      PROVE  /\ edge[j][1] \in DOMAIN children'[parent[j]]
             /\ children'[parent[j]][edge[j][1]] = j
  <2>1. PICK q, x : q = parent[j] /\ x = edge[j][1]
    OBVIOUS
  <2>2. x \in DOMAIN children[q] /\ children[q][x] = j /\ q \in N
    BY <1>1, <1>2, <2>1 DEF LinkInv, LinkedUp
  <2>3. /\ children'[q] = [k \in DOMAIN children'[q] |-> children[q][k]]
        /\ \A k \in DOMAIN children[q] : children[q][k] \in N => k \in DOMAIN children'[q]
    BY <2>2 DEF PruneDone
  <2>4. x \in DOMAIN children'[q]
    BY <2>2, <2>3
  <2>5. children'[q][x] = j
    BY <2>2, <2>3, <2>4
  <2> QED
    BY <2>1, <2>4, <2>5
<1>6. ASSUME NEW j \in N \ {Root}, j # n PROVE LinkedUp(j)'
  <2>1. LinkedUp(j)
    BY <1>1, <1>2 DEF LinkInv
  <2>2. parent[j] \in N /\ parent[j] # n
    BY <1>2
  <2>3. /\ edge'[j] = edge[j] /\ ids'[j] = ids[j] /\ path'[j] = path[j] /\ parent'[j] = parent[j]
        /\ path'[parent[j]] = path[parent[j]]
    BY <1>1, <1>3, <1>6, <2>2
  <2> QED
    BY <1>5, <2>1, <2>3, StaysLinkedUp
<1>7. ASSUME n \in N PROVE LinkedUp(n)'
  <2>1. PICK a, s, q : a = at - 1 /\ s = Start(n) /\ q = parent[n]
    OBVIOUS
  <2>2. /\ a \in Nat /\ a > 0 /\ Size(n)' = a /\ Len(ids'[n]) = a /\ Depth(n)' = s + a
        /\ \A i \in 1..a : edge'[n][i] = edge[n][i]
        /\ Agree(path'[n], path[n], s + a)
    BY <1>7, <2>1, PruneCut
  <2>3. /\ s \in Nat /\ s = Depth(q) /\ Agree(path[n], path[q], s)
        /\ \A i \in 1..Size(n) : path[n][s + i] = edge[n][i]
        /\ Size(n) \in Nat /\ q \in Nodes
    BY <1>1, <2>1, PathLengths
  <2>4. at \in Nat /\ at <= Size(n)
    BY DEF PruneDone
  <2>5. q \in N /\ q # n /\ parent'[n] = q
    BY <1>1, <1>2, <1>7, <2>1
  <2>6. path'[q] = path[q]
    BY <1>3, <2>5
  <2>7. Depth(q)' = s
    BY <2>3, <2>6 DEF Depth
  <2>8. Agree(path'[n], path'[q], s)
    <3>1. s <= s + a /\ s + a \in Nat
      BY <2>2, <2>3
    <3>2. Agree(path'[n], path[n], s)
      BY <2>2, <2>3, <3>1, AgreeLess
    <3> QED
      BY <2>3, <2>6, <3>2, AgreeTransitive
  <2>9. ASSUME NEW i \in 1..a PROVE path'[n][s + i] = edge'[n][i]
    <3>1. i \in 1..Size(n)
      BY <2>1, <2>2, <2>3, <2>4
    <3>2. PICK u : u = s + i
      OBVIOUS
    <3>3. u \in 1..(s + a)
      BY <2>2, <2>3, <3>2
    <3>4. path'[n][u] = path[n][u]
      BY <2>2, <3>3 DEF Agree
    <3> QED
      BY <2>2, <2>3, <3>1, <3>2, <3>4
  <2>10. edge'[n][1] = edge[n][1]
    BY <2>2
  <2>11. edge'[n][1] \in DOMAIN children'[q] /\ children'[q][edge'[n][1]] = n
    BY <1>2, <1>5, <1>7, <2>1, <2>10
  <2>12. Continues(n, q, s, a)'
    BY <2>2, <2>5, <2>7, <2>8, <2>9, <2>11 DEF Continues
  <2> QED
    BY <2>12, LinkedUpNext
<1>8. ASSUME NEW j \in N PROVE LinkedDown(j)'
  <2>1. /\ children'[j] = [k \in DOMAIN children'[j] |-> children[j][k]]
        /\ DOMAIN children'[j] \subseteq DOMAIN children[j]
        /\ \A k \in DOMAIN children'[j] : children[j][k] \in N
    BY DEF PruneDone
  <2>2. LinkedDown(j)
    BY <1>1, <1>2 DEF LinkInv
  <2>3. ASSUME NEW k \in DOMAIN children'[j]
        PROVE  parent'[children'[j][k]] = j /\ edge'[children'[j][k]][1] = k
    <3>1. PICK c : c = children[j][k]
      OBVIOUS
    <3>2. children'[j][k] = c /\ c \in N /\ parent[c] = j /\ edge[c][1] = k
      BY <2>1, <2>2, <2>3, <3>1 DEF LinkedDown
    <3>3. edge'[c][1] = edge[c][1]
      <4>1. CASE c = n
        <5>1. 1 \in 1..(at - 1) /\ \A i \in 1..(at - 1) : edge'[n][i] = edge[n][i]
          BY <3>2, <4>1, PruneCut
        <5> QED
          BY <4>1, <5>1
      <4> QED
        BY <1>3, <3>2, <4>1
    <3> QED
      BY <1>1, <3>2, <3>3
  <2> QED
    BY <2>3 DEF LinkedDown
<1> QED
  BY <1>1, <1>4, <1>6, <1>7, <1>8 DEF LinkInv

\* No location of a block that is gone is left, and none of another is lost.
LEMMA PruneLocated ==
    ASSUME TreeInv, NEW n, NEW at, NEW N, PruneDone(n, at, N)
    PROVE  LocationInv'
<1>1. /\ TreeTyped /\ LinkInv /\ LocationInv /\ n \in Inner /\ n \in Nodes
      /\ Nodes' = N /\ Inner' = N \ {Root} /\ at \in Nat /\ at > 0
      /\ N = {j \in Nodes : ~Under(n, j) \/ (at > 1 /\ j = n)}
      /\ locations' = [b \in DOMAIN locations' |-> locations[b]]
  BY DEF TreeInv, PruneDone, Tables, Inner
<1>2. N \subseteq Nodes /\ N \ {Root} \subseteq Inner
  BY PruneKeeps
<1>3. \A j \in N : j # n => ids'[j] = ids[j]
  BY DEF PruneDone
<1>4. \A b : b \in DOMAIN locations' <=> b \in DOMAIN locations /\ ~Gone(n, at, b)
  BY DEF PruneDone
<1>5. \A b \in DOMAIN locations' : locations'[b] = locations[b]
  BY <1>1
<1>6. ASSUME n \in N
      PROVE  Len(ids'[n]) = at - 1 /\ \A i \in 1..(at - 1) : ids'[n][i] = ids[n][i]
  BY <1>6, PruneCut
<1>7. ASSUME n \in N PROVE at <= Len(ids[n]) /\ Len(ids[n]) \in Nat
  <2>1. Len(ids[n]) = Size(n) /\ Size(n) \in Nat
    BY <1>1, PathLengths DEF LinkInv, LinkedUp
  <2> QED
    BY <2>1 DEF PruneDone
<1>8. Under(n, n)
  BY <1>1, UnderSelf
<1>9. ASSUME NEW j \in N \ {Root}, NEW i \in 1..Len(ids'[j])
      PROVE  /\ ids'[j][i] \in DOMAIN locations'
             /\ locations'[ids'[j][i]].node = j /\ locations'[ids'[j][i]].at = i
  <2>1. /\ i \in 1..Len(ids[j]) /\ ids'[j][i] = ids[j][i]
        /\ j = n => i < at
    <3>1. CASE j = n
      <4>1. i \in 1..(at - 1) /\ at - 1 < at /\ at - 1 < Len(ids[n])
        BY <1>1, <1>6, <1>7, <1>9, <3>1
      <4> QED
        BY <1>1, <1>6, <1>7, <3>1, <4>1
    <3>2. CASE j # n
      BY <1>3, <1>9, <3>2
    <3> QED
      BY <3>1, <3>2
  <2>2. PICK b : b = ids[j][i]
    OBVIOUS
  <2>3. b \in DOMAIN locations /\ locations[b].node = j /\ locations[b].at = i
    BY <1>1, <1>2, <2>1, <2>2 DEF LocationInv
  <2>4. ~Gone(n, at, b)
    <3>1. CASE j = n
      BY <1>1, <2>1, <2>3, <3>1 DEF Gone
    <3>2. CASE j # n
      BY <1>1, <2>3, <3>2 DEF Gone
    <3> QED
      BY <3>1, <3>2
  <2> QED
    BY <1>4, <1>5, <2>1, <2>2, <2>3, <2>4
<1>10. ASSUME NEW b \in DOMAIN locations'
       PROVE  /\ locations'[b].at \in 1..Len(ids'[locations'[b].node])
              /\ ids'[locations'[b].node][locations'[b].at] = b
  <2>1. b \in DOMAIN locations /\ ~Gone(n, at, b)
    BY <1>4
  <2>2. PICK j, i : j = locations[b].node /\ i = locations[b].at
    OBVIOUS
  <2>3. j \in Inner /\ j \in Nodes /\ i \in 1..Len(ids[j]) /\ ids[j][i] = b
    BY <1>1, <2>1, <2>2 DEF LocationInv, TreeTyped, Inner
  <2>4. ~Under(n, j) \/ (j = n /\ ~(at <= i))
    BY <2>1, <2>2 DEF Gone
  <2>5. j \in N
    <3>1. CASE ~Under(n, j)
      BY <1>1, <2>3, <3>1
    <3>2. CASE j = n /\ ~(at <= i)
      BY <1>1, <2>3, <3>2
    <3> QED
      BY <2>4, <3>1, <3>2
  <2>6. i \in 1..Len(ids'[j]) /\ ids'[j][i] = b
    <3>1. CASE j = n
      <4>1. i \in 1..(at - 1)
        BY <1>1, <1>8, <2>3, <2>4, <3>1
      <4> QED
        BY <1>6, <2>3, <2>5, <3>1, <4>1
    <3>2. CASE j # n
      BY <1>3, <2>3, <2>5, <3>2
    <3> QED
      BY <3>1, <3>2
  <2> QED
    BY <1>5, <2>2, <2>6
<1> QED
  BY <1>1, <1>9, <1>10 DEF LocationInv

\* The indexed prefix of a page that b is removed with.
Beyond(b, p) == \E q \in DOMAIN IndexOfTree : IndexOfTree[q] = b /\ IsPrefix(q, p)

\* A prefix goes on beyond the page of b when the page it ends on is gone with b.
LEMMA BeyondIs ==
    ASSUME TreeInv, NEW b \in DOMAIN locations, NEW n, NEW at,
           n = locations[b].node, at = locations[b].at,
           NEW j \in Inner, NEW p \in Seq(Keys), EndsOn(j, p)
    PROVE  Beyond(b, p) <=> Under(n, j) /\ (j = n => at <= Len(p) - Start(n))
<1>1. PICK e : e = Start(n) + at
  OBVIOUS
<1>2. PICK r : r = SubSeq(path[n], 1, e)
  OBVIOUS
<1>3. /\ n \in Inner /\ at \in 1..Size(n) /\ e \in 1..Depth(n)
      /\ r \in Seq(Keys) /\ Len(r) = e /\ Agree(r, path[n], e)
      /\ r \in DOMAIN IndexOfTree /\ IndexOfTree[r] = b
  BY <1>1, <1>2, LocationIndexed
<1>4. /\ TreeTyped /\ LinkInv /\ n \in Nodes /\ j \in Nodes /\ Start(n) \in Nat /\ Size(n) \in Nat
      /\ Depth(n) \in Nat /\ Depth(n) = Start(n) + Size(n)
      /\ Start(j) \in Nat /\ Depth(j) \in Nat /\ Len(p) \in Nat
  BY <1>3, PathLengths, LenProperties DEF TreeInv
<1>5. Start(j) < Len(p) /\ Len(p) <= Depth(j) /\ Agree(p, path[j], Len(p))
  BY DEF EndsOn, Covers
<1>6. e \in Nat /\ at \in Nat /\ Start(n) + 1 \in Nat /\ Start(n) + 1 <= e /\ e <= Depth(n)
      /\ e - Start(n) = at
  BY <1>1, <1>3, <1>4
<1>7. ASSUME Beyond(b, p) PROVE Under(n, j) /\ (j = n => at <= Len(p) - Start(n))
  <2>1. PICK q \in DOMAIN IndexOfTree : IndexOfTree[q] = b /\ IsPrefix(q, p)
    BY <1>7 DEF Beyond
  <2>2. PrefixMap
    BY <1>4, PrefixMapIs
  <2>3. PICK m \in Inner : q \in Seq(Keys) /\ EndsOn(m, q)
    BY <2>2 DEF PrefixMap
  <2>4. Block(m, q) = b
    BY <2>1, <2>2, <2>3 DEF PrefixMap
  <2>5. m = n /\ at = Len(q) - Start(n)
    BY <2>3, <2>4, PageLocated
  <2>6. Len(q) = e
    BY <1>4, <1>6, <2>3, <2>5, LenProperties
  <2>7. Agree(q, path[n], e) /\ e <= Len(p) /\ Agree(q, p, e)
    BY <2>1, <2>3, <2>5, <2>6, PrefixAgrees DEF EndsOn
  <2>8. Agree(path[n], path[j], e)
    <3>1. Agree(path[n], q, e)
      BY <1>6, <2>7, AgreeLess
    <3>2. Agree(p, path[j], e)
      BY <1>4, <1>5, <1>6, <2>7, AgreeLess
    <3> QED
      BY <2>7, <3>1, <3>2, AgreeTransitive
  <2>9. Agree(path[n], path[j], Start(n) + 1)
    BY <1>6, <2>8, AgreeLess
  <2>10. Start(n) < Depth(j)
    BY <1>4, <1>5, <1>6, <2>7
  <2>11. Under(n, j)
    BY <1>3, <1>4, <2>9, <2>10, EntersEdge
  <2> QED
    BY <1>4, <1>6, <2>7, <2>11
<1>8. ASSUME Under(n, j), j = n => at <= Len(p) - Start(n) PROVE Beyond(b, p)
  <2>1. e <= Len(p)
    <3>1. CASE j = n
      BY <1>1, <1>4, <1>6, <1>8, <3>1
    <3>2. CASE j # n
      <4>1. Depth(n) <= Start(j)
        BY <1>4, <1>8, <3>2, UnderParent
      <4> QED
        BY <1>4, <1>5, <1>6, <4>1
    <3> QED
      BY <3>1, <3>2
  <2>2. Agree(path[n], path[j], e)
    <3>1. Agree(path[n], path[j], Depth(n))
      BY <1>8 DEF Under
    <3> QED
      BY <1>4, <1>6, <3>1, AgreeLess
  <2>3. Agree(path[j], p, e)
    BY <1>4, <1>5, <1>6, <2>1, AgreeLess
  <2>4. Agree(r, p, e)
    BY <1>3, <2>2, <2>3, AgreeTransitive
  <2>5. IsPrefix(r, p)
    BY <1>3, <2>1, <2>4, PrefixAgrees
  <2> QED
    BY <1>3, <2>5 DEF Beyond
<1> QED
  BY <1>7, <1>8

\* Exactly the prefixes beyond the page of b leave the index.
IndexShrinks(b) ==
    /\ \A p \in DOMAIN IndexOfTree' : /\ p \in DOMAIN IndexOfTree /\ ~Beyond(b, p)
                                      /\ IndexOfTree'[p] = IndexOfTree[p]
    /\ \A p \in DOMAIN IndexOfTree : ~Beyond(b, p) => p \in DOMAIN IndexOfTree'

\* A removal takes the extensions of the page of b from the index, and nothing else.
LEMMA PruneIndexed ==
    ASSUME TreeInv, NEW n, NEW at, NEW N, PruneDone(n, at, N), PrefixMap',
           NEW b \in DOMAIN locations, n = locations[b].node, at = locations[b].at
    PROVE  IndexShrinks(b)
<1>1. /\ TreeTyped /\ LinkInv /\ n \in Inner /\ Inner' = N \ {Root} /\ at \in Nat /\ at > 0
      /\ N = {j \in Nodes : ~Under(n, j) \/ (at > 1 /\ j = n)}
      /\ \A j \in N \ {n} : edge'[j] = edge[j] /\ ids'[j] = ids[j] /\ path'[j] = path[j]
  BY DEF TreeInv, PruneDone, Tables
<1>2. N \ {Root} \subseteq Inner /\ N \subseteq Nodes
  BY PruneKeeps
<1>3. PrefixMap
  BY <1>1, PrefixMapIs
<1>4. Start(n) \in Nat /\ Size(n) \in Nat /\ Depth(n) = Start(n) + Size(n) /\ at <= Size(n)
  BY <1>1, PathLengths DEF PruneDone
<1>5. ASSUME NEW j \in N, j # n, NEW p
      PROVE  (EndsOn(j, p)' <=> EndsOn(j, p)) /\ Block(j, p)' = Block(j, p)
  <2>1. edge'[j] = edge[j] /\ ids'[j] = ids[j] /\ path'[j] = path[j]
    BY <1>1, <1>5
  <2> QED
    BY <2>1 DEF EndsOn, Covers, Start, Depth, Block
<1>6. ASSUME n \in N, NEW p \in Seq(Keys)
      PROVE  /\ EndsOn(n, p)' <=> EndsOn(n, p) /\ ~(at <= Len(p) - Start(n))
             /\ EndsOn(n, p)' => Block(n, p)' = Block(n, p)
  <2>1. PICK a, s, d : a = at - 1 /\ s = Start(n) /\ d = Size(n)
    OBVIOUS
  <2>2. /\ a \in Nat /\ s \in Nat /\ d \in Nat /\ at = a + 1 /\ a < d /\ Len(p) \in Nat
        /\ Depth(n) = s + d
    BY <1>1, <1>4, <2>1, LenProperties
  <2>3. /\ Depth(n)' = s + a /\ Start(n)' = s /\ \A i \in 1..a : ids'[n][i] = ids[n][i]
        /\ Agree(path'[n], path[n], s + a)
    BY <1>6, <2>1, PruneCut
  <2>4. EndsOn(n, p)' <=> s < Len(p) /\ Len(p) <= s + a /\ Agree(p, path'[n], Len(p))
    BY <2>3 DEF EndsOn, Covers
  <2>5. EndsOn(n, p) <=> s < Len(p) /\ Len(p) <= s + d /\ Agree(p, path[n], Len(p))
    BY <2>1, <2>2 DEF EndsOn, Covers
  <2>6. ASSUME Len(p) <= s + a PROVE Agree(p, path'[n], Len(p)) <=> Agree(p, path[n], Len(p))
    <3>1. s + a \in Nat
      BY <2>2
    <3>2. Agree(path'[n], path[n], Len(p)) /\ Agree(path[n], path'[n], Len(p))
      BY <2>2, <2>3, <2>6, <3>1, AgreeLess
    <3> QED
      BY <3>2, AgreeTransitive
  <2>7. Len(p) <= s + a <=> Len(p) <= s + d /\ ~(at <= Len(p) - s)
    BY <2>2
  <2>8. EndsOn(n, p)' <=> EndsOn(n, p) /\ ~(at <= Len(p) - s)
    BY <2>4, <2>5, <2>6, <2>7
  <2>9. ASSUME EndsOn(n, p)' PROVE Block(n, p)' = Block(n, p)
    <3>1. Len(p) - s \in 1..a
      BY <2>2, <2>4, <2>9
    <3>2. Block(n, p)' = ids'[n][Len(p) - s] /\ Block(n, p) = ids[n][Len(p) - s]
      BY <2>1, <2>3 DEF Block
    <3> QED
      BY <2>3, <3>1, <3>2
  <2> QED
    BY <2>1, <2>8, <2>9
<1>7. ASSUME NEW p \in DOMAIN IndexOfTree'
      PROVE  p \in DOMAIN IndexOfTree /\ ~Beyond(b, p) /\ IndexOfTree'[p] = IndexOfTree[p]
  <2>1. p \in Seq(Keys)
    BY DEF PrefixMap
  <2>2. PICK j \in Inner' : EndsOn(j, p)'
    BY DEF PrefixMap
  <2>3. j \in N /\ j \in Inner
    BY <1>1, <1>2
  <2>4. /\ EndsOn(j, p) /\ Block(j, p)' = Block(j, p)
        /\ ~(Under(n, j) /\ (j = n => at <= Len(p) - Start(n)))
    <3>1. CASE j = n
      BY <1>6, <2>1, <2>2, <2>3, <3>1
    <3>2. CASE j # n
      BY <1>1, <1>5, <2>2, <2>3, <3>2
    <3> QED
      BY <3>1, <3>2
  <2>5. IndexOfTree'[p] = Block(j, p)'
    BY <2>1, <2>2 DEF PrefixMap
  <2>6. p \in DOMAIN IndexOfTree /\ IndexOfTree[p] = Block(j, p)
    BY <1>3, <2>1, <2>3, <2>4 DEF PrefixMap
  <2>7. ~Beyond(b, p)
    BY <2>1, <2>3, <2>4, BeyondIs
  <2> QED
    BY <2>4, <2>5, <2>6, <2>7
<1>8. ASSUME NEW p \in DOMAIN IndexOfTree, ~Beyond(b, p)
      PROVE  p \in DOMAIN IndexOfTree'
  <2>1. p \in Seq(Keys)
    BY <1>3 DEF PrefixMap
  <2>2. PICK j \in Inner : EndsOn(j, p)
    BY <1>3 DEF PrefixMap
  <2>3. ~(Under(n, j) /\ (j = n => at <= Len(p) - Start(n)))
    BY <1>8, <2>1, <2>2, BeyondIs
  <2>4. j \in Nodes /\ j # Root
    BY DEF Inner
  <2>5. j \in N /\ EndsOn(j, p)'
    <3>1. CASE j = n
      <4>1. Start(n) < Len(p) /\ Len(p) \in Nat
        BY <2>1, <2>2, <3>1, LenProperties DEF EndsOn, Covers
      <4>2. Under(n, n)
        BY <1>1, <2>4, <3>1, UnderSelf
      <4>3. ~(at <= Len(p) - Start(n))
        BY <2>3, <3>1, <4>2
      <4>4. at > 1
        BY <1>1, <1>4, <4>1, <4>3
      <4>5. n \in N
        BY <1>1, <2>4, <3>1, <4>4
      <4> QED
        BY <1>6, <2>1, <2>2, <3>1, <4>3, <4>5
    <3>2. CASE j # n
      <4>1. j \in N
        BY <1>1, <2>3, <2>4, <3>2
      <4> QED
        BY <1>5, <2>2, <3>2, <4>1
    <3> QED
      BY <3>1, <3>2
  <2>6. j \in Inner'
    BY <1>1, <2>4, <2>5
  <2> QED
    BY <2>1, <2>5, <2>6 DEF PrefixMap
<1> QED
  BY <1>7, <1>8 DEF IndexShrinks

\* A function on a smaller domain.
LEMMA RestrictIs ==
    ASSUME NEW f, NEW S
    PROVE  /\ DOMAIN Restrict(f, S) = S
           /\ \A x \in S : Restrict(f, S)[x] = f[x]
           /\ Restrict(f, S) = [x \in DOMAIN Restrict(f, S) |-> f[x]]
  BY DEF Restrict

\* What is held at or under n.
LEMMA HeldIs ==
    ASSUME TreeInv, NEW b \in DOMAIN locations, NEW M, M \subseteq Nodes
    PROVE  b \in Held(M) <=> locations[b].node \in M
<1>1. TreeTyped /\ LinkInv
  BY DEF TreeInv
<1>2. PICK n : n = locations[b].node /\ n \in Inner /\ n \in Nodes
  BY <1>1 DEF TreeTyped, Inner
<1>3. ids[n] \in Seq(Ids)
  BY <1>1, <1>2, Lengths
<1>4. b \in Range(ids[n])
  BY <1>2, <1>3, RangeIs DEF TreeInv, LocationInv
<1>5. ASSUME NEW m \in M, b \in Range(ids[m]) PROVE m = n
  <2>1. m \in Nodes /\ ids[m] \in Seq(Ids)
    BY <1>1, Lengths
  <2>2. PICK i \in 1..Len(ids[m]) : ids[m][i] = b
    BY <1>5, <2>1, RangeIs
  <2>3. m # Root
    BY <1>1, <2>2 DEF LinkInv, Rooted
  <2>4. m \in Inner
    BY <2>1, <2>3 DEF Inner
  <2> QED
    BY <1>2, <2>2, <2>4 DEF TreeInv, LocationInv
<1> QED
  BY <1>2, <1>4, <1>5 DEF Held

\* A removal at the first page of a node leaves everything that is not under it.
LEMMA UnlinkIs ==
    ASSUME TreeInv, NEW n \in Inner, Unlink(n)
    PROVE  PruneDone(n, 1, {j \in Nodes : ~Under(n, j)})
<1>1. TreeTyped /\ LinkInv /\ n \in Nodes /\ parent[n] \in Nodes
  BY PathLengths DEF TreeInv
<1>2. PICK q, x, N : q = parent[n] /\ x = edge[n][1] /\ N = {j \in Nodes : ~Under(n, j)}
  OBVIOUS
<1>3. Subtree(n) \subseteq Nodes /\ Nodes \ Subtree(n) = N
      /\ \A j \in Nodes : j \in Subtree(n) <=> Under(n, j)
  BY <1>1, <1>2, SubtreeIs
<1> DEFINE others == {k \in DOMAIN children[q] : k # x}
           table == DOMAIN locations \ Held(Subtree(n))
           trimmed == [children EXCEPT ![q] = Restrict(@, others)]
<1>4. /\ edge' = Restrict(edge, N) /\ ids' = Restrict(ids, N) /\ path' = Restrict(path, N)
      /\ parent' = Restrict(parent, N)
      /\ children' = Restrict(trimmed, N)
      /\ older' = [m \in N \ {Root} |-> older[m] \cap N]
      /\ locations' = Restrict(locations, table)
  BY <1>2, <1>3 DEF Unlink, Keep
<1>5. /\ DOMAIN edge = Nodes /\ DOMAIN ids = Nodes /\ DOMAIN parent = Nodes
      /\ DOMAIN path = Nodes /\ DOMAIN children = Nodes /\ N \subseteq Nodes
      /\ Nodes \cap N = N
  BY <1>1, <1>2 DEF TreeTyped
<1>6. \A b : b \in table <=> b \in DOMAIN locations /\ ~Gone(n, 1, b)
  <2>1. ASSUME NEW b \in DOMAIN locations
        PROVE  b \in Held(Subtree(n)) <=> Gone(n, 1, b)
    <3>1. locations[b].node \in Nodes /\ locations[b].at \in Nat /\ locations[b].at > 0
      BY <1>1, SMTT(30) DEF TreeTyped, Inner, TreeInv, LocationInv
    <3>2. b \in Held(Subtree(n)) <=> locations[b].node \in Subtree(n)
      BY <1>3, HeldIs
    <3> QED
      BY <1>3, <3>1, <3>2 DEF Gone
  <2> QED
    BY <2>1
<1>7. DOMAIN locations' = table /\ locations' = [b \in DOMAIN locations' |-> locations[b]]
  <2> HIDE DEF table
  <2>1. DOMAIN locations' = table
    BY <1>4, RestrictIs
  <2>2. locations' = [b \in DOMAIN locations' |-> locations[b]]
    BY <1>4, RestrictIs
  <2> QED
    BY <1>6, <2>1, <2>2
<1>8. /\ DOMAIN trimmed = Nodes
      /\ trimmed[q] = Restrict(children[q], others)
      /\ \A j \in Nodes : j # q => trimmed[j] = children[j]
  BY <1>1, <1>2, <1>5
<1> HIDE DEF table, trimmed
<1>9. /\ DOMAIN edge' = N /\ DOMAIN ids' = N /\ DOMAIN parent' = N /\ DOMAIN path' = N
      /\ DOMAIN children' = N
      /\ edge' = [m \in N |-> edge[m]] /\ ids' = [m \in N |-> ids[m]]
      /\ parent' = [m \in N |-> parent[m]] /\ path' = [m \in N |-> path[m]]
      /\ \A j \in N : /\ edge'[j] = edge[j] /\ ids'[j] = ids[j] /\ parent'[j] = parent[j]
                      /\ path'[j] = path[j] /\ children'[j] = trimmed[j]
  BY <1>4, <1>5, <1>8 DEF Restrict
<1>10. Tables(N)
  <2>1. Nodes' = N /\ Inner' = N \ {Root}
    BY <1>9 DEF Nodes, Inner
  <2> QED
    BY <1>9, <2>1 DEF Tables
<1>11. x \in DOMAIN children[q] /\ children[q][x] = n
  BY <1>1, <1>2 DEF LinkInv, LinkedUp
<1>12. n \notin N
  BY <1>1, <1>2, UnderSelf
<1>13. ASSUME NEW j \in N, NEW k \in DOMAIN children[j], ~(j = q /\ k = x)
       PROVE  children[j][k] \in N
  <2>1. PICK c : c = children[j][k]
    OBVIOUS
  <2>2. c \in Inner /\ c \in Nodes /\ parent[c] = j /\ edge[c][1] = k
    BY <1>1, <1>5, <2>1 DEF TreeTyped, LinkInv, LinkedDown, Inner
  <2>3. c # n
    BY <1>2, <1>13, <2>2
  <2>4. ~Under(n, c)
    <3> SUFFICES ASSUME Under(n, c) PROVE FALSE
      OBVIOUS
    <3>1. Under(n, parent[c])
      BY <1>1, <2>2, <2>3, UnderParent
    <3> QED
      BY <1>2, <2>2, <3>1
  <2> QED
    BY <1>2, <2>1, <2>2, <2>4
<1>14. ASSUME NEW j \in N
       PROVE  /\ children'[j] = [k \in DOMAIN children'[j] |-> children[j][k]]
              /\ DOMAIN children'[j] \subseteq DOMAIN children[j]
              /\ \A k \in DOMAIN children'[j] : children[j][k] \in N
              /\ \A k \in DOMAIN children[j] :
                    children[j][k] \in N => k \in DOMAIN children'[j]
  <2>1. CASE j = q
    <3>1. children'[j] = Restrict(children[j], others)
      BY <1>8, <1>9, <2>1
    <3>2. DOMAIN children'[j] = {k \in DOMAIN children[j] : k # x}
          /\ children'[j] = [k \in DOMAIN children'[j] |-> children[j][k]]
      <4>1. others = {k \in DOMAIN children[j] : k # x}
        BY <2>1
      <4> HIDE DEF others
      <4>2. DOMAIN children'[j] = others
            /\ children'[j] = [k \in DOMAIN children'[j] |-> children[j][k]]
        BY <3>1, RestrictIs
      <4> QED
        BY <4>1, <4>2
    <3> QED
      BY <1>11, <1>12, <1>13, <2>1, <3>2
  <2>2. CASE j # q
    <3>1. children'[j] = children[j]
      BY <1>5, <1>8, <1>9, <2>2
    <3>2. children[j] = [k \in DOMAIN children[j] |-> children[j][k]]
      BY <1>1, <1>5 DEF TreeTyped
    <3> QED
      BY <1>13, <2>2, <3>1, <3>2
  <2> QED
    BY <2>1, <2>2
<1>15. 1 \in Nat /\ 1 > 0 /\ 1 <= Size(n) /\ N = {j \in Nodes : ~Under(n, j) \/ (1 > 1 /\ j = n)}
  <2>1. Size(n) \in Nat /\ Size(n) > 0
    BY <1>1, PathLengths
  <2> QED
    BY <1>2, <2>1
<1>16. PruneDone(n, 1, N)
  BY <1>4, <1>6, <1>7, <1>9, <1>10, <1>12, <1>14, <1>15 DEF PruneDone
<1> QED
  BY <1>2, <1>16

\* A removal inside an edge leaves the pages before the block, and nothing below.
LEMMA TrimIs ==
    ASSUME TreeInv, NEW n \in Inner, NEW at, at \in 1..Len(ids[n]), at # 1, Trim(n, at)
    PROVE  PruneDone(n, at, {j \in Nodes : ~Under(n, j) \/ (at > 1 /\ j = n)})
<1>1. /\ TreeTyped /\ LinkInv /\ n \in Nodes /\ Size(n) \in Nat /\ Len(ids[n]) = Size(n)
      /\ ids[n] \in Seq(Ids)
  BY PathLengths, Lengths DEF TreeInv, LinkInv, LinkedUp
<1>2. at \in Nat /\ at > 1 /\ at <= Size(n) /\ at > 0
  BY <1>1
<1>3. PICK N : N = {j \in Nodes : ~Under(n, j) \/ j = n}
  OBVIOUS
<1>4. Nodes \ (Subtree(n) \ {n}) = N /\ n \in N
      /\ \A j \in Nodes : j \in Subtree(n) <=> Under(n, j)
  BY <1>1, <1>3, SubtreeIs
<1> DEFINE below == Subtree(n) \ {n}
           gone == Held(below) \cup Range(From(ids[n], at))
           table == DOMAIN locations \ gone
           cutEdge == SubSeq(edge[n], 1, at - 1)
           cutIds == SubSeq(ids[n], 1, at - 1)
           cutPath == SubSeq(path[n], 1, Start(n) + at - 1)
<1>5. /\ edge' = Restrict([edge EXCEPT ![n] = cutEdge], N)
      /\ ids' = Restrict([ids EXCEPT ![n] = cutIds], N)
      /\ path' = Restrict([path EXCEPT ![n] = cutPath], N)
      /\ children' = Restrict([children EXCEPT ![n] = NoChildren], N)
      /\ parent' = Restrict(parent, N)
      /\ older' = [m \in N \ {Root} |-> older[m] \cap N]
      /\ locations' = Restrict(locations, table)
  BY <1>4 DEF Trim, Keep
<1>6. /\ DOMAIN edge = Nodes /\ DOMAIN ids = Nodes /\ DOMAIN parent = Nodes
      /\ DOMAIN path = Nodes /\ DOMAIN children = Nodes /\ N \subseteq Nodes
      /\ Nodes \cap N = N
  BY <1>1, <1>3 DEF TreeTyped
<1>7. below \subseteq Nodes
  BY <1>1, SubtreeIs
<1>8. ASSUME NEW b \in DOMAIN locations PROVE b \in gone <=> Gone(n, at, b)
  <2>1. PICK m, i : m = locations[b].node /\ i = locations[b].at
    OBVIOUS
  <2>2. m \in Nodes /\ i \in 1..Len(ids[m]) /\ ids[m][i] = b
    BY <1>1, <2>1 DEF TreeTyped, Inner, TreeInv, LocationInv
  <2>3. b \in Held(below) <=> m \in below
    BY <1>7, <2>1, HeldIs
  <2>4. b \in Range(From(ids[n], at)) <=> m = n /\ at <= i
    <3>1. PICK a, l, s : a = at - 1 /\ l = Size(n) - a /\ s = From(ids[n], a + 1)
      OBVIOUS
    <3>2. a \in 0..Len(ids[n]) /\ a + 1 = at /\ a \in Nat /\ l \in Nat /\ Size(n) = a + l
      BY <1>1, <1>2, <3>1
    <3>3. /\ s \in Seq(Ids) /\ Len(s) = Len(ids[n]) - a
          /\ \A j \in 1..(Len(ids[n]) - a) : s[j] = ids[n][a + j]
      BY <1>1, <3>1, <3>2, LastPart, ZenonT(40)
    <3>4. Len(s) = l /\ \A j \in 1..l : s[j] = ids[n][a + j]
      BY <1>1, <3>1, <3>3
    <3>5. ASSUME b \in Range(s) PROVE m = n /\ at <= i
      <4>1. PICK j \in 1..l : s[j] = b
        BY <3>3, <3>4, <3>5, RangeIs
      <4>2. PICK u : u = a + j
        OBVIOUS
      <4>3. u \in 1..Len(ids[n]) /\ ids[n][u] = b /\ at <= u
        BY <1>1, <3>2, <3>4, <4>1, <4>2
      <4>4. m = n /\ i = u
        BY <2>1, <4>3 DEF TreeInv, LocationInv
      <4> QED
        BY <4>3, <4>4
    <3>6. ASSUME m = n, at <= i PROVE b \in Range(s)
      <4>1. PICK j : j = i - a
        OBVIOUS
      <4>2. j \in 1..l /\ a + j = i
        BY <1>1, <2>2, <3>2, <3>6, <4>1
      <4>3. s[j] = b
        BY <2>2, <3>4, <3>6, <4>2
      <4> QED
        BY <3>3, <3>4, <4>2, <4>3, RangeIs
    <3> QED
      BY <3>1, <3>2, <3>5, <3>6
  <2>5. Under(n, n)
    BY <1>1, UnderSelf
  <2>6. m \in below <=> Under(n, m) /\ m # n
    BY <1>4, <2>2
  <2> QED
    BY <2>1, <2>3, <2>4, <2>5, <2>6 DEF Gone
<1>9. DOMAIN locations' = table /\ locations' = [b \in DOMAIN locations' |-> locations[b]]
      /\ \A b : b \in table <=> b \in DOMAIN locations /\ ~Gone(n, at, b)
  <2>1. \A b : b \in table <=> b \in DOMAIN locations /\ ~Gone(n, at, b)
    <3> HIDE DEF gone
    <3> QED
      BY <1>8
  <2> HIDE DEF table
  <2>2. DOMAIN locations' = table
    BY <1>5, RestrictIs
  <2>3. locations' = [b \in DOMAIN locations' |-> locations[b]]
    BY <1>5, RestrictIs
  <2> QED
    BY <2>1, <2>2, <2>3
<1> HIDE DEF table, gone, below, cutEdge, cutIds, cutPath
<1>10. /\ DOMAIN edge' = N /\ DOMAIN ids' = N /\ DOMAIN parent' = N /\ DOMAIN path' = N
       /\ DOMAIN children' = N
  BY <1>5, <1>6 DEF Restrict
<1>11. Tables(N)
  <2>1. Nodes' = N /\ Inner' = N \ {Root}
    BY <1>10 DEF Nodes, Inner
  <2>2. /\ edge' = [m \in N |-> edge'[m]] /\ ids' = [m \in N |-> ids'[m]]
        /\ parent' = [m \in N |-> parent'[m]] /\ path' = [m \in N |-> path'[m]]
    BY <1>5, <1>6 DEF Restrict
  <2> QED
    BY <1>10, <2>1, <2>2 DEF Tables
<1>12. /\ \A j \in N : parent'[j] = parent[j]
       /\ \A j \in N \ {n} : edge'[j] = edge[j] /\ ids'[j] = ids[j] /\ path'[j] = path[j]
                             /\ children'[j] = children[j]
  BY <1>1, <1>5, <1>6 DEF Restrict
<1>13. edge'[n] = cutEdge /\ ids'[n] = cutIds /\ path'[n] = cutPath /\ children'[n] = NoChildren
  BY <1>1, <1>4, <1>5, <1>6 DEF Restrict
<1>14. ASSUME NEW j \in Nodes, NEW k \in DOMAIN children[j], children[j][k] \in N PROVE j # n
  <2>1. PICK c : c = children[j][k]
    OBVIOUS
  <2>2. c \in Inner /\ c \in Nodes /\ parent[c] = j
    BY <1>1, <2>1 DEF TreeTyped, LinkInv, LinkedDown, Inner
  <2>3. ASSUME j = n PROVE Under(n, c) /\ c # n
    <3>1. Under(n, n)
      BY <1>1, UnderSelf
    <3>2. Under(n, c)
      BY <1>1, <2>2, <2>3, <3>1, UnderChild
    <3>3. Depth(c) = Start(c) + Size(c) /\ Size(c) > 0 /\ Start(c) = Depth(n)
          /\ Start(c) \in Nat /\ Size(c) \in Nat
      BY <1>1, <2>2, <2>3, PathLengths
    <3> QED
      BY <3>2, <3>3
  <2> QED
    BY <1>3, <1>14, <2>1, <2>3
<1>15. ASSUME NEW j \in N, j # n, NEW k \in DOMAIN children[j] PROVE children[j][k] \in N
  <2>1. PICK c : c = children[j][k]
    OBVIOUS
  <2>2. j \in Nodes /\ c \in Inner /\ c \in Nodes /\ parent[c] = j
    BY <1>1, <1>6, <2>1 DEF TreeTyped, LinkInv, LinkedDown, Inner
  <2>3. Under(n, c) => c = n
    BY <1>1, <1>3, <1>15, <2>2, UnderParent
  <2> QED
    BY <1>3, <2>1, <2>2, <2>3
<1>16. ASSUME NEW j \in N
       PROVE  /\ children'[j] = [k \in DOMAIN children'[j] |-> children[j][k]]
              /\ DOMAIN children'[j] \subseteq DOMAIN children[j]
              /\ \A k \in DOMAIN children'[j] : children[j][k] \in N
              /\ \A k \in DOMAIN children[j] :
                    children[j][k] \in N => k \in DOMAIN children'[j]
  <2>1. CASE j = n
    <3>1. children'[j] = NoChildren /\ DOMAIN children'[j] = {}
      BY <1>13, <2>1 DEF NoChildren
    <3>2. children'[j] = [k \in DOMAIN children'[j] |-> children[j][k]]
      BY <3>1 DEF NoChildren
    <3> QED
      BY <1>6, <1>14, <2>1, <3>1, <3>2
  <2>2. CASE j # n
    <3>1. children'[j] = children[j]
      BY <1>12, <2>2
    <3>2. children[j] = [k \in DOMAIN children[j] |-> children[j][k]]
      BY <1>1, <1>6 DEF TreeTyped
    <3> QED
      BY <1>15, <2>2, <3>1, <3>2
  <2> QED
    BY <2>1, <2>2
<1>17. N = {j \in Nodes : ~Under(n, j) \/ (at > 1 /\ j = n)}
  BY <1>2, <1>3
<1>18. PruneDone(n, at, N)
  BY <1>2, <1>5, <1>9, <1>11, <1>12, <1>13, <1>16, <1>17 DEF PruneDone, cutEdge, cutIds, cutPath
<1> QED
  BY <1>17, <1>18

\* A removal takes the index entries beyond the block's page, and no other.
LEMMA RemoveBlockStep ==
    ASSUME IndInv, NEW b \in Ids, RemoveBlock(b)
    PROVE  IndInv' /\ IndexShrinks(b)
<1>1. /\ TreeInv /\ TypeOK /\ CallInv /\ TreeTyped /\ LinkInv /\ b \in DOMAIN locations
      /\ op = "idle"
  BY DEF IndInv, TypeOK, TreeInv, RemoveBlock
<1>2. PICK n, at : n = locations[b].node /\ at = locations[b].at
  OBVIOUS
<1>3. IF at = 1 THEN Unlink(n) ELSE Trim(n, at)
  BY <1>2 DEF RemoveBlock
<1>4. CompressFrom(parent[n])
  BY <1>2 DEF RemoveBlock
<1>5. n \in Inner /\ at \in 1..Len(ids[n])
  BY <1>1, <1>2 DEF TreeInv, LocationInv, TreeTyped
<1>6. PICK N : PruneDone(n, at, N)
  <2>1. CASE at = 1
    BY <1>1, <1>3, <1>5, <2>1, UnlinkIs
  <2>2. CASE at # 1
    BY <1>1, <1>3, <1>5, <2>2, TrimIs
  <2> QED
    BY <2>1, <2>2
<1>7. TreeTyped' /\ OrderInv' /\ LinkInv' /\ LocationInv'
  BY <1>1, <1>6, PruneTyped, PruneLinked, PruneLocated
<1>8. PrefixMap'
  BY <1>7, PrefixMapIsNext
<1>9. IndexShrinks(b)
  BY <1>1, <1>2, <1>6, <1>8, PruneIndexed
<1>10. PICK q : q = parent[n]
  OBVIOUS
<1>11. CASE q = Root
  BY <1>4, <1>7, <1>9, <1>10, <1>11, Returns DEF CompressFrom, IndInv, TypeOK
<1>12. CASE q # Root
  <2>1. op' = "compress" /\ node' = q /\ UNCHANGED <<keys, blocks, position, matched>>
    BY <1>4, <1>10, <1>12 DEF CompressFrom
  <2>2. q \in Nodes' /\ q \in Inner'
    <3>1. n \in Nodes /\ parent[n] \in Nodes /\ Nodes' = N /\ Inner' = N \ {Root}
      BY <1>1, <1>5, <1>6, PathLengths DEF PruneDone, Tables
    <3>2. ~Under(n, q)
      <4> SUFFICES ASSUME Under(n, q) PROVE FALSE
        OBVIOUS
      <4>1. /\ Depth(n) \in Nat /\ Start(n) \in Nat /\ Size(n) > 0 /\ Size(n) \in Nat
            /\ Start(n) = Depth(q) /\ Depth(n) = Start(n) + Size(n)
        BY <1>1, <1>5, <1>10, PathLengths
      <4> QED
        BY <4>1 DEF Under
    <3> QED
      BY <1>6, <1>10, <1>12, <3>1, <3>2 DEF PruneDone
  <2>3. CallTyped' /\ CallInv'
    BY <1>1, <2>1, <2>2 DEF TypeOK, CallTyped, CallInv
  <2> QED
    BY <1>7, <1>9, <2>3 DEF IndInv, TypeOK
<1> QED
  BY <1>11, <1>12

---------------------------------------------------------------------------
(* A merged pair *)

\* What CompressMerge does to each node: q takes over the edge, the blocks and the
\* children of its only child c.
MergeDone(q, c, N) ==
    /\ q \in Inner /\ c \in Inner /\ c # q /\ N = Nodes \ {c}
    /\ Tables(N)
    /\ edge'[q] = edge[q] \o edge[c] /\ ids'[q] = ids[q] \o ids[c] /\ path'[q] = path[c]
    /\ children'[q] = children[c]
    /\ \A j \in N : j # q => /\ edge'[j] = edge[j] /\ ids'[j] = ids[j] /\ path'[j] = path[j]
                             /\ children'[j] = children[j]
    /\ \A j \in N : parent'[j] = IF parent[j] = c /\ j # Root THEN q ELSE parent[j]
    /\ locations' = IndexNode(locations, q, ids[c], Len(ids[q]))
    /\ older' = Touched(N, q)

\* CompressMerge takes the only child out of the tree.
LEMMA MergeIs ==
    ASSUME IndInv, CompressMerge
    PROVE  \E q, c, k : /\ q = node /\ DOMAIN children[q] = {k} /\ c = children[q][k]
                        /\ parent[c] = q /\ MergeDone(q, c, Nodes \ {c})
<1>1. TreeInv /\ TreeTyped /\ LinkInv /\ op = "compress" /\ node \in Inner
  BY DEF IndInv, TypeOK, TreeInv, CompressMerge, CallInv
<1>2. PICK k \in DOMAIN children[node] :
          LET c == children[node][k]
              kept == Nodes \ {c}
          IN  /\ DOMAIN children[node] = {k}
              /\ edge' = Restrict([edge EXCEPT ![node] = @ \o edge[c]], kept)
              /\ ids' = Restrict([ids EXCEPT ![node] = @ \o ids[c]], kept)
              /\ parent' = [m \in kept |->
                              IF m \in Range(children[c]) THEN node ELSE parent[m]]
              /\ children' = Restrict([children EXCEPT ![node] = children[c]], kept)
              /\ older' = Touched(kept, node)
              /\ locations' = IndexNode(locations, node, ids[c], Len(ids[node]))
              /\ path' = Restrict([path EXCEPT ![node] = path[c]], kept)
  BY DEF CompressMerge
<1>3. PICK q, c, N : q = node /\ c = children[node][k] /\ N = Nodes \ {c}
  OBVIOUS
<1>4. /\ edge' = Restrict([edge EXCEPT ![q] = @ \o edge[c]], N)
      /\ ids' = Restrict([ids EXCEPT ![q] = @ \o ids[c]], N)
      /\ parent' = [m \in N |-> IF m \in Range(children[c]) THEN q ELSE parent[m]]
      /\ children' = Restrict([children EXCEPT ![q] = children[c]], N)
      /\ older' = Touched(N, q)
      /\ locations' = IndexNode(locations, q, ids[c], Len(ids[q]))
      /\ path' = Restrict([path EXCEPT ![q] = path[c]], N)
      /\ DOMAIN children[q] = {k} /\ k \in DOMAIN children[q] /\ c = children[q][k]
  BY <1>2, <1>3
<1>5. /\ q \in Inner /\ q \in Nodes /\ c \in Inner /\ c \in Nodes /\ parent[c] = q
  BY <1>1, <1>3, <1>4 DEF TreeTyped, LinkInv, LinkedDown, Inner
<1>6. c # q
  <2>1. Depth(c) = Start(c) + Size(c) /\ Start(c) = Depth(q)
        /\ Size(c) > 0 /\ Size(c) \in Nat /\ Start(c) \in Nat
    BY <1>1, <1>5, PathLengths
  <2> QED
    BY <2>1
<1>7. /\ DOMAIN edge = Nodes /\ DOMAIN ids = Nodes /\ DOMAIN parent = Nodes
      /\ DOMAIN path = Nodes /\ DOMAIN children = Nodes /\ N \subseteq Nodes /\ q \in N
  BY <1>1, <1>3, <1>5, <1>6 DEF TreeTyped
<1>8. /\ DOMAIN edge' = N /\ DOMAIN ids' = N /\ DOMAIN parent' = N /\ DOMAIN path' = N
      /\ DOMAIN children' = N
  BY <1>4 DEF Restrict
<1>9. Tables(N)
  <2>1. Nodes' = N /\ Inner' = N \ {Root}
    BY <1>8 DEF Nodes, Inner
  <2>2. /\ edge' = [m \in N |-> edge'[m]] /\ ids' = [m \in N |-> ids'[m]]
        /\ parent' = [m \in N |-> parent'[m]] /\ path' = [m \in N |-> path'[m]]
    BY <1>4 DEF Restrict
  <2> QED
    BY <1>8, <2>1, <2>2 DEF Tables
<1>10. /\ edge'[q] = edge[q] \o edge[c] /\ ids'[q] = ids[q] \o ids[c] /\ path'[q] = path[c]
       /\ children'[q] = children[c]
  BY <1>4, <1>7 DEF Restrict
<1>11. \A j \in N : j # q => /\ edge'[j] = edge[j] /\ ids'[j] = ids[j] /\ path'[j] = path[j]
                             /\ children'[j] = children[j]
  BY <1>4, <1>7 DEF Restrict
<1>12. ASSUME NEW j \in N PROVE parent'[j] = IF parent[j] = c /\ j # Root THEN q ELSE parent[j]
  <2>1. j \in Range(children[c]) <=> parent[j] = c /\ j # Root
    <3>1. ASSUME j \in Range(children[c]) PROVE parent[j] = c /\ j # Root
      <4>1. PICK x \in DOMAIN children[c] : j = children[c][x]
        BY <3>1 DEF Range
      <4> QED
        BY <1>1, <1>5, <4>1 DEF TreeTyped, LinkInv, LinkedDown, Inner
    <3>2. ASSUME parent[j] = c, j # Root PROVE j \in Range(children[c])
      <4>1. j \in Inner
        BY <1>7, <3>2 DEF Inner
      <4> QED
        BY <1>1, <3>2, <4>1 DEF LinkInv, LinkedUp, Range
    <3> QED
      BY <3>1, <3>2
  <2> QED
    BY <1>4, <2>1
<1>13. MergeDone(q, c, N)
  BY <1>3, <1>4, <1>5, <1>6, <1>9, <1>10, <1>11, <1>12 DEF MergeDone
<1> QED
  BY <1>3, <1>4, <1>5, <1>13

\* A sequence of m members followed by one of l.
Joined(u, s, t, m, l) ==
    /\ Len(u) = m + l
    /\ \A i \in 1..m : u[i] = s[i]
    /\ \A i \in 1..l : u[m + i] = t[i]

\* Concatenation, by position.
LEMMA JoinedIs ==
    ASSUME NEW S, NEW s \in Seq(S), NEW t \in Seq(S), NEW m, NEW l, m = Len(s), l = Len(t),
           NEW u, u = s \o t
    PROVE  u \in Seq(S) /\ Joined(u, s, t, m, l)
<1>1. m \in Nat /\ l \in Nat
  BY LenProperties
<1>2. u \in Seq(S) /\ Len(u) = m + l
      /\ \A i \in 1..(m + l) : u[i] = IF i <= m THEN s[i] ELSE t[i - m]
  BY ConcatProperties
<1>3. ASSUME NEW i \in 1..m PROVE u[i] = s[i]
  <2>1. i \in 1..(m + l) /\ i <= m
    BY <1>1
  <2> QED
    BY <1>2, <2>1
<1>4. ASSUME NEW i \in 1..l PROVE u[m + i] = t[i]
  <2>1. PICK x : x = m + i
    OBVIOUS
  <2>2. x \in 1..(m + l) /\ ~(x <= m) /\ x - m = i
    BY <1>1, <2>1
  <2> QED
    BY <1>2, <2>1, <2>2
<1> QED
  BY <1>2, <1>3, <1>4 DEF Joined

\* The situation of CompressMerge: l pages of c follow m pages of q.
MergeSetting(q, c, N, z, m, l) ==
    /\ TreeInv /\ TreeTyped /\ LinkInv /\ MergeDone(q, c, N)
    /\ q \in Nodes /\ c \in Nodes /\ parent[c] = q /\ parent[q] # c /\ parent[q] # q
    /\ \A j \in Inner : parent[j] = q => j = c
    /\ Root \in N /\ q \in N /\ N \subseteq Nodes /\ N \ {Root} \subseteq Inner
    /\ z \in Nat /\ m \in Nat /\ m > 0 /\ l \in Nat /\ l > 0
    /\ Start(q) = z /\ Size(q) = m /\ Depth(q) = z + m
    /\ Start(c) = z + m /\ Size(c) = l /\ Depth(c) = (z + m) + l
    /\ Len(ids[q]) = m /\ Len(ids[c]) = l
    /\ edge'[q] \in Seq(Keys) /\ Joined(edge'[q], edge[q], edge[c], m, l)
    /\ ids'[q] \in Seq(Ids) /\ Joined(ids'[q], ids[q], ids[c], m, l)

\* CompressMerge happens in the situation above.
LEMMA MergeSettingIs ==
    ASSUME IndInv, CompressMerge
    PROVE  \E q, c, N, z, m, l : MergeSetting(q, c, N, z, m, l) /\ q = node
<1>1. TreeInv /\ TreeTyped /\ LinkInv
  BY DEF IndInv, TypeOK, TreeInv
<1>2. PICK q, c, k : /\ q = node /\ DOMAIN children[q] = {k} /\ c = children[q][k]
                     /\ parent[c] = q /\ MergeDone(q, c, Nodes \ {c})
  BY MergeIs
<1>3. PICK N, z, m, l : N = Nodes \ {c} /\ z = Start(q) /\ m = Size(q) /\ l = Size(c)
  OBVIOUS
<1>4. /\ MergeDone(q, c, N) /\ q \in Inner /\ c \in Inner /\ c # q
      /\ edge'[q] = edge[q] \o edge[c] /\ ids'[q] = ids[q] \o ids[c]
  BY <1>2, <1>3 DEF MergeDone
<1>5. /\ q \in Nodes /\ c \in Nodes /\ z \in Nat /\ m \in Nat /\ m > 0 /\ l \in Nat /\ l > 0
      /\ Depth(q) = z + m /\ Start(c) = z + m /\ Depth(c) = (z + m) + l
      /\ Depth(parent[q]) = z
  BY <1>1, <1>2, <1>3, <1>4, PathLengths
<1>6. parent[q] # c /\ parent[q] # q
  BY <1>5
<1>7. /\ edge[q] \in Seq(Keys) /\ edge[c] \in Seq(Keys) /\ ids[q] \in Seq(Ids)
      /\ ids[c] \in Seq(Ids)
      /\ Len(edge[q]) = m /\ Len(edge[c]) = l /\ Len(ids[q]) = m /\ Len(ids[c]) = l
  BY <1>1, <1>3, <1>4, <1>5, Lengths DEF LinkInv, LinkedUp, Size
<1>8. edge'[q] \in Seq(Keys) /\ Joined(edge'[q], edge[q], edge[c], m, l)
  BY <1>4, <1>7, JoinedIs
<1>9. ids'[q] \in Seq(Ids) /\ Joined(ids'[q], ids[q], ids[c], m, l)
  BY <1>4, <1>7, JoinedIs
<1>10. ASSUME NEW j \in Inner, parent[j] = q PROVE j = c
  BY <1>1, <1>2, <1>10 DEF LinkInv, LinkedUp
<1>11. Root \in N /\ q \in N /\ N \subseteq Nodes /\ N \ {Root} \subseteq Inner
  BY <1>1, <1>3, <1>4, <1>5 DEF TreeTyped, Inner
<1>12. Start(q) = z /\ Size(q) = m /\ Size(c) = l
  BY <1>3
<1>13. MergeSetting(q, c, N, z, m, l)
  BY <1>1, <1>2, <1>4, <1>5, <1>6, <1>7, <1>8, <1>9, <1>10, <1>11, <1>12 DEF MergeSetting
<1> QED
  BY <1>2, <1>13

\* The blocks of c are those block_locations has there, each once.
LEMMA MergeDistinct ==
    ASSUME NEW q, NEW c, NEW N, NEW z, NEW m, NEW l, MergeSetting(q, c, N, z, m, l)
    PROVE  /\ ids[c] \in Seq(Ids) /\ Distinct(ids[c])
           /\ \A b \in DOMAIN locations : locations[b].node = c => b \in Range(ids[c])
           /\ \A b \in Range(ids[c]) : b \in DOMAIN locations /\ locations[b].node = c
           /\ \A b : b \in DOMAIN locations' <=> b \in DOMAIN locations
           /\ \A i \in 1..l : locations'[ids[c][i]].node = q /\ locations'[ids[c][i]].at = m + i
           /\ \A b \in DOMAIN locations : b \notin Range(ids[c]) => locations'[b] = locations[b]
<1>1. /\ TreeInv /\ TreeTyped /\ c \in Nodes /\ Len(ids[c]) = l /\ Len(ids[q]) = m /\ m \in Nat
      /\ MergeDone(q, c, N)
  BY DEF MergeSetting
<1>2. c \in Inner /\ locations' = IndexNode(locations, q, ids[c], Len(ids[q]))
  BY <1>1 DEF MergeDone
<1>3. ids[c] \in Seq(Ids)
  BY <1>1, Lengths
<1>4. Distinct(ids[c])
  BY <1>1, <1>2, BlocksDiffer DEF Distinct
<1>5. \A b \in DOMAIN locations : locations[b].node = c => b \in Range(ids[c])
  BY <1>1, <1>2, <1>3, RangeIs DEF TreeInv, LocationInv
<1>6. \A b \in Range(ids[c]) : b \in DOMAIN locations /\ locations[b].node = c
  BY <1>1, <1>2, <1>3, RangeIs DEF TreeInv, LocationInv
<1>7. /\ \A b : b \in DOMAIN locations' <=> b \in DOMAIN locations \/ b \in Range(ids[c])
      /\ \A i \in 1..l : locations'[ids[c][i]].node = q /\ locations'[ids[c][i]].at = m + i
      /\ \A b \in DOMAIN locations : b \notin Range(ids[c]) => locations'[b] = locations[b]
  BY <1>1, <1>2, <1>3, <1>4, IndexNodeIs
<1> QED
  BY <1>3, <1>4, <1>5, <1>6, <1>7

\* The tables are typed after a merge, and the order of the nodes left is linear.
LEMMA MergeTyped ==
    ASSUME NEW q, NEW c, NEW N, NEW z, NEW m, NEW l, MergeSetting(q, c, N, z, m, l)
    PROVE  TreeTyped' /\ OrderInv'
<1>1. /\ TreeInv /\ TreeTyped /\ LinkInv /\ q \in Nodes /\ c \in Nodes /\ parent[c] = q
      /\ Root \in N /\ q \in N /\ N \subseteq Nodes /\ N \ {Root} \subseteq Inner
      /\ edge'[q] \in Seq(Keys) /\ ids'[q] \in Seq(Ids) /\ m \in Nat
  BY DEF MergeSetting
<1>2. /\ MergeDone(q, c, N) /\ q \in Inner /\ c \in Inner /\ c # q /\ N = Nodes \ {c} /\ Tables(N)
      /\ path'[q] = path[c] /\ children'[q] = children[c] /\ older' = Touched(N, q)
      /\ locations' = IndexNode(locations, q, ids[c], Len(ids[q]))
  BY DEF MergeSetting, MergeDone
<1>3. /\ \A j \in N : j # q => /\ edge'[j] = edge[j] /\ ids'[j] = ids[j] /\ path'[j] = path[j]
                               /\ children'[j] = children[j]
      /\ \A j \in N : parent'[j] = IF parent[j] = c /\ j # Root THEN q ELSE parent[j]
  BY <1>2 DEF MergeDone
<1>4. N \subseteq Nat /\ IsFiniteSet(N)
  <2>1. N \in SUBSET Nodes /\ IsFiniteSet(Nodes) /\ Nodes \subseteq Nat
    BY <1>1 DEF TreeTyped
  <2> QED
    BY <2>1, FS_Subset
<1>5. ASSUME NEW j \in N
      PROVE  /\ edge'[j] \in Seq(Keys) /\ ids'[j] \in Seq(Ids)
             /\ parent'[j] \in N /\ path'[j] \in Seq(Keys)
  <2>1. parent'[j] \in N
    <3>1. parent[j] \in Nodes
      BY <1>1, Lengths
    <3>2. CASE j = Root
      BY <1>1, <1>3, <3>2 DEF LinkInv, Rooted
    <3>3. CASE j # Root
      BY <1>1, <1>2, <1>3, <3>1, <3>3
    <3> QED
      BY <3>2, <3>3
  <2>2. CASE j = q
    BY <1>1, <1>2, <2>1, <2>2, Lengths
  <2>3. CASE j # q
    <3>1. j \in Nodes /\ edge'[j] = edge[j] /\ ids'[j] = ids[j] /\ path'[j] = path[j]
      BY <1>1, <1>3, <2>3
    <3> QED
      BY <1>1, <2>1, <3>1, Lengths
  <2> QED
    BY <2>2, <2>3
<1>6. ASSUME NEW j \in Nodes, j # q
      PROVE  DOMAIN children[j] \subseteq Keys /\ children[j] \in [DOMAIN children[j] -> N \ {Root}]
  <2>1. DOMAIN children[j] \subseteq Keys /\ children[j] \in [DOMAIN children[j] -> Inner]
    BY <1>1 DEF TreeTyped
  <2>2. \A k \in DOMAIN children[j] : children[j][k] # c
    BY <1>1, <1>6 DEF LinkInv, LinkedDown
  <2>3. \A k \in DOMAIN children[j] : children[j][k] \in N \ {Root}
    BY <1>2, <2>1, <2>2 DEF Inner
  <2> QED
    BY <2>1, <2>3
<1>7. ASSUME NEW j \in N
      PROVE  /\ DOMAIN children'[j] \subseteq Keys
             /\ children'[j] \in [DOMAIN children'[j] -> N \ {Root}]
  BY <1>1, <1>2, <1>3, <1>6
<1>8. Linear(older', N \ {Root})
  <2>1. Linear(older, Inner)
    BY <1>1, OrderIsLinear DEF TreeInv
  <2>2. q \in N \ {Root} /\ N \ {Root, q} \subseteq Inner
    BY <1>1, <1>2 DEF Inner
  <2> QED
    BY <1>2, <2>1, <2>2, TouchKeeps
<1>9. /\ DOMAIN locations' \subseteq Ids
      /\ locations' \in [DOMAIN locations' -> [node : N \ {Root}, at : Nat]]
  <2> DEFINE L == [node : N \ {Root}, at : Nat]
             M == [node : Inner, at : Nat]
  <2>1. locations \in [DOMAIN locations -> M] /\ DOMAIN locations \subseteq Ids
    BY <1>1 DEF TreeTyped
  <2>2. ids[c] \in Seq(Ids) /\ Distinct(ids[c])
    BY MergeDistinct
  <2>3. locations' \in [DOMAIN locations \cup Range(ids[c]) -> M]
    <3>1. Len(ids[q]) \in Nat
      BY <1>1 DEF MergeSetting
    <3> QED
      BY <1>2, <2>1, <2>2, <3>1, IndexNodeTyped
  <2>4. ASSUME NEW b \in DOMAIN locations' PROVE locations'[b] \in L
    <3>1. locations'[b] \in M
      BY <2>3, <2>4
    <3>2. b \in DOMAIN locations
      BY <2>4, MergeDistinct
    <3>3. locations'[b].node # c
      <4>1. CASE b \in Range(ids[c])
        <5>1. PICK i \in 1..Len(ids[c]) : ids[c][i] = b
          BY <2>2, <4>1, RangeIs
        <5>2. Len(ids[c]) = l
          BY DEF MergeSetting
        <5> QED
          BY <1>2, <5>1, <5>2, MergeDistinct
      <4>2. CASE b \notin Range(ids[c])
        BY <3>2, <4>2, MergeDistinct
      <4> QED
        BY <4>1, <4>2
    <3>4. locations'[b].node \in N \ {Root}
      BY <1>2, <3>1, <3>3 DEF Inner
    <3> QED
      BY <3>1, <3>4
  <2>5. DOMAIN locations' \subseteq Ids
    BY <2>1, MergeDistinct
  <2>6. locations' = [b \in DOMAIN locations' |-> locations'[b]]
    BY <2>3
  <2> HIDE DEF L
  <2>7. locations' \in [DOMAIN locations' -> L]
    BY <2>4, <2>6
  <2> QED
    BY <2>5, <2>7 DEF L
<1> QED
  BY <1>1, <1>2, <1>4, <1>5, <1>7, <1>8, <1>9, TypedAgain

\* The tree is linked after a merge: the grandchildren hang under the merged node.
LEMMA MergeLinked ==
    ASSUME NEW q, NEW c, NEW N, NEW z, NEW m, NEW l, MergeSetting(q, c, N, z, m, l)
    PROVE  LinkInv'
<1>1. /\ TreeInv /\ TreeTyped /\ LinkInv /\ q \in Nodes /\ c \in Nodes
      /\ parent[c] = q /\ parent[q] # c /\ parent[q] # q
      /\ Root \in N /\ q \in N /\ N \subseteq Nodes /\ N \ {Root} \subseteq Inner
      /\ z \in Nat /\ m \in Nat /\ m > 0 /\ l \in Nat /\ l > 0
      /\ Depth(c) = (z + m) + l /\ Start(q) = z /\ Start(c) = z + m
      /\ Size(q) = m /\ Size(c) = l
      /\ Joined(edge'[q], edge[q], edge[c], m, l) /\ Joined(ids'[q], ids[q], ids[c], m, l)
  BY DEF MergeSetting
<1>2. /\ q \in Inner /\ c \in Inner /\ c # q /\ N = Nodes \ {c} /\ Nodes' = N /\ Inner' = N \ {Root}
      /\ path'[q] = path[c] /\ children'[q] = children[c]
      /\ \A j \in N : j # q => /\ edge'[j] = edge[j] /\ ids'[j] = ids[j] /\ path'[j] = path[j]
                               /\ children'[j] = children[j]
      /\ \A j \in N : parent'[j] = IF parent[j] = c /\ j # Root THEN q ELSE parent[j]
  BY DEF MergeSetting, MergeDone, Tables
<1>3. \A j \in Inner : parent[j] = q => j = c
  BY DEF MergeSetting
<1>4. q # Root /\ c # Root /\ parent[Root] = Root
  BY <1>1, <1>2 DEF Inner, LinkInv, Rooted
<1>5. Rooted'
  BY <1>1, <1>2, <1>4 DEF LinkInv, Rooted
<1>6. edge'[q][1] = edge[q][1]
  <2>1. 1 \in 1..m
    BY <1>1
  <2> QED
    BY <1>1, <2>1 DEF Joined
<1>7. Depth(q)' = (z + m) + l /\ path'[q] = path[c]
  BY <1>1, <1>2 DEF Depth
<1>8. LinkedUp(q)'
  <2>1. PICK r : r = parent[q]
    OBVIOUS
  <2>2. /\ r \in Nodes /\ Depth(r) = z /\ Agree(path[q], path[r], z)
        /\ \A i \in 1..m : path[q][z + i] = edge[q][i]
    BY <1>1, <1>2, <2>1, PathLengths
  <2>3. Agree(path[c], path[q], z + m) /\ \A i \in 1..l : path[c][(z + m) + i] = edge[c][i]
    BY <1>1, <1>2, PathLengths
  <2>4. r \in N /\ r # q /\ r # c
    BY <1>1, <1>2, <2>1, <2>2
  <2>5. parent'[q] = r /\ path'[r] = path[r] /\ children'[r] = children[r]
    BY <1>1, <1>2, <2>1, <2>4
  <2>6. Depth(r)' = z
    BY <2>2, <2>5 DEF Depth
  <2>7. Agree(path'[q], path'[r], z)
    <3>1. Agree(path[c], path[q], z)
      BY <1>1, <2>3, AgreeLess
    <3> QED
      BY <1>7, <2>2, <2>5, <3>1, AgreeTransitive
  <2>8. ASSUME NEW i \in 1..(m + l) PROVE path'[q][z + i] = edge'[q][i]
    <3>1. CASE i <= m
      <4>1. PICK u : u = z + i
        OBVIOUS
      <4>2. i \in 1..m /\ u \in 1..(z + m)
        BY <1>1, <3>1, <4>1
      <4>3. path[c][u] = path[q][u]
        BY <2>3, <4>2 DEF Agree
      <4> QED
        BY <1>1, <1>7, <2>2, <4>1, <4>2, <4>3 DEF Joined
    <3>2. CASE m < i
      <4>1. PICK v : v = i - m
        OBVIOUS
      <4>2. v \in 1..l /\ m + v = i /\ (z + m) + v = z + i
        BY <1>1, <3>2, <4>1
      <4>3. edge'[q][m + v] = edge[c][v]
        BY <1>1, <4>2 DEF Joined
      <4>4. path[c][(z + m) + v] = edge[c][v]
        BY <2>3, <4>2
      <4> QED
        BY <1>7, <4>2, <4>3, <4>4
    <3> QED
      BY <1>1, <3>1, <3>2
  <2>9. Size(q)' = m + l /\ Len(ids'[q]) = m + l /\ m + l > 0 /\ z + (m + l) = (z + m) + l
    BY <1>1 DEF Joined, Size
  <2>10. edge'[q][1] \in DOMAIN children'[r] /\ children'[r][edge'[q][1]] = q
    BY <1>1, <1>2, <1>6, <2>1, <2>5 DEF LinkInv, LinkedUp
  <2>11. Continues(q, r, z, m + l)'
    BY <1>7, <2>5, <2>6, <2>7, <2>8, <2>9, <2>10 DEF Continues
  <2> QED
    BY <2>11, LinkedUpNext
<1>9. ASSUME NEW j \in N \ {Root}, parent[j] = c PROVE LinkedUp(j)'
  <2>1. PICK s, d : s = Depth(c) /\ d = Size(j)
    OBVIOUS
  <2>2. /\ j \in N /\ j \in Inner /\ j # q /\ s = (z + m) + l
    BY <1>1, <1>9, <2>1
  <2>3. /\ Start(j) = s /\ d > 0 /\ Depth(j) = s + d
        /\ Agree(path[j], path[c], s) /\ \A i \in 1..d : path[j][s + i] = edge[j][i]
    BY <1>1, <1>9, <2>1, <2>2, PathLengths
  <2>4. /\ Len(ids[j]) = d /\ edge[j][1] \in DOMAIN children[c] /\ children[c][edge[j][1]] = j
    BY <1>1, <1>9, <2>1, <2>2 DEF LinkInv, LinkedUp
  <2>5. /\ edge'[j] = edge[j] /\ ids'[j] = ids[j] /\ path'[j] = path[j] /\ parent'[j] = q
    BY <1>2, <1>9, <2>2
  <2>6. Size(j)' = d /\ Depth(j)' = s + d
    BY <2>1, <2>3, <2>5 DEF Size, Depth
  <2>7. Continues(j, q, s, d)'
    BY <1>2, <1>7, <2>2, <2>3, <2>4, <2>5, <2>6 DEF Continues
  <2> QED
    BY <2>7, LinkedUpNext
<1>10. ASSUME NEW j \in N \ {Root}, parent[j] # c, j # q PROVE LinkedUp(j)'
  <2>1. PICK r : r = parent[j]
    OBVIOUS
  <2>2. j \in N /\ j \in Inner /\ j # c /\ LinkedUp(j) /\ r \in Nodes
    BY <1>1, <1>2, <2>1, PathLengths DEF LinkInv
  <2>3. r # q /\ r # c /\ r \in N
    BY <1>2, <1>3, <1>10, <2>1, <2>2
  <2>4. /\ edge'[j] = edge[j] /\ ids'[j] = ids[j] /\ path'[j] = path[j]
        /\ parent'[j] = r /\ path'[r] = path[r] /\ children'[r] = children[r]
    BY <1>2, <1>10, <2>1, <2>2, <2>3
  <2>5. edge[j][1] \in DOMAIN children[r] /\ children[r][edge[j][1]] = j
    BY <2>1, <2>2 DEF LinkedUp
  <2> QED
    BY <2>1, <2>2, <2>4, <2>5, StaysLinkedUp
<1>11. ASSUME NEW j \in N PROVE LinkedDown(j)'
  <2>1. CASE j = q
    <3>1. ASSUME NEW k \in DOMAIN children[c]
          PROVE  parent'[children[c][k]] = q /\ edge'[children[c][k]][1] = k
      <4>1. PICK x : x = children[c][k]
        OBVIOUS
      <4>2. x \in Inner /\ parent[x] = c /\ edge[x][1] = k
        <5>1. children[c] \in [DOMAIN children[c] -> Inner]
          BY <1>1 DEF TreeTyped
        <5>2. LinkedDown(c)
          BY <1>1 DEF LinkInv
        <5> QED
          BY <4>1, <5>1, <5>2 DEF LinkedDown
      <4>3. x # q /\ x # c /\ x \in N /\ x # Root
        BY <1>1, <1>2, <4>2 DEF Inner
      <4> QED
        BY <1>2, <4>1, <4>2, <4>3
    <3> QED
      BY <1>2, <2>1, <3>1 DEF LinkedDown
  <2>2. CASE j # q
    <3>1. children'[j] = children[j] /\ LinkedDown(j) /\ j \in Nodes /\ j # c
      BY <1>1, <1>2, <2>2 DEF LinkInv
    <3>2. ASSUME NEW k \in DOMAIN children[j]
          PROVE  /\ parent'[children[j][k]] = parent[children[j][k]]
                 /\ edge'[children[j][k]][1] = edge[children[j][k]][1]
      <4>1. PICK x : x = children[j][k]
        OBVIOUS
      <4>2. x \in Inner /\ x \in Nodes /\ parent[x] = j
        BY <1>1, <3>1, <4>1 DEF TreeTyped, LinkedDown, Inner
      <4>3. x # c /\ x \in N
        BY <1>1, <1>2, <2>2, <4>2
      <4> QED
        BY <1>2, <1>6, <3>1, <4>1, <4>2, <4>3
    <3> QED
      BY <3>1, <3>2, StaysLinkedDown
  <2> QED
    BY <2>1, <2>2
<1> QED
  BY <1>2, <1>5, <1>8, <1>9, <1>10, <1>11 DEF LinkInv

\* block_locations points to the merged node, behind the blocks it had.
LEMMA MergeLocated ==
    ASSUME NEW q, NEW c, NEW N, NEW z, NEW m, NEW l, MergeSetting(q, c, N, z, m, l)
    PROVE  LocationInv'
<1>1. /\ TreeTyped /\ LocationInv /\ N \subseteq Nodes /\ N \ {Root} \subseteq Inner
      /\ m \in Nat /\ l \in Nat /\ Len(ids[q]) = m /\ Len(ids[c]) = l
      /\ Joined(ids'[q], ids[q], ids[c], m, l)
  BY DEF MergeSetting, TreeInv
<1>2. /\ q \in Inner /\ c \in Inner /\ c # q /\ N = Nodes \ {c} /\ Inner' = N \ {Root} /\ q \in N
      /\ \A j \in N : j # q => ids'[j] = ids[j]
  BY DEF MergeSetting, MergeDone, Tables
<1>3. /\ ids[c] \in Seq(Ids)
      /\ \A b \in DOMAIN locations : locations[b].node = c => b \in Range(ids[c])
      /\ \A b \in Range(ids[c]) : b \in DOMAIN locations /\ locations[b].node = c
      /\ \A b : b \in DOMAIN locations' <=> b \in DOMAIN locations
      /\ \A i \in 1..l : locations'[ids[c][i]].node = q /\ locations'[ids[c][i]].at = m + i
      /\ \A b \in DOMAIN locations : b \notin Range(ids[c]) => locations'[b] = locations[b]
  BY MergeDistinct
<1>4. ASSUME NEW j \in Inner, j # c, NEW i \in 1..Len(ids[j])
      PROVE  /\ ids[j][i] \in DOMAIN locations'
             /\ locations'[ids[j][i]].node = j /\ locations'[ids[j][i]].at = i
  <2>1. PICK b : b = ids[j][i]
    OBVIOUS
  <2>2. b \in DOMAIN locations /\ locations[b].node = j /\ locations[b].at = i
    BY <1>1, <2>1 DEF LocationInv
  <2>3. b \notin Range(ids[c])
    BY <1>3, <1>4, <2>2
  <2> QED
    BY <1>3, <2>1, <2>2, <2>3
<1>5. ASSUME NEW j \in N \ {Root}, NEW i \in 1..Len(ids'[j])
      PROVE  /\ ids'[j][i] \in DOMAIN locations'
             /\ locations'[ids'[j][i]].node = j /\ locations'[ids'[j][i]].at = i
  <2>1. CASE j # q
    <3>1. j \in Inner /\ j # c /\ ids'[j] = ids[j]
      BY <1>1, <1>2, <2>1
    <3> QED
      BY <1>4, <1>5, <3>1
  <2>2. CASE j = q
    <3>1. i \in 1..(m + l)
      BY <1>1, <1>5, <2>2 DEF Joined
    <3>2. CASE i <= m
      <4>1. i \in 1..m
        BY <1>1, <3>1, <3>2
      <4>2. ids'[q][i] = ids[q][i]
        BY <1>1, <4>1 DEF Joined
      <4>3. i \in 1..Len(ids[q])
        BY <1>1, <4>1
      <4> QED
        BY <1>2, <1>4, <2>2, <4>2, <4>3
    <3>3. CASE m < i
      <4>1. PICK v : v = i - m
        OBVIOUS
      <4>2. v \in 1..l /\ m + v = i
        BY <1>1, <3>1, <3>3, <4>1
      <4>3. ids'[q][i] = ids[c][v]
        BY <1>1, <4>2 DEF Joined
      <4>4. ids[c][v] \in Range(ids[c])
        BY <1>1, <1>3, <4>2, RangeIs
      <4> QED
        BY <1>3, <2>2, <4>2, <4>3, <4>4
    <3> QED
      BY <1>1, <3>1, <3>2, <3>3
  <2> QED
    BY <2>1, <2>2
<1>6. ASSUME NEW b \in DOMAIN locations'
      PROVE  /\ locations'[b].at \in 1..Len(ids'[locations'[b].node])
             /\ ids'[locations'[b].node][locations'[b].at] = b
  <2>1. b \in DOMAIN locations
    BY <1>3
  <2>2. Len(ids'[q]) = m + l
    BY <1>1 DEF Joined
  <2>3. CASE b \in Range(ids[c])
    <3>1. PICK i \in 1..l : ids[c][i] = b
      BY <1>1, <1>3, <2>3, RangeIs
    <3>2. PICK u : u = m + i
      OBVIOUS
    <3>3. u \in 1..Len(ids'[q]) /\ ids'[q][u] = b
      BY <1>1, <2>2, <3>1, <3>2 DEF Joined
    <3>4. locations'[b].node = q /\ locations'[b].at = u
      BY <1>3, <3>1, <3>2
    <3> QED
      BY <3>3, <3>4
  <2>4. CASE b \notin Range(ids[c])
    <3>1. PICK j, i : j = locations[b].node /\ i = locations[b].at
      OBVIOUS
    <3>2. j \in Inner /\ j \in Nodes /\ i \in 1..Len(ids[j]) /\ ids[j][i] = b
      BY <1>1, <2>1, <3>1 DEF TreeTyped, LocationInv, Inner
    <3>3. j # c /\ j \in N
      BY <1>2, <1>3, <2>1, <2>4, <3>1, <3>2
    <3>4. i \in 1..Len(ids'[j]) /\ ids'[j][i] = b
      <4>1. CASE j = q
        BY <1>1, <2>2, <3>2, <4>1 DEF Joined
      <4>2. CASE j # q
        BY <1>2, <3>2, <3>3, <4>2
      <4> QED
        BY <4>1, <4>2
    <3>5. locations'[b].node = j /\ locations'[b].at = i
      BY <1>3, <2>1, <2>4, <3>1
    <3> QED
      BY <3>4, <3>5
  <2> QED
    BY <2>3, <2>4
<1> QED
  BY <1>2, <1>5, <1>6 DEF LocationInv

\* A merge leaves the index alone.
LEMMA MergeIndexed ==
    ASSUME NEW q, NEW c, NEW N, NEW z, NEW m, NEW l, MergeSetting(q, c, N, z, m, l), PrefixMap'
    PROVE  IndexOfTree' = IndexOfTree
<1>1. /\ TreeTyped /\ LinkInv /\ N \ {Root} \subseteq Inner /\ q \in N
      /\ z \in Nat /\ m \in Nat /\ m > 0 /\ l \in Nat /\ l > 0
      /\ Depth(q) = z + m /\ Depth(c) = (z + m) + l /\ Start(q) = z /\ Start(c) = z + m
      /\ parent[c] = q /\ Len(edge'[q]) = m + l
  BY DEF MergeSetting, Joined
<1>2. /\ \A i \in 1..m : ids'[q][i] = ids[q][i]
      /\ \A i \in 1..l : ids'[q][m + i] = ids[c][i]
  BY DEF MergeSetting, Joined
<1>3. /\ q \in Inner /\ c \in Inner /\ c # q /\ N = Nodes \ {c} /\ Inner' = N \ {Root}
      /\ path'[q] = path[c]
      /\ \A j \in N : j # q => edge'[j] = edge[j] /\ ids'[j] = ids[j] /\ path'[j] = path[j]
  BY DEF MergeSetting, MergeDone, Tables
<1>4. PrefixMap
  BY <1>1, PrefixMapIs
<1>5. ASSUME NEW j \in N, j # q, NEW p
      PROVE  (EndsOn(j, p)' <=> EndsOn(j, p)) /\ Block(j, p)' = Block(j, p)
  <2>1. edge'[j] = edge[j] /\ ids'[j] = ids[j] /\ path'[j] = path[j]
    BY <1>3, <1>5
  <2> QED
    BY <2>1 DEF EndsOn, Covers, Start, Depth, Block
<1>6. Start(q)' = z /\ Depth(q)' = (z + m) + l
  <2>1. Depth(q)' = (z + m) + l /\ Len(path'[q]) = (z + m) + l
    BY <1>1, <1>3 DEF Depth
  <2>2. Start(q)' = Len(path'[q]) - Len(edge'[q])
    BY DEF Start
  <2>3. ((z + m) + l) - (m + l) = z
    BY <1>1
  <2> QED
    BY <1>1, <2>1, <2>2, <2>3
<1>7. Agree(path[c], path[q], z + m)
  BY <1>1, <1>3, PathLengths
<1>8. ASSUME NEW p \in Seq(Keys)
      PROVE  /\ Len(p) \in Nat
             /\ EndsOn(q, p)' <=> z < Len(p) /\ Len(p) <= (z + m) + l /\ Agree(p, path[c], Len(p))
             /\ EndsOn(c, p) <=> z + m < Len(p) /\ Len(p) <= (z + m) + l
                                 /\ Agree(p, path[c], Len(p))
             /\ EndsOn(q, p) <=> z < Len(p) /\ Len(p) <= z + m /\ Agree(p, path[q], Len(p))
  BY <1>1, <1>3, <1>6, LenProperties DEF EndsOn, Covers
<1>9. ASSUME NEW p \in Seq(Keys), Len(p) <= z + m
      PROVE  Agree(p, path[c], Len(p)) <=> Agree(p, path[q], Len(p))
  <2>1. z + m \in Nat /\ Len(p) \in Nat
    BY <1>1, <1>8
  <2>2. Agree(path[c], path[q], Len(p)) /\ Agree(path[q], path[c], Len(p))
    BY <1>7, <1>9, <2>1, AgreeLess
  <2> QED
    BY <2>2, AgreeTransitive
<1>10. ASSUME NEW p \in Seq(Keys), EndsOn(q, p)'
       PROVE  \E i \in Inner : EndsOn(i, p) /\ Block(i, p) = Block(q, p)'
  <2>1. z < Len(p) /\ Len(p) <= (z + m) + l /\ Agree(p, path[c], Len(p)) /\ Len(p) \in Nat
    BY <1>8, <1>10
  <2>2. Block(q, p)' = ids'[q][Len(p) - z]
    BY <1>6 DEF Block
  <2>3. CASE Len(p) <= z + m
    <3>1. EndsOn(q, p)
      BY <1>8, <1>9, <2>1, <2>3
    <3>2. Len(p) - z \in 1..m
      BY <1>1, <2>1, <2>3
    <3>3. Block(q, p) = ids[q][Len(p) - z]
      BY <1>1 DEF Block
    <3> QED
      BY <1>2, <1>3, <2>2, <3>1, <3>2, <3>3
  <2>4. CASE z + m < Len(p)
    <3>1. EndsOn(c, p)
      BY <1>8, <2>1, <2>4
    <3>2. PICK i : i = Len(p) - (z + m)
      OBVIOUS
    <3>3. i \in 1..l /\ Len(p) - z = m + i
      BY <1>1, <2>1, <2>4, <3>2
    <3>4. Block(c, p) = ids[c][i]
      BY <1>1, <3>2 DEF Block
    <3> QED
      BY <1>2, <1>3, <2>2, <3>1, <3>3, <3>4
  <2> QED
    BY <1>1, <2>1, <2>3, <2>4
<1>11. ASSUME NEW p \in Seq(Keys), EndsOn(q, p) \/ EndsOn(c, p) PROVE EndsOn(q, p)'
  <2>1. CASE EndsOn(q, p)
    <3>1. Len(p) <= z + m /\ z < Len(p) /\ Len(p) <= (z + m) + l
      BY <1>1, <1>8, <2>1
    <3> QED
      BY <1>8, <1>9, <2>1, <3>1
  <2>2. CASE EndsOn(c, p)
    BY <1>1, <1>8, <2>2
  <2> QED
    BY <1>11, <2>1, <2>2
<1>12. ASSUME NEW j \in Inner', NEW p \in Seq(Keys), EndsOn(j, p)'
       PROVE  \E i \in Inner : EndsOn(i, p) /\ Block(i, p) = Block(j, p)'
  <2>1. CASE j = q
    BY <1>10, <1>12, <2>1
  <2>2. CASE j # q
    <3>1. j \in N /\ j \in Inner
      BY <1>1, <1>3
    <3> QED
      BY <1>5, <1>12, <2>2, <3>1
  <2> QED
    BY <2>1, <2>2
<1>13. ASSUME NEW j \in Inner, NEW p \in Seq(Keys), EndsOn(j, p)
       PROVE  \E i \in Inner' : EndsOn(i, p)'
  <2>1. q \in Inner'
    BY <1>1, <1>3 DEF Inner
  <2>2. CASE j = q \/ j = c
    BY <1>11, <1>13, <2>1, <2>2
  <2>3. CASE j # q /\ j # c
    <3>1. j \in N /\ j \in Inner'
      BY <1>3, <2>3 DEF Inner
    <3> QED
      BY <1>5, <1>13, <2>3, <3>1
  <2> QED
    BY <2>2, <2>3
<1> QED
  BY <1>4, <1>12, <1>13, SameIndex

\* CompressMerge keeps the invariant and is invisible in the prefix map.
LEMMA CompressMergeStep ==
    ASSUME IndInv, CompressMerge
    PROVE  Quiet
<1>1. PICK q, c, N, z, m, l : MergeSetting(q, c, N, z, m, l) /\ q = node
  BY MergeSettingIs
<1>2. TreeTyped' /\ OrderInv' /\ LinkInv' /\ LocationInv'
  BY <1>1, MergeTyped, MergeLinked, MergeLocated
<1>3. PrefixMap'
  BY <1>2, PrefixMapIsNext
<1>4. IndexOfTree' = IndexOfTree
  BY <1>1, <1>3, MergeIndexed
<1>5. /\ TypeOK /\ CallInv /\ op = "compress"
      /\ UNCHANGED <<op, keys, blocks, node, position, matched>>
  BY DEF IndInv, CompressMerge, call
<1>6. q \in Nodes' /\ q \in Inner'
  BY <1>1 DEF MergeSetting, MergeDone, Tables, Inner
<1>7. CallTyped' /\ CallInv'
  BY <1>1, <1>5, <1>6 DEF TypeOK, CallTyped, CallInv
<1> QED
  BY <1>2, <1>4, <1>7 DEF IndInv, TypeOK, Quiet

---------------------------------------------------------------------------
(* The invariant holds *)

\* The empty tree is linked and is the empty map.
LEMMA InitHolds ==
    Init => IndInv /\ IndexOfTree = <<>>
<1> SUFFICES ASSUME Init PROVE IndInv /\ IndexOfTree = <<>>
  OBVIOUS
<1>1. <<>> \in Seq(Keys) /\ <<>> \in Seq(Ids) /\ Len(<<>>) = 0
  OBVIOUS
<1>2. Nodes = {Root} /\ Inner = {} /\ Root \in Nat
  BY DEF Init, Nodes, Inner, Root
<1>3. TreeTyped
  <2>1. IsFiniteSet(Nodes)
    BY <1>2, FS_Singleton
  <2>2. /\ edge \in [Nodes -> Seq(Keys)] /\ ids \in [Nodes -> Seq(Ids)]
        /\ parent \in [Nodes -> Nodes] /\ path \in [Nodes -> Seq(Keys)]
    BY <1>1, <1>2 DEF Init
  <2>3. /\ DOMAIN children = Nodes
        /\ \A n \in Nodes : /\ DOMAIN children[n] \subseteq Keys
                            /\ children[n] \in [DOMAIN children[n] -> Inner]
    BY <1>2 DEF Init, NoChildren
  <2>4. older \in [Inner -> SUBSET Inner]
    BY <1>2 DEF Init
  <2>5. DOMAIN locations \subseteq Ids /\ locations \in [DOMAIN locations -> [node : Inner, at : Nat]]
    BY DEF Init
  <2> QED
    BY <1>2, <2>1, <2>2, <2>3, <2>4, <2>5 DEF TreeTyped
<1>4. LinkInv
  BY <1>1, <1>2 DEF Init, LinkInv, Rooted, LinkedDown, NoChildren
<1>5. LocationInv /\ OrderInv
  BY <1>2 DEF Init, LocationInv, OrderInv
<1>6. CallTyped /\ CallInv
  BY <1>1, <1>2 DEF Init, CallTyped, CallInv
<1>7. IndexOfTree = <<>>
  <2>1. PrefixMap
    BY <1>3, <1>4, PrefixMapIs
  <2>2. DOMAIN IndexOfTree = {}
    BY <1>2, <2>1 DEF PrefixMap
  <2>3. IndexOfTree = [p \in 1..0 |-> IndexOfTree[p]]
    BY <2>1, <2>2 DEF PrefixMap
  <2>4. IndexOfTree \in [1..0 -> Ids]
    BY <2>3
  <2>5. IndexOfTree \in Seq(Ids) /\ Len(IndexOfTree) = 0
    BY <2>4, FunctionIsSeq
  <2> QED
    BY <2>5, EmptySeq
<1> QED
  BY <1>3, <1>4, <1>5, <1>6, <1>7 DEF IndInv, TypeOK

\* A stuttering step keeps everything.
LEMMA Stutters ==
    ASSUME IndInv, UNCHANGED vars
    PROVE  Quiet
<1>1. TreeInv /\ TypeOK /\ CallInv /\ UNCHANGED tree
      /\ UNCHANGED <<op, keys, blocks, node, position, matched>>
  BY DEF IndInv, TypeOK, TreeInv, vars, call
<1>2. TreeInv' /\ IndexOfTree' = IndexOfTree /\ Nodes' = Nodes /\ Inner' = Inner /\ path' = path
  BY <1>1, UnchangedTree, UnchangedIndex DEF tree, Nodes, Inner
<1>3. CallTyped'
  BY <1>1, <1>2 DEF TypeOK, CallTyped
<1>4. CallInv'
  <2>1. MayInsert(keys, blocks) => MayInsert(keys, blocks)'
    BY <1>1, <1>2, MayStillInsert
  <2>2. Depth(node)' = Depth(node)
    BY <1>1, <1>2 DEF Depth
  <2> QED
    BY <1>1, <1>2, <2>1, <2>2 DEF CallInv
<1> QED
  BY <1>2, <1>3, <1>4 DEF IndInv, TypeOK, TreeInv, Quiet

\* An insertion of the abstract map, read off the tree.
LEMMA GrowthIsInsert ==
    ASSUME IndInv', NEW w \in Paths, IndexGrows(w), PrefixMap'
    PROVE  Promise!Next
<1> DEFINE D == DOMAIN IndexOfTree
           P == {SubSeq(w, 1, i) : i \in 1..Len(w)}
           given == [i \in 1..Len(w) |-> IndexOfTree'[SubSeq(w, 1, i)]]
<1>1. \A p \in DOMAIN IndexOfTree' : IndexOfTree'[p] \in Ids
  <2>1. TreeInv' => IndexTyped'
    BY IndexInIds, PTL
  <2> QED
    BY <2>1 DEF IndInv, TypeOK, TreeInv, IndexTyped
<1>2. DOMAIN IndexOfTree' = D \cup P /\ \A p \in D : IndexOfTree'[p] = IndexOfTree[p]
  BY DEF IndexGrows
<1>3. w \in Seq(Keys) /\ Len(w) \in Nat
  BY PathsAreSequences
<1>4. ASSUME NEW p \in P PROVE given[Len(p)] = IndexOfTree'[p]
  <2>1. PICK i \in 1..Len(w) : p = SubSeq(w, 1, i)
    OBVIOUS
  <2>2. Len(p) = i
    <3>1. i \in 0..Len(w)
      BY <1>3
    <3> QED
      BY <1>3, <2>1, <3>1, FirstPart
  <2> QED
    BY <2>1, <2>2
<1>5. P \subseteq DOMAIN IndexOfTree'
  BY <1>2
<1>6. \A i \in 1..Len(w) : given[i] \in Ids
  BY <1>1, <1>2
<1>7. Promise!Range(given) \subseteq Ids
  BY <1>6 DEF Promise!Range
<1>8. IndexOfTree' = [p \in DOMAIN IndexOfTree' |-> IndexOfTree'[p]]
  BY DEF PrefixMap
<1>9. IndexOfTree' = [p \in D \cup P |-> IF p \in D THEN IndexOfTree[p] ELSE given[Len(p)]]
  <2> HIDE DEF D, P, given
  <2> QED
    BY <1>2, <1>4, <1>8
<1>10. Promise!Insert(w, given)
  BY <1>9 DEF Promise!Insert
<1>11. Promise!Given(w) = given /\ w \in Promise!Paths
  BY DEF Promise!Given, Promise!Paths, Paths
<1> QED
  <2> HIDE DEF given
  <2> QED
    BY <1>5, <1>7, <1>10, <1>11 DEF Promise!Next

\* A removal of the abstract map, read off the tree.
LEMMA ShrinkageIsRemoval ==
    ASSUME NEW b \in Ids, IndexShrinks(b), PrefixMap'
    PROVE  Promise!Next
<1> DEFINE D == DOMAIN IndexOfTree
           E == DOMAIN IndexOfTree'
           rest == {p \in D : \A q \in D : IndexOfTree[q] = b => ~Promise!IsPrefix(q, p)}
<1>0. \A p, q : Promise!IsPrefix(q, p) <=> IsPrefix(q, p)
  BY DEF IsPrefix, Promise!IsPrefix
<1>1. \A p : p \in E <=> p \in rest
  BY <1>0 DEF IndexShrinks, Beyond
<1>2. \A p \in E : IndexOfTree'[p] = IndexOfTree[p]
  BY DEF IndexShrinks
<1>3. IndexOfTree' = [p \in E |-> IndexOfTree'[p]]
  BY DEF PrefixMap
<1>4. IndexOfTree' = [p \in rest |-> IndexOfTree[p]]
  <2> HIDE DEF E, rest
  <2> QED
    BY <1>1, <1>2, <1>3
<1>5. Promise!RemoveBlock(b)
  BY <1>4 DEF Promise!RemoveBlock, Promise!Restrict
<1> QED
  BY <1>5 DEF Promise!Next

\* Every step keeps the invariant, and is a step of the abstract map or invisible
\* there.
LEMMA StepHolds ==
    ASSUME IndInv, [Next]_vars
    PROVE  IndInv' /\ [Promise!Next]_IndexOfTree
<1>0. IndInv' => PrefixMap'
  BY PrefixMapIsNext DEF IndInv, TypeOK
<1>1. CASE \E k \in Paths : Match(k)
  BY <1>1, MatchStep DEF Quiet
<1>2. CASE MatchFollow
  BY <1>2, MatchFollowStep DEF Quiet
<1>3. CASE MatchStop
  BY <1>3, MatchStopStep DEF Quiet
<1>4. CASE MatchReturn
  BY <1>4, MatchReturnStep DEF Quiet
<1>5. CASE \E k \in Paths : \E b \in [1..Len(k) -> Ids] : Insert(k, b)
  BY <1>5, InsertStep DEF Quiet
<1>6. CASE InsertFollow
  BY <1>6, InsertFollowStep DEF Quiet
<1>7. CASE InsertNothing
  BY <1>7, InsertNothingStep DEF Quiet
<1>8. CASE InsertSplit
  BY <1>8, InsertSplitStep DEF Quiet
<1>9. CASE InsertLeaf
  <2>1. PICK w \in Paths : w = keys
    BY <1>9 DEF InsertLeaf, IndInv, CallInv
  <2>2. IndInv' /\ IndexGrows(w)
    BY <1>9, <2>1, InsertLeafStep
  <2> QED
    BY <1>0, <2>2, GrowthIsInsert
<1>10. CASE \E b \in Ids : RemoveBlock(b)
  <2>1. PICK b \in Ids : RemoveBlock(b)
    BY <1>10
  <2>2. IndInv' /\ IndexShrinks(b)
    BY <2>1, RemoveBlockStep
  <2> QED
    BY <1>0, <2>2, ShrinkageIsRemoval
<1>11. CASE CompressMerge
  BY <1>11, CompressMergeStep DEF Quiet
<1>12. CASE CompressUp
  BY <1>12, CompressUpStep DEF Quiet
<1>13. CASE UNCHANGED vars
  BY <1>13, Stutters DEF Quiet
<1> QED
  BY <1>1, <1>2, <1>3, <1>4, <1>5, <1>6, <1>7, <1>8, <1>9, <1>10, <1>11, <1>12, <1>13 DEF Next

\* Every reachable state, in the middle of a call too, has a linked tree, an
\* inverse block table, a linear access order and a walk that knows where it is.
THEOREM TreeInvariant == Spec => []IndInv
<1>1. Init => IndInv
  BY InitHolds
<1>2. IndInv /\ [Next]_vars => IndInv'
  BY StepHolds
<1> QED
  BY <1>1, <1>2, PTL DEF Spec

\* The tree, with its splits and merges, is a prefix map: match, follow, split and
\* merge steps leave it alone, an insertion adds what was missing, and a removal takes
\* exactly the extensions of the removed block's prefix.
THEOREM TreeRefinesPrefixIndex == Spec => ImplementsPrefixIndex
<1>1. Init => Promise!Init
  BY InitHolds DEF Promise!Init
<1>2. IndInv /\ [Next]_vars => [Promise!Next]_IndexOfTree
  BY StepHolds
<1> QED
  BY <1>1, <1>2, TreeInvariant, PTL DEF Spec, ImplementsPrefixIndex, Promise!Spec

\* match, at its return, has collected the blocks of the longest indexed prefix of
\* its keys, however the edges were split and merged before.
THEOREM MatchFindsLongestPrefix == Spec => []MatchIsLongestPrefix
<1>1. IndInv => MatchIsLongestPrefix
  <2> SUFFICES ASSUME IndInv, op = "matched"
               PROVE  \E n \in 0..Len(keys) :
                         /\ matched = [i \in 1..n |-> IndexOfTree[SubSeq(keys, 1, i)]]
                         /\ \A i \in 1..Len(keys) :
                               SubSeq(keys, 1, i) \in DOMAIN IndexOfTree <=> i <= n
    BY DEF MatchIsLongestPrefix
  <2>1. /\ position \in 0..Len(keys) /\ matched \in Seq(Ids) /\ Len(matched) = position
        /\ \A i \in 1..position : matched[i] = IndexOfTree[SubSeq(keys, 1, i)]
        /\ \A i \in 1..Len(keys) : SubSeq(keys, 1, i) \in DOMAIN IndexOfTree <=> i <= position
    BY DEF IndInv, TypeOK, CallTyped, CallInv
  <2>2. matched = [i \in 1..position |-> matched[i]]
    BY <2>1, LenProperties
  <2>3. matched = [i \in 1..position |-> IndexOfTree[SubSeq(keys, 1, i)]]
    BY <2>1, <2>2
  <2> QED
    BY <2>1, <2>3
<1> QED
  BY <1>1, TreeInvariant, PTL

\* After every iteration of every loop: parent pointers, children dictionaries and
\* block_locations agree, and neither a node nor a block is left behind.
THEOREM TreeStaysLinked == Spec => []TreeIsLinked
<1>1. IndInv => TreeIsLinked
  <2> SUFFICES ASSUME TreeInv PROVE TreeIsLinked
    BY DEF IndInv, TypeOK, TreeInv
  <2>1. TreeTyped /\ LinkInv /\ LocationInv
    BY DEF TreeInv
  <2>2. Nodes = Subtree(Root)
    <3>1. Root \in Nodes /\ Depth(Root) = 0
      BY <2>1, RootPath DEF TreeTyped
    <3>2. \A m \in Nodes : Under(Root, m)
      BY <2>1, <3>1, RootPath DEF Under, Agree
    <3> QED
      BY <2>1, <3>1, <3>2, SubtreeIs
  <2>3. ASSUME NEW n \in Inner
        PROVE  /\ edge[n] # <<>> /\ Len(edge[n]) = Len(ids[n])
               /\ parent[n] \in Nodes
               /\ edge[n][1] \in DOMAIN children[parent[n]]
               /\ children[parent[n]][edge[n][1]] = n
    <3>1. n \in Nodes /\ parent[n] \in Nodes
      BY <2>1, PathLengths
    <3>2. LinkedUp(n)
      BY <2>1 DEF LinkInv
    <3>3. edge[n] # <<>>
      BY <3>2, EmptySeq DEF LinkedUp, Size
    <3> QED
      BY <3>1, <3>2, <3>3 DEF LinkedUp, Size
  <2>4. \A n \in Nodes : \A k \in DOMAIN children[n] :
           edge[children[n][k]][1] = k /\ parent[children[n][k]] = n
    BY <2>1 DEF LinkInv, LinkedDown
  <2>5. ASSUME NEW n \in Nodes, NEW i \in DOMAIN ids[n]
        PROVE  ids[n][i] \in DOMAIN locations /\ locations[ids[n][i]] = [node |-> n, at |-> i]
    <3>1. ids[n] \in Seq(Ids)
      BY <2>1, Lengths
    <3>2. i \in 1..Len(ids[n])
      BY <3>1, LenProperties
    <3>3. n \in Inner
      BY <2>1, <3>2 DEF LinkInv, Rooted, Inner
    <3>4. PICK b : b = ids[n][i]
      OBVIOUS
    <3>5. b \in DOMAIN locations /\ locations[b].node = n /\ locations[b].at = i
      BY <2>1, <3>2, <3>3, <3>4 DEF LocationInv
    <3>6. locations[b] \in [node : Inner, at : Nat]
      BY <2>1, <3>5 DEF TreeTyped
    <3>7. locations[b] = [node |-> n, at |-> i]
      BY <3>5, <3>6
    <3> QED
      BY <3>4, <3>5, <3>7
  <2>6. ASSUME NEW b PROVE b \in DOMAIN locations <=> b \in Held(Nodes)
    <3>1. ASSUME b \in DOMAIN locations PROVE b \in Held(Nodes)
      <4>1. locations[b].node \in Nodes
        BY <2>1, <3>1 DEF TreeTyped, Inner
      <4> QED
        BY <3>1, <4>1, HeldIs
    <3>2. ASSUME b \in Held(Nodes) PROVE b \in DOMAIN locations
      <4>1. PICK n \in Nodes : b \in Range(ids[n])
        BY <3>2 DEF Held
      <4> QED
        BY <2>5, <4>1 DEF Range
    <3> QED
      BY <3>1, <3>2
  <2>7. DOMAIN locations = Held(Nodes)
    BY <2>6
  <2> QED
    BY <2>2, <2>3, <2>4, <2>5, <2>7 DEF TreeIsLinked
<1> QED
  BY <1>1, TreeInvariant, PTL

---------------------------------------------------------------------------
(* lru_leaf_block *)

\* Nothing lies under a leaf.
LEMMA LeafEnds ==
    ASSUME TreeInv, NEW o \in Inner, DOMAIN children[o] = {}, NEW m \in Nodes, Under(o, m)
    PROVE  m = o
<1>1. TreeTyped /\ LinkInv /\ o \in Nodes
  BY DEF TreeInv, Inner
<1>2. Range(children[o]) = {}
  BY DEF Range
<1>3. m \in Subtree(o)
  BY <1>1, SubtreeIs
<1>4. {o} \in SUBSET Nodes /\ o \in {o} /\ \A x \in {o} : Range(children[x]) \subseteq {o}
  BY <1>1, <1>2
<1>5. m \in {o}
  BY <1>3, <1>4 DEF Subtree
<1> QED
  BY <1>5

\* The last page of a node's edge.
LEMMA LastPage ==
    ASSUME TreeInv, NEW o \in Inner
    PROVE  LET b == ids[o][Size(o)]
           IN  /\ Size(o) \in 1..Len(ids[o]) /\ path[o] \in Seq(Keys) /\ EndsOn(o, path[o])
               /\ path[o] \in DOMAIN IndexOfTree /\ IndexOfTree[path[o]] = b
               /\ b \in DOMAIN locations /\ locations[b].node = o /\ locations[b].at = Size(o)
<1>1. TreeTyped /\ LinkInv /\ PrefixMap /\ o \in Nodes
  BY PrefixMapIs DEF TreeInv, Inner
<1>2. /\ Start(o) \in Nat /\ Depth(o) \in Nat /\ Size(o) \in Nat /\ Size(o) > 0
      /\ Depth(o) = Start(o) + Size(o) /\ path[o] \in Seq(Keys)
  BY <1>1, PathLengths, Lengths
<1>3. Size(o) \in 1..Len(ids[o])
  <2>1. Len(ids[o]) = Size(o)
    BY <1>1 DEF LinkInv, LinkedUp
  <2> QED
    BY <1>2, <2>1
<1>4. Len(path[o]) = Depth(o) /\ Start(o) < Depth(o) /\ Depth(o) - Start(o) = Size(o)
  BY <1>2 DEF Depth
<1>5. EndsOn(o, path[o]) /\ Block(o, path[o]) = ids[o][Size(o)]
  BY <1>2, <1>4 DEF EndsOn, Covers, Agree, Block
<1>6. path[o] \in DOMAIN IndexOfTree /\ IndexOfTree[path[o]] = ids[o][Size(o)]
  BY <1>1, <1>2, <1>5 DEF PrefixMap
<1>7. /\ ids[o][Size(o)] \in DOMAIN locations
      /\ locations[ids[o][Size(o)]].node = o /\ locations[ids[o][Size(o)]].at = Size(o)
  BY <1>3 DEF TreeInv, LocationInv
<1> QED
  BY <1>2, <1>3, <1>5, <1>6, <1>7

\* A prefix that ends with the edge of o is the path of o.
LEMMA WholePath ==
    ASSUME TreeInv, NEW o \in Inner, NEW q \in Seq(Keys), EndsOn(o, q),
           Size(o) <= Len(q) - Start(o)
    PROVE  q = path[o]
<1>1. /\ TreeTyped /\ LinkInv /\ o \in Nodes
      /\ Start(o) \in Nat /\ Depth(o) \in Nat /\ Size(o) \in Nat
      /\ Depth(o) = Start(o) + Size(o) /\ path[o] \in Seq(Keys)
  BY PathLengths, Lengths DEF TreeInv
<1>2. Len(q) \in Nat /\ Len(q) <= Depth(o) /\ Agree(q, path[o], Len(q))
  BY LenProperties DEF EndsOn, Covers
<1>3. Len(q) = Len(path[o])
  BY <1>1, <1>2 DEF Depth
<1>4. \A i \in 1..Len(q) : q[i] = path[o][i]
  BY <1>2 DEF Agree
<1> QED
  BY <1>1, <1>3, <1>4, SeqEqual

\* The last page of a leaf is the only one its removal takes.
LEMMA LeafCostsOnePage ==
    ASSUME TreeInv, NEW o \in Inner, DOMAIN children[o] = {}, NEW b, b = ids[o][Size(o)]
    PROVE  /\ path[o] \in DOMAIN IndexOfTree
           /\ \A q \in DOMAIN IndexOfTree : IndexOfTree[q] = b <=> q = path[o]
           /\ \A q \in DOMAIN IndexOfTree : IsPrefix(path[o], q) => q = path[o]
<1>1. TreeTyped /\ LinkInv /\ PrefixMap
  BY PrefixMapIs DEF TreeInv
<1>2. /\ path[o] \in Seq(Keys) /\ path[o] \in DOMAIN IndexOfTree /\ IndexOfTree[path[o]] = b
      /\ b \in DOMAIN locations /\ locations[b].node = o /\ locations[b].at = Size(o)
  BY LastPage
<1>3. ASSUME NEW q \in DOMAIN IndexOfTree
      PROVE  /\ IndexOfTree[q] = b => q = path[o]
             /\ IsPrefix(path[o], q) => q = path[o]
  <2>1. PICK m \in Inner : q \in Seq(Keys) /\ EndsOn(m, q)
    BY <1>1 DEF PrefixMap
  <2>2. IndexOfTree[q] = Block(m, q) /\ m \in Nodes
    BY <1>1, <2>1 DEF PrefixMap, Inner
  <2>3. ASSUME IndexOfTree[q] = b PROVE q = path[o]
    <3>1. Block(m, q) = b
      BY <2>2, <2>3
    <3>2. locations[Block(m, q)].node = m /\ locations[Block(m, q)].at = Len(q) - Start(m)
      BY <2>1, PageLocated
    <3>3. m = o /\ Size(o) = Len(q) - Start(o)
      BY <1>2, <3>1, <3>2
    <3>4. Size(o) <= Len(q) - Start(o)
      <4>1. Size(o) \in Nat
        BY <1>1, PathLengths
      <4> QED
        BY <3>3, <4>1
    <3> QED
      BY <2>1, <3>3, <3>4, WholePath
  <2>4. ASSUME IsPrefix(path[o], q) PROVE q = path[o]
    <3>1. Beyond(b, q)
      BY <1>2, <2>4 DEF Beyond
    <3>2. Under(o, m) /\ (m = o => Size(o) <= Len(q) - Start(o))
      BY <1>2, <2>1, <3>1, BeyondIs
    <3>3. m = o
      BY <2>2, <3>2, LeafEnds
    <3> QED
      BY <2>1, <3>2, <3>3, WholePath
  <2> QED
    BY <2>3, <2>4
<1> QED
  BY <1>2, <1>3

\* Every node has a leaf under it.
LEMMA LeafBelow ==
    ASSUME TreeInv, NEW n \in Inner
    PROVE  \E o \in Inner : Under(n, o) /\ DOMAIN children[o] = {}
<1>1. TreeTyped /\ LinkInv /\ n \in Nodes /\ IsFiniteSet(Nodes)
  BY DEF TreeInv, TreeTyped, Inner
<1> DEFINE Below(m) == {x \in Nodes : Under(m, x)}
           Sizes == {Cardinality(Below(m)) : m \in Below(n)}
<1>2. \A m : IsFiniteSet(Below(m)) /\ Cardinality(Below(m)) \in Nat
  <2>1. \A m : Below(m) \in SUBSET Nodes
    OBVIOUS
  <2> HIDE DEF Below
  <2> QED
    BY <1>1, <2>1, FS_Subset, FS_CardinalityType
<1>3. n \in Below(n)
  BY <1>1, UnderSelf
<1>4. PICK o \in Below(n) : \A m \in Below(n) : Cardinality(Below(o)) <= Cardinality(Below(m))
  <2>1. Sizes \subseteq Nat /\ Sizes # {}
    <3> HIDE DEF Below
    <3> QED
      BY <1>2, <1>3
  <2>2. PICK s \in Sizes : \A t \in Sizes : s <= t
    <3> HIDE DEF Sizes
    <3> QED
      BY <2>1, Least
  <2> HIDE DEF Below
  <2> QED
    BY <2>2
<1>5. o \in Nodes /\ Under(n, o)
  OBVIOUS
<1>6. o \in Inner
  <2> SUFFICES ASSUME o = Root PROVE FALSE
    BY <1>5 DEF Inner
  <2>1. o # n
    BY DEF Inner
  <2>2. o \in Inner
    BY <1>1, <1>5, <2>1, UnderParent
  <2> QED
    BY <2>2 DEF Inner
<1>7. ASSUME NEW k \in DOMAIN children[o] PROVE FALSE
  <2>1. PICK c : c = children[o][k]
    OBVIOUS
  <2>2. c \in Inner /\ c \in Nodes /\ parent[c] = o
    <3>1. children[o] \in [DOMAIN children[o] -> Inner]
      BY <1>1, <1>5 DEF TreeTyped
    <3>2. LinkedDown(o)
      BY <1>1, <1>5 DEF LinkInv
    <3> QED
      BY <2>1, <3>1, <3>2 DEF LinkedDown, Inner
  <2>3. c \in Below(n)
    BY <1>1, <1>5, <2>2, UnderChild
  <2>4. ASSUME NEW x \in Below(c) PROVE x \in Below(o)
    <3>1. Under(c, x) /\ x \in Nodes
      BY <2>4
    <3>2. Under(o, x)
      <4>1. /\ Start(c) \in Nat /\ Start(c) = Depth(o) /\ Depth(c) = Start(c) + Size(c)
            /\ Size(c) \in Nat /\ Agree(path[c], path[o], Start(c)) /\ Depth(c) \in Nat
            /\ Depth(x) \in Nat
        BY <1>1, <2>2, <3>1, PathLengths, Lengths
      <4>2. Depth(c) <= Depth(x) /\ Agree(path[c], path[x], Depth(c))
        BY <3>1 DEF Under
      <4>3. Agree(path[o], path[c], Depth(o)) /\ Agree(path[c], path[x], Depth(o))
        BY <4>1, <4>2, AgreeLess
      <4>4. Agree(path[o], path[x], Depth(o))
        BY <4>3, AgreeTransitive
      <4> QED
        BY <4>1, <4>2, <4>4 DEF Under
    <3> QED
      BY <3>1, <3>2
  <2>5. o \in Below(o) /\ o \notin Below(c)
    <3>1. Under(o, o)
      BY <1>1, <1>5, UnderSelf
    <3>2. /\ Start(c) \in Nat /\ Start(c) = Depth(o) /\ Depth(c) = Start(c) + Size(c)
          /\ Size(c) \in Nat /\ Size(c) > 0
      BY <1>1, <2>2, PathLengths
    <3>3. ~Under(c, o)
      BY <3>2 DEF Under
    <3> QED
      BY <1>5, <3>1, <3>3
  <2>6. Cardinality(Below(o)) <= Cardinality(Below(c))
    BY <1>4, <2>3
  <2> HIDE DEF Below
  <2>7. /\ Below(c) \in SUBSET Below(o) /\ Below(c) # Below(o)
    BY <2>4, <2>5
  <2>8. /\ Cardinality(Below(c)) <= Cardinality(Below(o))
        /\ Cardinality(Below(c)) # Cardinality(Below(o))
    BY <1>2, <2>7, FS_Subset
  <2> QED
    BY <1>2, <2>6, <2>8
<1> QED
  BY <1>5, <1>6, <1>7

\* A non-empty set of nodes has one that was accessed before the others.
LEMMA OldestIs ==
    ASSUME TreeInv, NEW L, L \subseteq Inner, L # {}
    PROVE  \E o \in L : older[o] \cap L = {}
<1>1. TreeTyped /\ OrderInv /\ IsFiniteSet(Nodes) /\ L \in SUBSET Nodes
  BY DEF TreeInv, TreeTyped, Inner
<1> DEFINE Before(m) == older[m] \cap L
           Sizes == {Cardinality(Before(m)) : m \in L}
<1>2. \A m : IsFiniteSet(Before(m)) /\ Cardinality(Before(m)) \in Nat
  <2>1. \A m : Before(m) \in SUBSET Nodes
    BY <1>1
  <2> HIDE DEF Before
  <2> QED
    BY <1>1, <2>1, FS_Subset, FS_CardinalityType
<1>3. PICK o \in L : \A m \in L : Cardinality(Before(o)) <= Cardinality(Before(m))
  <2>1. Sizes \subseteq Nat /\ Sizes # {}
    <3> HIDE DEF Before
    <3> QED
      BY <1>2
  <2>2. PICK s \in Sizes : \A t \in Sizes : s <= t
    <3> HIDE DEF Sizes
    <3> QED
      BY <2>1, Least
  <2> HIDE DEF Before
  <2> QED
    BY <2>2
<1>4. ASSUME NEW x \in Before(o) PROVE FALSE
  <2>1. x \in L /\ x \in older[o] /\ x \in Inner /\ o \in Inner
    BY <1>4
  <2>2. older[x] \subseteq older[o] /\ x \notin older[x]
    BY <1>1, <2>1 DEF OrderInv
  <2>3. Before(x) \in SUBSET Before(o) /\ Before(x) # Before(o)
    BY <2>1, <2>2
  <2> HIDE DEF Before
  <2>4. /\ Cardinality(Before(x)) <= Cardinality(Before(o))
        /\ Cardinality(Before(x)) # Cardinality(Before(o))
    BY <1>2, <2>3, FS_Subset
  <2>5. Cardinality(Before(o)) <= Cardinality(Before(x))
    BY <1>3, <2>1
  <2> QED
    BY <1>2, <2>4, <2>5
<1> QED
  BY <1>4

\* lru_leaf_block takes the last page of a leaf, when the eligible pages are
\* closed downwards.
LEMMA VictimIs ==
    ASSUME TreeInv, NEW E, NEW a \in DOMAIN IndexOfTree, IndexOfTree[a] \in E,
           \A p, q \in DOMAIN IndexOfTree :
              IndexOfTree[p] \in E /\ IsPrefix(p, q) => IndexOfTree[q] \in E
    PROVE  \E o \in Inner : /\ DOMAIN children[o] = {} /\ ids[o][Size(o)] \in E
                            /\ LruLeafBlock(E) = {ids[o][Size(o)]}
<1>1. TreeTyped /\ LinkInv /\ PrefixMap
  BY PrefixMapIs DEF TreeInv
<1>2. ASSUME NEW n \in Inner, NEW p \in DOMAIN IndexOfTree, EndsOn(n, p), IndexOfTree[p] \in E,
             NEW o \in Inner, Under(n, o)
      PROVE  ids[o][Size(o)] \in E
  <2>1. /\ path[o] \in Seq(Keys) /\ path[o] \in DOMAIN IndexOfTree
        /\ IndexOfTree[path[o]] = ids[o][Size(o)]
    BY LastPage
  <2>2. p \in Seq(Keys) /\ Len(p) \in Nat /\ n \in Nodes /\ o \in Nodes
    BY <1>1, LenProperties DEF PrefixMap, Inner
  <2>3. /\ Len(p) <= Depth(n) /\ Agree(p, path[n], Len(p)) /\ Depth(n) <= Depth(o)
        /\ Agree(path[n], path[o], Depth(n)) /\ Depth(n) \in Nat /\ Depth(o) \in Nat
    BY <1>1, <1>2, <2>2, Lengths DEF EndsOn, Covers, Under
  <2>4. Agree(path[n], path[o], Len(p))
    BY <2>2, <2>3, AgreeLess
  <2>5. Agree(p, path[o], Len(p)) /\ Len(p) <= Depth(o)
    BY <2>2, <2>3, <2>4, AgreeTransitive
  <2>6. IsPrefix(p, path[o])
    BY <2>1, <2>2, <2>5, PrefixAgrees DEF Depth
  <2> QED
    BY <1>2, <2>1, <2>6
<1> DEFINE L == Leaves(E)
           oldest == CHOOSE n \in L : older[n] \cap L = {}
<1>3. L # {}
  <2>1. PICK n \in Inner : EndsOn(n, a)
    BY <1>1 DEF PrefixMap
  <2>2. PICK o \in Inner : Under(n, o) /\ DOMAIN children[o] = {}
    BY LeafBelow
  <2>3. ids[o][Size(o)] \in E
    BY <1>2, <2>1, <2>2
  <2>4. Size(o) \in 1..Len(ids[o]) /\ ids[o] \in Seq(Ids)
    BY <1>1, LastPage, Lengths DEF Inner
  <2>5. ids[o][Size(o)] \in Range(ids[o])
    BY <2>4, RangeIs
  <2> QED
    BY <2>2, <2>3, <2>5 DEF Leaves
<1>4. L \subseteq Inner
  BY DEF Leaves
<1>5. oldest \in L
  <2> HIDE DEF L
  <2> QED
    BY <1>3, <1>4, OldestIs
<1>6. PICK o : o = oldest
  OBVIOUS
<1>7. o \in Inner /\ DOMAIN children[o] = {} /\ Range(ids[o]) \cap E # {}
  BY <1>5, <1>6 DEF Leaves
<1>8. Size(o) \in 1..Len(ids[o]) /\ ids[o] \in Seq(Ids) /\ Len(ids[o]) = Size(o) /\ Size(o) \in Nat
      /\ DOMAIN ids[o] = 1..Size(o)
  <2>1. ids[o] \in Seq(Ids) /\ Size(o) \in Nat
    BY <1>1, <1>7, Lengths DEF Inner
  <2>2. Len(ids[o]) = Size(o)
    BY <1>1, <1>7 DEF LinkInv, LinkedUp
  <2> QED
    BY <1>7, <2>1, <2>2, LastPage, LenProperties
<1>9. ids[o][Size(o)] \in E
  <2>1. PICK i \in 1..Size(o) : ids[o][i] \in E
    BY <1>7, <1>8, RangeIs
  <2>2. PICK p : p = SubSeq(path[o], 1, Start(o) + i)
    OBVIOUS
  <2>3. ids[o][i] \in DOMAIN locations /\ locations[ids[o][i]].node = o /\ locations[ids[o][i]].at = i
    BY <1>7, <1>8 DEF TreeInv, LocationInv
  <2>4. EndsOn(o, p) /\ p \in DOMAIN IndexOfTree /\ IndexOfTree[p] \in E
    BY <2>1, <2>2, <2>3, LocationIndexed
  <2>5. Under(o, o)
    BY <1>1, <1>7, UnderSelf DEF Inner
  <2> QED
    BY <1>2, <1>7, <2>4, <2>5
<1> DEFINE Q(i) == /\ ids[o][i] \in E
                   /\ \A j \in (i + 1)..Len(ids[o]) : ids[o][j] \notin E
           deepest == CHOOSE i \in DOMAIN ids[o] : Q(i)
<1>10. Size(o) \in DOMAIN ids[o] /\ Q(Size(o))
  BY <1>8, <1>9
<1>11. ASSUME NEW i \in DOMAIN ids[o], Q(i) PROVE i = Size(o)
  <2>1. i \in 1..Size(o)
    BY <1>8
  <2>2. i < Size(o) => Size(o) \in (i + 1)..Len(ids[o])
    BY <1>8, <2>1
  <2> QED
    BY <1>8, <1>9, <1>11, <2>1, <2>2
<1>12. LruLeafBlock(E) = IF L = {} THEN {} ELSE {ids[o][deepest]}
  BY <1>6 DEF LruLeafBlock
<1>13. deepest = Size(o)
  <2> HIDE DEF Q
  <2> QED
    BY <1>10, <1>11
<1> HIDE DEF L, deepest
<1> QED
  BY <1>3, <1>7, <1>9, <1>12, <1>13

\* Between two calls, and whatever pages are eligible, as long as the pages below an
\* eligible one are: there is a victim, and its removal costs the index one page.
THEOREM EvictionIsMinimal == Spec => []EvictionTakesOnePage
<1>1. IndInv => EvictionTakesOnePage
  <2> SUFFICES ASSUME TreeInv, NEW E \in SUBSET Ids,
                      \E a \in DOMAIN IndexOfTree : IndexOfTree[a] \in E,
                      \A p, q \in DOMAIN IndexOfTree :
                         IndexOfTree[p] \in E /\ IsPrefix(p, q) => IndexOfTree[q] \in E
               PROVE  /\ LruLeafBlock(E) # {}
                      /\ \A b \in LruLeafBlock(E) : \E p \in DOMAIN IndexOfTree :
                            /\ IndexOfTree[p] \in E
                            /\ \A q \in DOMAIN IndexOfTree : IndexOfTree[q] = b <=> q = p
                            /\ \A q \in DOMAIN IndexOfTree : IsPrefix(p, q) => q = p
    BY DEF EvictionTakesOnePage, IndInv, TypeOK, TreeInv
  <2>1. PICK o \in Inner : /\ DOMAIN children[o] = {} /\ ids[o][Size(o)] \in E
                           /\ LruLeafBlock(E) = {ids[o][Size(o)]}
    BY VictimIs
  <2>2. PICK b : b = ids[o][Size(o)]
    OBVIOUS
  <2>3. /\ path[o] \in DOMAIN IndexOfTree
        /\ \A q \in DOMAIN IndexOfTree : IndexOfTree[q] = b <=> q = path[o]
        /\ \A q \in DOMAIN IndexOfTree : IsPrefix(path[o], q) => q = path[o]
    BY <2>1, <2>2, LeafCostsOnePage
  <2>4. LruLeafBlock(E) = {b} /\ b \in E
    BY <2>1, <2>2
  <2>5. IndexOfTree[path[o]] \in E
    BY <2>3, <2>4
  <2> QED
    BY <2>3, <2>4, <2>5
<1> QED
  BY <1>1, TreeInvariant, PTL
=============================================================================
