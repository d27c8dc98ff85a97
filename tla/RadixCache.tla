----------------------------- MODULE RadixCache -----------------------------
(***************************************************************************)
(* RadixPrefixCache (nanovllm/engine/radix_cache.py): a path-compressed    *)
(* tree whose symbols are page keys, as a heap of node objects with parent *)
(* pointers, children dictionaries and the block_locations table.  A call  *)
(* is its loop: one step per iteration, with the loop's locals as state,   *)
(* and no call begins before the one in progress has returned.             *)
(***************************************************************************)
EXTENDS Integers, FiniteSets, SequencesExt

CONSTANTS
    Keys,      \* page keys: the tokens of one full page
    Ids,       \* block ids
    MaxDepth   \* pages of the longest prefix

ASSUME DepthAssumption == MaxDepth \in Nat \ {0}

VARIABLES
    \* the fields of each node object; 0 is the root
    edge, ids, parent, children,
    older,       \* node -> the nodes whose last_access is smaller
    locations,   \* block_locations
    path,        \* ghost: node -> the keys on the way from the root through its edge
    \* the call in progress and its locals
    op, keys, blocks, node, position, matched

tree == <<edge, ids, parent, children, older, locations, path>>
call == <<op, keys, blocks, node, position, matched>>
vars == <<tree, call>>

Root == 0
Nodes == DOMAIN edge
Inner == Nodes \ {Root}

NoChildren == [k \in {} |-> Root]

Init ==
    /\ edge = [n \in {Root} |-> <<>>] /\ ids = [n \in {Root} |-> <<>>]
    /\ parent = [n \in {Root} |-> Root]
    /\ children = [n \in {Root} |-> NoChildren]
    /\ older = [n \in {} |-> {}]
    /\ locations = [b \in {} |-> Root]
    /\ path = [n \in {Root} |-> <<>>]
    /\ op = "idle" /\ keys = <<>> /\ blocks = <<>>
    /\ node = Root /\ position = 0 /\ matched = <<>>

Paths == UNION {[1..n -> Keys] : n \in 1..MaxDepth}

---------------------------------------------------------------------------
(* Helpers *)

From(s, n) == SubSeq(s, n, Len(s))

Put(f, x, v) == [y \in DOMAIN f \cup {x} |-> IF y = x THEN v ELSE f[y]]

CommonPrefixLength(s, t) ==
    CHOOSE n \in 0..Len(s) :
        /\ n <= Len(t) /\ \A i \in 1..n : s[i] = t[i]
        /\ n < Len(s) /\ n < Len(t) => s[n + 1] # t[n + 1]

\* The order of last_access after a touch of n, when the live nodes are N.
Touched(N, n) ==
    [m \in N \ {Root} |-> IF m = n THEN N \ {Root, n} ELSE (older[m] \cap N) \ {n}]

\* The blocks of s begin at the given offset of node n.
IndexNode(table, n, s, offset) ==
    [b \in DOMAIN table \cup Range(s) |->
        IF b \in Range(s)
        THEN [node |-> n, at |-> offset + CHOOSE i \in DOMAIN s : s[i] = b]
        ELSE table[b]]

Fresh == CHOOSE n \in 1..Cardinality(Nodes) : n \notin Nodes

Return ==
    /\ op' = "idle" /\ keys' = <<>> /\ blocks' = <<>>
    /\ node' = Root /\ position' = 0 /\ matched' = <<>>

\* What the loops of match and insert look up: the child for the next key, and
\* how far its edge agrees with the keys.
HasChild == position < Len(keys) /\ keys[position + 1] \in DOMAIN children[node]
Child    == children[node][keys[position + 1]]
Common   == CommonPrefixLength(edge[Child], From(keys, position + 1))

---------------------------------------------------------------------------
(* The tree read as a map from prefixes to blocks *)

\* Pages above the edge of n.
Start(n) == Len(path[n]) - Len(edge[n])

\* The node on whose edge the prefix p ends.
Owns(n, p) == /\ Start(n) < Len(p)
              /\ IsPrefix(p, path[n])

IndexOfTree ==
    [p \in UNION {{SubSeq(path[n], 1, i) : i \in (Start(n) + 1)..Len(path[n])} :
                     n \in Inner} |->
        LET n == CHOOSE n \in Inner : Owns(n, p)
        IN  ids[n][Len(p) - Start(n)]]

---------------------------------------------------------------------------
(* match *)

Match(k) ==
    /\ op = "idle"
    /\ op' = "match" /\ keys' = k
    /\ UNCHANGED <<tree, blocks, node, position, matched>>

\* Slip: the match ends with the first edge.
StopAfterEdge == op' = "matched" /\ UNCHANGED node

\* Inside an edge the match ends; at its end it goes on below.
AfterEdge ==
    IF Common < Len(edge[Child]) THEN op' = "matched" /\ UNCHANGED node
    ELSE node' = Child /\ UNCHANGED op

MatchFollow ==
    /\ op = "match" /\ HasChild /\ Common > 0
    /\ matched' = matched \o SubSeq(ids[Child], 1, Common)
    /\ older' = Touched(Nodes, Child)
    /\ position' = position + Common
    /\ AfterEdge
    /\ UNCHANGED <<edge, ids, parent, children, locations, path, keys, blocks>>

MatchStop ==
    /\ op = "match" /\ (HasChild => Common = 0)
    /\ op' = "matched"
    /\ UNCHANGED <<tree, keys, blocks, node, position, matched>>

MatchReturn ==
    /\ op = "matched"
    /\ Return /\ UNCHANGED tree

---------------------------------------------------------------------------
(* insert *)

\* The calls hash_blocks makes: all pages of a request's prefix, each with the
\* page's id, which if it is indexed at all is indexed there.
MayInsert(k, b) ==
    /\ IsInjective(b)
    /\ \A p \in DOMAIN IndexOfTree : \A i \in DOMAIN b :
          IndexOfTree[p] = b[i] => p = SubSeq(k, 1, i)

Insert(k, b) ==
    /\ op = "idle" /\ MayInsert(k, b)
    /\ op' = "insert" /\ keys' = k /\ blocks' = b
    /\ UNCHANGED <<tree, node, position, matched>>

InsertFollow ==
    /\ op = "insert" /\ HasChild /\ Common = Len(edge[Child])
    /\ older' = Touched(Nodes, Child)
    /\ node' = Child /\ position' = position + Common
    /\ UNCHANGED <<edge, ids, parent, children, locations, path, op, keys, blocks, matched>>

\* The keys are exhausted, after a whole edge or inside one.
InsertNothing ==
    /\ op = "insert"
    /\ \/ position = Len(keys) /\ UNCHANGED older
       \/ /\ HasChild /\ Common < Len(edge[Child]) /\ position + Common = Len(keys)
          /\ older' = Touched(Nodes, Child)
    /\ Return
    /\ UNCHANGED <<edge, ids, parent, children, locations, path>>

\* Slip: the upper half of the cut edge is not indexed.
IndexLowerHalf(n, c, cut) == IndexNode(locations, c, From(ids[c], cut + 1), 0)

IndexHalves(n, c, cut) ==
    IndexNode(IndexNode(locations, n, SubSeq(ids[c], 1, cut), 0), c, From(ids[c], cut + 1), 0)

\* Cut the child's edge where the keys leave it; the rest of the keys becomes a
\* second child of the new node in the next step.
InsertSplit ==
    /\ op = "insert" /\ HasChild /\ Common < Len(edge[Child])
    /\ position + Common < Len(keys)
    /\ LET n == Fresh
           c == Child
           cut == Common
       IN  /\ edge' = Put([edge EXCEPT ![c] = From(@, cut + 1)], n, SubSeq(edge[c], 1, cut))
           /\ ids' = Put([ids EXCEPT ![c] = From(@, cut + 1)], n, SubSeq(ids[c], 1, cut))
           /\ parent' = Put([parent EXCEPT ![c] = n], n, node)
           /\ children' = Put([children EXCEPT ![node] = Put(@, edge[c][1], n)],
                              n, Put(NoChildren, edge[c][cut + 1], c))
           /\ older' = Touched(Nodes \cup {n}, n)
           /\ locations' = IndexHalves(n, c, cut)
           /\ path' = Put(path, n, SubSeq(keys, 1, position + cut))
           /\ node' = n /\ position' = position + cut
    /\ UNCHANGED <<op, keys, blocks, matched>>

InsertLeaf ==
    /\ op = "insert" /\ position < Len(keys) /\ ~HasChild
    /\ LET n == Fresh
           rest == From(blocks, position + 1)
       IN  /\ edge' = Put(edge, n, From(keys, position + 1))
           /\ ids' = Put(ids, n, rest)
           /\ parent' = Put(parent, n, node)
           /\ children' = Put([children EXCEPT ![node] = Put(@, keys[position + 1], n)],
                              n, NoChildren)
           /\ older' = Touched(Nodes \cup {n}, n)
           /\ locations' = IndexNode(locations, n, rest, 0)
           /\ path' = Put(path, n, keys)
    /\ Return

---------------------------------------------------------------------------
(* remove_block *)

\* Slip: _drop_subtree looks at the children only.
SubtreeShallow(n) == {n} \cup Range(children[n])

\* n and every node below it: the smallest set that holds n and the children
\* of its members.
Subtree(n) ==
    {m \in Nodes : \A S \in SUBSET Nodes :
        n \in S /\ (\A x \in S : Range(children[x]) \subseteq S) => m \in S}

\* _drop_subtree for the nodes other than N, which become garbage.
Keep(N) ==
    /\ parent' = Restrict(parent, N)
    /\ older' = [m \in N \ {Root} |-> older[m] \cap N]

Held(N) == UNION {Range(ids[n]) : n \in N}

\* The loop of _compress goes on with n.
CompressFrom(n) ==
    IF n = Root THEN Return
    ELSE op' = "compress" /\ node' = n /\ UNCHANGED <<keys, blocks, position, matched>>

\* The block is the first of its node: the whole subtree goes.
Unlink(n) ==
    LET gone == Subtree(n)
        kept == Nodes \ gone
        others == {k \in DOMAIN children[parent[n]] : k # edge[n][1]}
    IN  /\ edge' = Restrict(edge, kept) /\ ids' = Restrict(ids, kept)
        /\ children' = Restrict([children EXCEPT ![parent[n]] = Restrict(@, others)], kept)
        /\ locations' = Restrict(locations, DOMAIN locations \ Held(gone))
        /\ path' = Restrict(path, kept)
        /\ Keep(kept)

\* The edge of n keeps the pages before position at, and nothing below.
Trim(n, at) ==
    LET below == Subtree(n) \ {n}
        kept == Nodes \ below
        gone == Held(below) \cup Range(From(ids[n], at))
    IN  /\ edge' = Restrict([edge EXCEPT ![n] = SubSeq(@, 1, at - 1)], kept)
        /\ ids' = Restrict([ids EXCEPT ![n] = SubSeq(@, 1, at - 1)], kept)
        /\ children' = Restrict([children EXCEPT ![n] = NoChildren], kept)
        /\ locations' = Restrict(locations, DOMAIN locations \ gone)
        /\ path' = Restrict([path EXCEPT ![n] = SubSeq(@, 1, Start(n) + at - 1)], kept)
        /\ Keep(kept)

RemoveBlock(b) ==
    /\ op = "idle" /\ b \in DOMAIN locations
    /\ LET n == locations[b].node
           at == locations[b].at
       IN  /\ IF at = 1 THEN Unlink(n) ELSE Trim(n, at)
           /\ CompressFrom(parent[n])

\* An only child is merged into its parent, which is then looked at again.
CompressMerge ==
    /\ op = "compress"
    /\ \E k \in DOMAIN children[node] :
          LET c == children[node][k]
              kept == Nodes \ {c}
          IN  /\ DOMAIN children[node] = {k}
              /\ edge' = Restrict([edge EXCEPT ![node] = @ \o edge[c]], kept)
              /\ ids' = Restrict([ids EXCEPT ![node] = @ \o ids[c]], kept)
              /\ parent' = [m \in kept |->
                              IF m \in Range(children[c]) THEN node ELSE parent[m]]
              /\ children' = Restrict([children EXCEPT ![node] = children[c]], kept)
              /\ older' = Touched(kept, node)
              /\ locations' = IndexNode(locations, node, ids[c], Len(ids[node]))
              /\ path' = Restrict([path EXCEPT ![node] = path[c]], kept)
    /\ UNCHANGED call

CompressUp ==
    /\ op = "compress" /\ \A k \in DOMAIN children[node] : DOMAIN children[node] # {k}
    /\ CompressFrom(parent[node])
    /\ UNCHANGED tree

---------------------------------------------------------------------------
(* lru_leaf_block *)

Leaves(eligible) ==
    {n \in Inner : DOMAIN children[n] = {} /\ Range(ids[n]) \cap eligible # {}}

\* Slip: the first eligible block of the leaf is taken.
LruLeafFirstBlock(eligible) ==
    LET oldest == CHOOSE n \in Leaves(eligible) : older[n] \cap Leaves(eligible) = {}
        first == CHOOSE i \in DOMAIN ids[oldest] :
                   /\ ids[oldest][i] \in eligible
                   /\ \A j \in 1..(i - 1) : ids[oldest][j] \notin eligible
    IN  IF Leaves(eligible) = {} THEN {} ELSE {ids[oldest][first]}

\* The deepest eligible block of each leaf competes with the leaf's last
\* access; None is the empty set.
LruLeafBlock(eligible) ==
    LET oldest == CHOOSE n \in Leaves(eligible) : older[n] \cap Leaves(eligible) = {}
        deepest == CHOOSE i \in DOMAIN ids[oldest] :
                     /\ ids[oldest][i] \in eligible
                     /\ \A j \in (i + 1)..Len(ids[oldest]) : ids[oldest][j] \notin eligible
    IN  IF Leaves(eligible) = {} THEN {} ELSE {ids[oldest][deepest]}

---------------------------------------------------------------------------
(* Specification *)

Next ==
    \/ \E k \in Paths : Match(k)
    \/ MatchFollow \/ MatchStop \/ MatchReturn
    \/ \E k \in Paths : \E b \in [1..Len(k) -> Ids] : Insert(k, b)
    \/ InsertFollow \/ InsertNothing \/ InsertSplit \/ InsertLeaf
    \/ \E b \in Ids : RemoveBlock(b)
    \/ CompressMerge \/ CompressUp

Spec == Init /\ [][Next]_vars

---------------------------------------------------------------------------
(* Properties *)

\* The tree implements the prefix map: splits and merges change nothing of it,
\* an insertion adds what was missing, and a removal takes exactly the
\* extensions of the removed block's prefix.
Promise == INSTANCE PrefixIndex WITH index <- IndexOfTree
ImplementsPrefixIndex == Promise!Spec

\* match returns the blocks of the longest indexed prefix of its keys, whatever
\* splits and merges happened before.
MatchIsLongestPrefix ==
    op = "matched" =>
        \E n \in 0..Len(keys) :
            /\ matched = [i \in 1..n |-> IndexOfTree[SubSeq(keys, 1, i)]]
            /\ \A i \in 1..Len(keys) : SubSeq(keys, 1, i) \in DOMAIN IndexOfTree <=> i <= n

\* Parent pointers, children dictionaries and block_locations agree, and no
\* block or object is left behind: the other assertions of validate(), after
\* every iteration of every loop.
TreeIsLinked ==
    /\ Nodes = Subtree(Root)
    /\ \A n \in Inner :
          /\ edge[n] # <<>> /\ Len(edge[n]) = Len(ids[n])
          /\ parent[n] \in Nodes
          /\ edge[n][1] \in DOMAIN children[parent[n]]
          /\ children[parent[n]][edge[n][1]] = n
    /\ \A n \in Nodes : \A k \in DOMAIN children[n] :
          edge[children[n][k]][1] = k /\ parent[children[n][k]] = n
    /\ \A n \in Nodes : \A i \in DOMAIN ids[n] :
          ids[n][i] \in DOMAIN locations /\ locations[ids[n][i]] = [node |-> n, at |-> i]
    /\ DOMAIN locations = Held(Nodes)

\* When the pages below an eligible page are eligible too, lru_leaf_block finds
\* a victim, and the victim's removal costs the index that one page: no indexed
\* prefix goes on beyond it.
EvictionTakesOnePage ==
    op = "idle" =>
        \A E \in SUBSET Ids :
            LET eligible == {p \in DOMAIN IndexOfTree : IndexOfTree[p] \in E}
                closed == \A p \in eligible, q \in DOMAIN IndexOfTree :
                             IsPrefix(p, q) => q \in eligible
            IN  eligible # {} /\ closed =>
                  /\ LruLeafBlock(E) # {}
                  /\ \A b \in LruLeafBlock(E) : \E p \in eligible :
                        /\ \A q \in DOMAIN IndexOfTree : IndexOfTree[q] = b <=> q = p
                        /\ \A q \in DOMAIN IndexOfTree : IsPrefix(p, q) => q = p

\* validate(): no inner node has a single child.
PathCompressed ==
    op = "idle" => \A n \in Inner : Cardinality(DOMAIN children[n]) # 1
=============================================================================
