------------------------ MODULE TranslationCacheProofs ------------------------
(***************************************************************************)
(* Proofs about TranslationCache, for every number of pages, frames and    *)
(* address spaces, every set of runs, and every size of the arena and of   *)
(* the jump cache.                                                         *)
(***************************************************************************)
EXTENDS TranslationCache, WellFoundedInduction, TLAPS

-----------------------------------------------------------------------------
(* Every list of the cache is sorted.  A page's list leads from younger    *)
(* blocks to older ones; the list of the jumps to a block leads from jumps *)
(* of younger blocks to those of older ones, and from a block's second     *)
(* jump to its first.  A sorted list is what its set of nodes says.        *)

(* x is the highest node of S, or no node at all when S is empty. *)
Highest(x, S, D, rank) ==
    IF S = {} THEN x \notin D
    ELSE x \in S /\ \A n \in S : rank[n] <= rank[x]

Below(S, n, rank) == {m \in S : rank[m] < rank[n]}

(* The nodes of the list are M, in descending order of their ranks. *)
Sorted(first, next, M, rank) ==
    /\ M \subseteq DOMAIN next
    /\ Highest(first, M, DOMAIN next, rank)
    /\ \A n \in M : Highest(next[n], Below(M, n, rank), DOMAIN next, rank)

NodeRank  == [n \in Nodes |-> 2 * n[1] + n[2]]
BlockRank == [b \in Blocks |-> b]

-----------------------------------------------------------------------------
(* The inductive invariant *)

JumpsTo(c, dest) == {n \in Nodes : c.target[n] = dest}
OnPage(c, f)     == {b \in Blocks : f \in {c.blk[b].frame, c.blk[b].frame2}}

(* A block that is not in use is blank, above the cursor with its jumps. *)
PlaceInv(c) ==
    /\ \A b \in Blocks \ Live(c) : c.blk[b] = Unplaced
    /\ \A b \in Live(c) : b <= c.top /\ c.blk[b].frame # None
    /\ \A n \in Nodes : n[1] > c.top => c.want[n] = NoVa

IndexInv(c) ==
    /\ \A o \in Owners, va \in Va :
           LET b == c.index[o][va]
           IN  b # None => c.blk[b].owner = o /\ c.blk[b].va = va
    /\ \A b \in Live(c) : c.index[c.blk[b].owner][c.blk[b].va] = b
    /\ \A o \in Asids \ c.populated, va \in Va : c.index[o][va] = None

(* A jump that was left open leads into its block's own page. *)
WantInv(c) ==
    \A n \in Nodes :
        n[1] \in Live(c) /\ c.want[n] # NoVa => Page(c.want[n]) = Page(c.blk[n[1]].va)

(* A patched jump is of a live block and leads to one. *)
JumpInv(c) ==
    \A n \in Nodes :
        LET src  == c.blk[n[1]]
            dest == c.blk[c.target[n]]
        IN  c.target[n] # None =>
                /\ n[1] \in Live(c) /\ c.target[n] \in Live(c)
                /\ c.want[n] = dest.va
                /\ src.owner = dest.owner /\ src.frame = dest.frame

ChainInv(c) ==
    /\ c.site = c.target
    /\ \A d \in Blocks : Sorted(c.head[d], c.next, JumpsTo(c, d), NodeRank)

PageInv(c) ==
    \A f \in Window : Sorted(c.heads[f], PageNext(c, f), OnPage(c, f), BlockRank)

BlockInv(c) ==
    /\ c \in CacheType
    /\ PlaceInv(c) /\ IndexInv(c) /\ WantInv(c) /\ JumpInv(c) /\ ChainInv(c)

CacheInv(c) == BlockInv(c) /\ PageInv(c)

(* What a block was translated from stays marked while it is live. *)
MarkInv == \A b \in Live(cache) : Marked(Covers(cache.blk[b])) \subseteq marks

(* An invalidation takes all the dirty pages at once, and no code runs and *)
(* stores before it has cleaned them.                                      *)
PurgeInv == purge # {} => dirty = {}

IInv ==
    /\ TypeOK /\ CacheInv(cache) /\ MarkInv
    /\ JumpCacheFresh /\ StoredCodeIsDirty /\ PurgeInv

-----------------------------------------------------------------------------
(* Sorted lists *)

LessThan == {pair \in Nat \X Nat : pair[1] < pair[2]}

LEMMA LessThanWellFounded == IsWellFoundedOn(LessThan, Nat)
BY NatLessThanWellFounded DEF OpToRel, LessThan

(* A set of numbers has a least one. *)
LEMMA LeastExists ==
    ASSUME NEW S \in SUBSET Nat, S # {}
    PROVE  \E m \in S : \A x \in S : m <= x
<1>1. PICK m \in S : \A y \in S : ~(<<y, m>> \in LessThan)
  BY WFMin, LessThanWellFounded
<1>2. \A y \in S : m <= y
  <2>. SUFFICES ASSUME NEW y \in S, y < m PROVE FALSE
    OBVIOUS
  <2>1. <<y, m>> \in LessThan
    BY DEF LessThan
  <2>. QED  BY <2>1, <1>1
<1>. QED  BY <1>2

(* Nodes that have different ranks. *)
Ranked(rank) ==
    /\ rank \in [DOMAIN rank -> Nat]
    /\ \A m, n \in DOMAIN rank : rank[m] = rank[n] => m = n

LEMMA LowestExists ==
    ASSUME NEW rank, Ranked(rank), NEW S \in SUBSET DOMAIN rank, S # {}
    PROVE  \E n \in S : \A m \in S : rank[n] <= rank[m]
<1>. DEFINE R == {rank[n] : n \in S}
<1>1. R \in SUBSET Nat /\ R # {}
  BY DEF Ranked
<1>2. PICK r \in R : \A x \in R : r <= x
  <2>. HIDE DEF R
  <2>. QED  BY <1>1, LeastExists
<1>. QED  BY <1>2

(* Of the nodes whose ranks are bounded there is a highest. *)
LEMMA HighestExists ==
    ASSUME NEW rank, Ranked(rank), NEW S \in SUBSET DOMAIN rank, S # {},
           NEW top \in Nat, \A n \in S : rank[n] <= top
    PROVE  \E n \in S : \A m \in S : rank[m] <= rank[n]
<1>. DEFINE R == {top - rank[n] : n \in S}
<1>1. R \in SUBSET Nat /\ R # {}
  BY DEF Ranked
<1>2. PICK r \in R : \A x \in R : r <= x
  <2>. HIDE DEF R
  <2>. QED  BY <1>1, LeastExists
<1>3. PICK n \in S : r = top - rank[n]
  BY <1>2
<1>4. ASSUME NEW m \in S PROVE rank[m] <= rank[n]
  <2>1. top - rank[n] <= top - rank[m]
    BY <1>2, <1>3
  <2>2. rank[m] \in Nat /\ rank[n] \in Nat
    BY DEF Ranked
  <2>. QED  BY <2>1, <2>2
<1>. QED  BY <1>4

(* A walk along a sorted list comes to its nodes, and to an end. *)
LEMMA SortedIsList ==
    ASSUME NEW first, NEW next, NEW M, NEW rank, Ranked(rank),
           DOMAIN rank = DOMAIN next, Sorted(first, next, M, rank)
    PROVE  OnList(first, next) = M /\ WalkEnds(first, next)
<1>. DEFINE D == DOMAIN next
<1>. USE DEF Sorted
<1>0. M \subseteq D /\ \A n \in M : rank[n] \in Nat
  BY DEF Ranked
<1>1. Closed(M, first, next)
  BY DEF Closed, Highest, Below
<1>2. ASSUME NEW S \in SUBSET D, Closed(S, first, next) PROVE M \subseteq S
  <2>. SUFFICES ASSUME M \ S # {} PROVE FALSE
    OBVIOUS
  <2>1. first \in M /\ \A m \in M : rank[m] <= rank[first]
    BY DEF Highest
  <2>2. PICK x \in M \ S : \A y \in M \ S : rank[y] <= rank[x]
    BY HighestExists, <2>1, <1>0, M \ S \in SUBSET DOMAIN rank
  <2>. DEFINE U == {m \in M : rank[x] < rank[m]}
  <2>3. first \in S
    BY <1>2, <2>1, <1>0 DEF Closed
  <2>4. rank[x] # rank[first]
    BY <2>2, <2>3, <2>1, <1>0 DEF Ranked
  <2>5. first \in U
    BY <2>1, <2>2, <2>4, <1>0
  <2>6. PICK u \in U : \A m \in U : rank[u] <= rank[m]
    BY LowestExists, <2>5, <1>0, U \in SUBSET DOMAIN rank
  <2>7. u \in M /\ rank[x] < rank[u]
    BY <2>6
  <2>8. u \in S
    BY <2>7, <2>2, <1>0
  <2>9. x \in Below(M, u, rank)
    BY <2>7, <2>2 DEF Below
  <2>10. Highest(next[u], Below(M, u, rank), D, rank)
    BY <2>7
  <2>11. next[u] \in Below(M, u, rank) /\ rank[x] <= rank[next[u]]
    BY <2>9, <2>10 DEF Highest
  <2>12. next[u] \in M /\ rank[next[u]] < rank[u]
    BY <2>11 DEF Below
  <2>13. next[u] \notin U
    BY <2>6, <2>12, <2>7, <1>0
  <2>14. rank[next[u]] = rank[x]
    BY <2>11, <2>12, <2>13, <2>2, <1>0
  <2>15. next[u] = x
    BY <2>14, <2>12, <2>2, <1>0 DEF Ranked
  <2>16. next[u] \in S
    BY <1>2, <2>8, <2>12, <1>0 DEF Closed
  <2>. QED  BY <2>15, <2>16, <2>2
<1>3. OnList(first, next) = M
  BY <1>0, <1>1, <1>2 DEF OnList
<1>4. ASSUME first \in D PROVE \E n \in M : next[n] \notin D
  <2>1. M # {}
    BY <1>4 DEF Highest
  <2>2. PICK n \in M : \A m \in M : rank[n] <= rank[m]
    BY LowestExists, <2>1, <1>0
  <2>3. Below(M, n, rank) = {}
    BY <2>2, <1>0 DEF Below
  <2>. QED  BY <2>3 DEF Highest
<1>. QED  BY <1>3, <1>4 DEF WalkEnds

LEMMA SortedNone ==
    ASSUME NEW first, NEW next, NEW rank, first \notin DOMAIN next
    PROVE  Sorted(first, next, {}, rank)
BY DEF Sorted, Highest

(* A list depends on the links of its own nodes alone. *)
LEMMA SortedSame ==
    ASSUME NEW first, NEW next, NEW next2, NEW M, NEW rank,
           Sorted(first, next, M, rank), DOMAIN next2 = DOMAIN next,
           \A n \in M : next2[n] = next[n]
    PROVE  Sorted(first, next2, M, rank)
BY DEF Sorted

(* A node above all others is put in front. *)
LEMMA SortedPush ==
    ASSUME NEW first, NEW next, NEW next2, NEW M, NEW rank, Ranked(rank),
           DOMAIN rank = DOMAIN next, Sorted(first, next, M, rank),
           NEW n \in DOMAIN next, \A m \in M : rank[m] < rank[n],
           DOMAIN next2 = DOMAIN next, next2[n] = first,
           \A m \in M : next2[m] = next[m]
    PROVE  Sorted(n, next2, M \cup {n}, rank)
<1>. DEFINE D == DOMAIN next
<1>0. M \subseteq D /\ \A m \in M \cup {n} : rank[m] \in Nat
  BY DEF Ranked, Sorted
<1>1. Highest(n, M \cup {n}, D, rank)
  BY <1>0 DEF Highest
<1>2. Below(M \cup {n}, n, rank) = M
  BY <1>0 DEF Below
<1>3. Highest(next2[n], Below(M \cup {n}, n, rank), D, rank)
  BY <1>2 DEF Sorted
<1>4. ASSUME NEW m \in M PROVE Highest(next2[m], Below(M \cup {n}, m, rank), D, rank)
  <2>1. Below(M \cup {n}, m, rank) = Below(M, m, rank)
    BY <1>0 DEF Below
  <2>. QED  BY <2>1 DEF Sorted
<1>. QED  BY <1>0, <1>1, <1>3, <1>4 DEF Sorted

(* A node is cut out, by the head of the list or by the node before it. *)
LEMMA SortedCut ==
    ASSUME NEW first, NEW next, NEW first2, NEW next2, NEW M, NEW rank, Ranked(rank),
           DOMAIN rank = DOMAIN next, Sorted(first, next, M, rank),
           NEW n \in M, DOMAIN next2 = DOMAIN next,
           first2 = IF first = n THEN next[n] ELSE first,
           \A m \in M \ {n} :
               next2[m] = IF first # n /\ next[m] = n THEN next[n] ELSE next[m]
    PROVE  Sorted(first2, next2, M \ {n}, rank)
<1>. DEFINE D == DOMAIN next
<1>. DEFINE N == M \ {n}
<1>0. M \subseteq D /\ \A m \in M : rank[m] \in Nat
  BY DEF Ranked, Sorted
<1>1. \A a, b \in M : rank[a] = rank[b] => a = b
  BY <1>0 DEF Ranked
<1>2. first \in M /\ \A m \in M : rank[m] <= rank[first]
  BY DEF Sorted, Highest
<1>3. Highest(next[n], Below(M, n, rank), D, rank)
  BY DEF Sorted
<1>4. Highest(first2, N, D, rank)
  <2>1. CASE first = n
    <3>1. N = Below(M, n, rank)
      BY <2>1, <1>0, <1>1, <1>2 DEF Below
    <3>. QED  BY <3>1, <2>1, <1>3
  <2>2. CASE first # n
    BY <2>2, <1>2 DEF Highest
  <2>. QED  BY <2>1, <2>2
<1>5. ASSUME NEW m \in N PROVE Highest(next2[m], Below(N, m, rank), D, rank)
  <2>1. Highest(next[m], Below(M, m, rank), D, rank)
    BY DEF Sorted
  <2>2. Below(N, m, rank) = Below(M, m, rank) \ {n}
    BY DEF Below
  <2>3. CASE next[m] # n
    <3>1. next2[m] = next[m]
      BY <2>3
    <3>2. CASE Below(M, m, rank) = {}
      BY <3>1, <3>2, <2>1, <2>2 DEF Highest
    <3>3. CASE Below(M, m, rank) # {}
      BY <3>1, <3>3, <2>3, <2>1, <2>2 DEF Highest
    <3>. QED  BY <3>2, <3>3
  <2>4. CASE next[m] = n
    <3>1. n \in Below(M, m, rank) /\ \A k \in Below(M, m, rank) : rank[k] <= rank[n]
      BY <2>1, <2>4, <1>0 DEF Highest
    <3>2. rank[n] < rank[m]
      BY <3>1 DEF Below
    <3>3. first # n
      BY <3>2, <1>2, <1>0
    <3>4. next2[m] = next[n]
      BY <3>3, <2>4
    <3>5. Below(N, m, rank) = Below(M, n, rank)
      <4>1. ASSUME NEW k \in M PROVE k # n /\ rank[k] < rank[m] <=> rank[k] < rank[n]
        <5>1. rank[k] < rank[m] => rank[k] <= rank[n]
          BY <3>1 DEF Below
        <5>. QED  BY <5>1, <3>2, <1>0, <1>1
      <4>. QED  BY <4>1 DEF Below
    <3>. QED  BY <3>4, <3>5, <1>3
  <2>. QED  BY <2>3, <2>4
<1>. QED  BY <1>0, <1>4, <1>5 DEF Sorted

-----------------------------------------------------------------------------
(* The lists of the cache *)

LEMMA NodesRanked ==
    /\ Ranked(NodeRank) /\ DOMAIN NodeRank = Nodes
    /\ Ranked(BlockRank) /\ DOMAIN BlockRank = Blocks
    /\ NoNode \notin Nodes /\ None \notin Blocks
<1>1. Blocks \subseteq Nat /\ None \notin Blocks
  BY ConstantsAssumption DEF Blocks, None
<1>2. ASSUME NEW m \in Nodes, NEW n \in Nodes, 2 * m[1] + m[2] = 2 * n[1] + n[2]
      PROVE  m = n
  <2>1. m = <<m[1], m[2]>> /\ n = <<n[1], n[2]>>
    BY DEF Nodes
  <2>2. /\ m[1] \in Nat /\ n[1] \in Nat
        /\ m[2] \in {1, 2} /\ n[2] \in {1, 2}
    BY <1>1 DEF Nodes
  <2>3. m[1] = n[1] /\ m[2] = n[2]
    BY <2>2, <1>2
  <2>. QED  BY <2>1, <2>3
<1>3. NodeRank \in [Nodes -> Nat]
  <2>1. ASSUME NEW n \in Nodes PROVE 2 * n[1] + n[2] \in Nat
    <3>1. n[1] \in Nat /\ n[2] \in {1, 2}
      BY <1>1 DEF Nodes
    <3>. QED  BY <3>1
  <2>. QED  BY <2>1 DEF NodeRank
<1>4. Ranked(NodeRank)
  BY <1>2, <1>3 DEF NodeRank, Ranked
<1>5. Ranked(BlockRank)
  BY <1>1 DEF BlockRank, Ranked
<1>. QED  BY <1>1, <1>3, <1>4, <1>5 DEF NodeRank, BlockRank, NoNode, Nodes

(* The parts of the cache an operation leaves alone. *)
KeepsBlocks(c, d) ==
    d.blk = c.blk /\ d.top = c.top /\ d.index = c.index /\ d.populated = c.populated
KeepsJumps(c, d) ==
    d.site = c.site /\ d.target = c.target /\ d.next = c.next /\ d.head = c.head
KeepsPages(c, d) == d.pageNext = c.pageNext /\ d.heads = c.heads

LEMMA SourcesAreJumpsTo ==
    ASSUME NEW c, c \in CacheType, ChainInv(c), NEW d \in Blocks
    PROVE  Sources(c, d) = JumpsTo(c, d) /\ WalkEnds(c.head[d], c.next)
<1>1. DOMAIN c.next = Nodes
  BY DEF CacheType
<1>. QED  BY <1>1, NodesRanked, SortedIsList DEF ChainInv, Sources

(* What the two halves of a detach do to the fields. *)
LEMMA UnchainedFields ==
    ASSUME NEW c, c \in CacheType, NEW nodes \in SUBSET Nodes, NEW d, d = Unchained(c, nodes)
    PROVE  /\ d \in CacheType
           /\ KeepsBlocks(c, d) /\ KeepsPages(c, d)
           /\ d.want = c.want /\ d.jc = c.jc /\ d.head = c.head
           /\ d.site = [n \in Nodes |-> IF n \in nodes THEN None ELSE c.site[n]]
           /\ d.target = [n \in Nodes |-> IF n \in nodes THEN None ELSE c.target[n]]
           /\ d.next = [n \in Nodes |-> IF n \in nodes THEN NoNode ELSE c.next[n]]
<1>0. None \in 0 .. Slots
  BY ConstantsAssumption DEF None
<1>. QED  BY <1>0 DEF Unchained, CacheType, KeepsBlocks, KeepsPages

LEMMA SkipNodeFields ==
    ASSUME NEW c, c \in CacheType, ChainInv(c), NEW dest \in Blocks,
           NEW n \in Nodes, NEW d, d = SkipNode(c, n, dest)
    PROVE  /\ d \in CacheType
           /\ KeepsBlocks(c, d) /\ KeepsPages(c, d)
           /\ d.want = c.want /\ d.jc = c.jc
           /\ d.site = c.site /\ d.target = c.target
           /\ d.head = [c.head EXCEPT ![dest] = IF @ = n THEN c.next[n] ELSE @]
           /\ d.next = [m \in Nodes |->
                 IF c.head[dest] # n /\ c.target[m] = dest /\ c.next[m] = n
                 THEN c.next[n] ELSE c.next[m]]
<1>1. Sources(c, dest) = JumpsTo(c, dest)
  BY SourcesAreJumpsTo
<1>2. /\ c.next \in [Nodes -> Nodes \cup {NoNode}]
      /\ c.head \in [Blocks -> Nodes \cup {NoNode}]
  BY DEF CacheType
<1>3. CASE c.head[dest] = n
  <2>1. d = [c EXCEPT !.head[dest] = c.next[n]]
    BY <1>3 DEF SkipNode
  <2>2. d = [c EXCEPT !.head = [c.head EXCEPT ![dest] = c.next[n]]]
    BY <2>1 DEF CacheType
  <2>3. [c.head EXCEPT ![dest] = c.next[n]] \in [Blocks -> Nodes \cup {NoNode}]
    BY <1>2
  <2>4. /\ d \in CacheType /\ d.next = c.next
        /\ d.head = [c.head EXCEPT ![dest] = c.next[n]]
    BY <2>2, <2>3 DEF CacheType
  <2>5. /\ KeepsBlocks(c, d) /\ KeepsPages(c, d)
        /\ d.want = c.want /\ d.jc = c.jc
        /\ d.site = c.site /\ d.target = c.target
    BY <2>1 DEF CacheType, KeepsBlocks, KeepsPages
  <2>. QED  BY <1>2, <1>3, <2>4, <2>5
<1>4. CASE c.head[dest] # n
  <2>1. d = [c EXCEPT !.next = [m \in Nodes |->
              IF m \in Sources(c, dest) /\ c.next[m] = n THEN c.next[n] ELSE c.next[m]]]
    BY <1>4 DEF SkipNode, CacheType
  <2>2. d.next = [m \in Nodes |->
              IF c.target[m] = dest /\ c.next[m] = n THEN c.next[n] ELSE c.next[m]]
    BY <2>1, <1>1 DEF JumpsTo, CacheType
  <2>3. d.next \in [Nodes -> Nodes \cup {NoNode}]
    BY <2>2, <1>2
  <2>4. d \in CacheType /\ d.head = c.head
    BY <2>1, <2>3 DEF CacheType
  <2>5. /\ KeepsBlocks(c, d) /\ KeepsPages(c, d)
        /\ d.want = c.want /\ d.jc = c.jc
        /\ d.site = c.site /\ d.target = c.target
    BY <2>1 DEF CacheType, KeepsBlocks, KeepsPages
  <2>. QED  BY <1>2, <1>4, <2>2, <2>4, <2>5
<1>. QED  BY <1>3, <1>4

(* A jump is taken back, in the native code and in its record. *)
LEMMA Detach ==
    ASSUME NEW c, c \in CacheType, ChainInv(c), NEW n \in Nodes,
           NEW d, d = DetachFromDest(c, n)
    PROVE  /\ d \in CacheType /\ ChainInv(d)
           /\ KeepsBlocks(c, d) /\ KeepsPages(c, d)
           /\ d.want = c.want /\ d.jc = c.jc
           /\ d.target = [c.target EXCEPT ![n] = None]
<1>. DEFINE dest == c.target[n]
<1>. DEFINE s == SkipNode(c, n, dest)
<1>0. /\ c.target \in [Nodes -> 0 .. Slots]
      /\ c.next \in [Nodes -> Nodes \cup {NoNode}]
      /\ c.head \in [Blocks -> Nodes \cup {NoNode}]
      /\ c.site = c.target
  BY DEF CacheType, ChainInv
<1>1. CASE dest = None
  <2>1. d = c
    BY <1>1 DEF DetachFromDest
  <2>. QED  BY <2>1, <1>0, <1>1 DEF KeepsBlocks, KeepsPages
<1>2. CASE dest # None
  <2>1. d = Unchained(s, {n})
    BY <1>2 DEF DetachFromDest
  <2>2. dest \in Blocks
    BY <1>0, <1>2, ConstantsAssumption DEF Blocks, None
  <2>3. /\ s \in CacheType
        /\ KeepsBlocks(c, s) /\ KeepsPages(c, s)
        /\ s.want = c.want /\ s.jc = c.jc
        /\ s.site = c.site /\ s.target = c.target
        /\ s.head = [c.head EXCEPT ![dest] = IF @ = n THEN c.next[n] ELSE @]
        /\ s.next = [m \in Nodes |->
              IF c.head[dest] # n /\ c.target[m] = dest /\ c.next[m] = n
              THEN c.next[n] ELSE c.next[m]]
    BY <2>2, SkipNodeFields
  <2>. HIDE DEF s
  <2>4. /\ d \in CacheType
        /\ KeepsBlocks(s, d) /\ KeepsPages(s, d)
        /\ d.want = s.want /\ d.jc = s.jc /\ d.head = s.head
        /\ d.site = [m \in Nodes |-> IF m \in {n} THEN None ELSE s.site[m]]
        /\ d.target = [m \in Nodes |-> IF m \in {n} THEN None ELSE s.target[m]]
        /\ d.next = [m \in Nodes |-> IF m \in {n} THEN NoNode ELSE s.next[m]]
    BY <2>1, <2>3, UnchainedFields
  <2>5. d.target = [c.target EXCEPT ![n] = None] /\ d.site = d.target
    BY <2>3, <2>4, <1>0
  <2>6. /\ d.head = [c.head EXCEPT ![dest] = IF @ = n THEN c.next[n] ELSE @]
        /\ DOMAIN d.next = Nodes /\ DOMAIN c.next = Nodes
        /\ \A m \in Nodes \ {n} : d.next[m] =
              IF c.head[dest] # n /\ c.target[m] = dest /\ c.next[m] = n
              THEN c.next[n] ELSE c.next[m]
    BY <2>3, <2>4, <1>0
  <2>7. Sorted(d.head[dest], d.next, JumpsTo(d, dest), NodeRank)
    <3>1. JumpsTo(d, dest) = JumpsTo(c, dest) \ {n}
      BY <2>5, <1>0, <1>2 DEF JumpsTo
    <3>2. n \in JumpsTo(c, dest)
      BY DEF JumpsTo
    <3>3. \A m \in JumpsTo(c, dest) \ {n} :
             d.next[m] = IF c.head[dest] # n /\ c.next[m] = n THEN c.next[n] ELSE c.next[m]
      BY <2>6 DEF JumpsTo
    <3>4. d.head[dest] = IF c.head[dest] = n THEN c.next[n] ELSE c.head[dest]
      BY <2>6, <2>2, <1>0
    <3>5. Sorted(c.head[dest], c.next, JumpsTo(c, dest), NodeRank)
      BY <2>2 DEF ChainInv
    <3>. QED  BY <3>1, <3>2, <3>3, <3>4, <3>5, <2>6, NodesRanked, SortedCut
  <2>8. ASSUME NEW e \in Blocks, e # dest
        PROVE  Sorted(d.head[e], d.next, JumpsTo(d, e), NodeRank)
    <3>1. JumpsTo(d, e) = JumpsTo(c, e)
      BY <2>5, <2>8, <1>0, NodesRanked DEF JumpsTo
    <3>2. \A m \in JumpsTo(c, e) : d.next[m] = c.next[m]
      BY <2>6, <2>8 DEF JumpsTo
    <3>3. d.head[e] = c.head[e]
      BY <2>6, <2>8, <1>0
    <3>4. Sorted(c.head[e], c.next, JumpsTo(c, e), NodeRank)
      BY DEF ChainInv
    <3>. QED  BY <3>1, <3>2, <3>3, <3>4, <2>6, SortedSame
  <2>9. ChainInv(d)
    BY <2>5, <2>7, <2>8 DEF ChainInv
  <2>. QED  BY <2>3, <2>4, <2>5, <2>9 DEF KeepsBlocks, KeepsPages
<1>. QED  BY <1>1, <1>2

(* All jumps of a block and all that lead to it are taken back. *)
LEMMA UnlinkAll ==
    ASSUME NEW c, c \in CacheType, ChainInv(c), NEW b \in Blocks,
           NEW d, d = UnlinkChains(c, b)
    PROVE  /\ d \in CacheType /\ ChainInv(d)
           /\ KeepsBlocks(c, d) /\ KeepsPages(c, d)
           /\ d.want = c.want /\ d.jc = c.jc
           /\ d.target = [n \in Nodes |-> IF n[1] = b \/ c.target[n] = b
                                          THEN None ELSE c.target[n]]
<1>. DEFINE c1 == DetachFromDest(c, <<b, 1>>)
            c2 == DetachFromDest(c1, <<b, 2>>)
            S  == Sources(c2, b)
            c3 == Unchained(c2, S)
<1>0. <<b, 1>> \in Nodes /\ <<b, 2>> \in Nodes /\ c.target \in [Nodes -> 0 .. Slots]
  BY DEF Nodes, CacheType
<1>1. /\ c1 \in CacheType /\ ChainInv(c1)
      /\ KeepsBlocks(c, c1) /\ KeepsPages(c, c1)
      /\ c1.want = c.want /\ c1.jc = c.jc
      /\ c1.target = [c.target EXCEPT ![<<b, 1>>] = None]
  BY <1>0, Detach
<1>2. /\ c2 \in CacheType /\ ChainInv(c2)
      /\ KeepsBlocks(c1, c2) /\ KeepsPages(c1, c2)
      /\ c2.want = c1.want /\ c2.jc = c1.jc
      /\ c2.target = [c1.target EXCEPT ![<<b, 2>>] = None]
  <2>. HIDE DEF c1
  <2>. QED  BY <1>0, <1>1, Detach
<1>3. S = {n \in Nodes : c2.target[n] = b}
  <2>. HIDE DEF c2
  <2>1. Sources(c2, b) = JumpsTo(c2, b)
    BY <1>2, SourcesAreJumpsTo
  <2>. QED  BY <2>1 DEF JumpsTo
<1>4. \A n \in Nodes : c2.target[n] = IF n[1] = b THEN None ELSE c.target[n]
  <2>1. \A n \in Nodes : n[1] = b <=> n = <<b, 1>> \/ n = <<b, 2>>
    BY DEF Nodes
  <2>. HIDE DEF c1, c2
  <2>. QED  BY <1>0, <1>1, <1>2, <2>1
<1>5. /\ c3 \in CacheType
      /\ KeepsBlocks(c2, c3) /\ KeepsPages(c2, c3)
      /\ c3.want = c2.want /\ c3.jc = c2.jc /\ c3.head = c2.head
      /\ c3.site = [n \in Nodes |-> IF n \in S THEN None ELSE c2.site[n]]
      /\ c3.target = [n \in Nodes |-> IF n \in S THEN None ELSE c2.target[n]]
      /\ c3.next = [n \in Nodes |-> IF n \in S THEN NoNode ELSE c2.next[n]]
  <2>1. S \in SUBSET Nodes
    BY <1>3
  <2>2. c3 = Unchained(c2, S) /\ c2 \in CacheType
    BY <1>2
  <2>. HIDE DEF c2, S, c3
  <2>. QED  BY <2>1, <2>2, UnchainedFields
<1>6. /\ d \in CacheType
      /\ KeepsBlocks(c3, d) /\ KeepsPages(c3, d)
      /\ d.want = c3.want /\ d.jc = c3.jc
      /\ d.site = c3.site /\ d.target = c3.target /\ d.next = c3.next
      /\ d.head = [c3.head EXCEPT ![b] = NoNode]
  <2>1. d = [c3 EXCEPT !.head[b] = NoNode]
    BY DEF UnlinkChains
  <2>. HIDE DEF c3
  <2>2. c3.head \in [Blocks -> Nodes \cup {NoNode}]
    BY <1>5 DEF CacheType
  <2>3. d = [c3 EXCEPT !.head = [c3.head EXCEPT ![b] = NoNode]]
    BY <2>1, <1>5 DEF CacheType
  <2>4. [c3.head EXCEPT ![b] = NoNode] \in [Blocks -> Nodes \cup {NoNode}]
    BY <2>2
  <2>5. d \in CacheType /\ d.head = [c3.head EXCEPT ![b] = NoNode]
    BY <2>3, <2>4, <1>5 DEF CacheType
  <2>. QED  BY <2>3, <2>5, <1>5 DEF CacheType, KeepsBlocks, KeepsPages
<1>. HIDE DEF c1, c2, S, c3
<1>7. d.target = [n \in Nodes |-> IF n[1] = b \/ c.target[n] = b THEN None ELSE c.target[n]]
  BY <1>3, <1>4, <1>5, <1>6, NodesRanked
<1>8. d.site = d.target
  <2>1. c2.site = c2.target
    BY <1>2 DEF ChainInv
  <2>. QED  BY <2>1, <1>5, <1>6
<1>9. DOMAIN d.next = Nodes /\ DOMAIN c2.next = Nodes
  BY <1>2, <1>6 DEF CacheType
<1>10. ASSUME NEW e \in Blocks PROVE Sorted(d.head[e], d.next, JumpsTo(d, e), NodeRank)
  <2>1. c3.head \in [Blocks -> Nodes \cup {NoNode}]
    BY <1>5 DEF CacheType
  <2>2. CASE e = b
    <3>1. d.head[e] = NoNode
      BY <2>1, <2>2, <1>6
    <3>2. JumpsTo(d, e) = {}
      BY <2>2, <1>7, NodesRanked DEF JumpsTo
    <3>. QED  BY <3>1, <3>2, <1>9, NodesRanked, SortedNone
  <2>3. CASE e # b
    <3>1. d.head[e] = c2.head[e]
      BY <2>1, <2>3, <1>5, <1>6
    <3>2. JumpsTo(d, e) = JumpsTo(c2, e)
      BY <2>3, <1>3, <1>5, <1>6, NodesRanked DEF JumpsTo
    <3>3. \A n \in JumpsTo(c2, e) : d.next[n] = c2.next[n]
      BY <2>3, <1>3, <1>5, <1>6 DEF JumpsTo
    <3>4. Sorted(c2.head[e], c2.next, JumpsTo(c2, e), NodeRank)
      BY <1>2 DEF ChainInv
    <3>. QED  BY <3>1, <3>2, <3>3, <3>4, <1>9, SortedSame
  <2>. QED  BY <2>2, <2>3
<1>. QED  BY <1>1, <1>2, <1>5, <1>6, <1>7, <1>8, <1>10 DEF KeepsBlocks, KeepsPages, ChainInv

-----------------------------------------------------------------------------
(* A block is taken from the lists of its pages *)

(* M says which blocks the list of each page holds. *)
PageLists(c, M) ==
    \A f \in Window :
        /\ M[f] \subseteq OnPage(c, f)
        /\ Sorted(c.heads[f], PageNext(c, f), M[f], BlockRank)

Without(M, b, f) == [g \in Window |-> IF g = f THEN M[g] \ {b} ELSE M[g]]

LEMMA PageFacts ==
    /\ Window \subseteq Frames /\ None \notin Frames
    /\ \A c, f : DOMAIN PageNext(c, f) = Blocks
    /\ \A c, f : \A b \in Blocks : PageLink(c, b, f) \in Nodes
BY ConstantsAssumption DEF PageNext, PageLink, LinkSlot, Nodes

(* A block on two pages has a link for each. *)
LEMMA LinksDiffer ==
    ASSUME NEW c, NEW f, NEW g, f # g, NEW b, b \in OnPage(c, f), b \in OnPage(c, g)
    PROVE  PageLink(c, b, f) # PageLink(c, b, g)
<1>1. LinkSlot(c.blk[b], f) # LinkSlot(c.blk[b], g)
  BY DEF OnPage, LinkSlot
<1>. QED  BY <1>1 DEF PageLink

LEMMA PageListIs ==
    ASSUME NEW c, NEW M, PageLists(c, M), NEW f \in Window
    PROVE  PageList(c, f) = M[f] /\ WalkEnds(c.heads[f], PageNext(c, f))
BY PageFacts, NodesRanked, SortedIsList DEF PageLists, PageList

LEMMA SkipBlockFields ==
    ASSUME NEW c, c \in CacheType, NEW f \in Frames, NEW b \in Blocks,
           NEW after \in 0 .. Slots, NEW d, d = SkipBlock(c, b, f, after)
    PROVE  /\ d \in CacheType
           /\ KeepsBlocks(c, d) /\ KeepsJumps(c, d)
           /\ d.want = c.want /\ d.jc = c.jc
           /\ d.heads = [c.heads EXCEPT ![f] = IF @ = b THEN after ELSE @]
           /\ \A n \in Nodes : d.pageNext[n] =
                 IF /\ c.heads[f] # b /\ n[1] \in PageList(c, f)
                    /\ n = PageLink(c, n[1], f) /\ c.pageNext[n] = b
                 THEN after ELSE c.pageNext[n]
<1>1. /\ c.pageNext \in [Nodes -> 0 .. Slots]
      /\ c.heads \in [Frames -> 0 .. Slots]
  BY DEF CacheType
<1>2. CASE c.heads[f] = b
  <2>1. d = [c EXCEPT !.heads[f] = after]
    BY <1>2 DEF SkipBlock
  <2>2. d = [c EXCEPT !.heads = [c.heads EXCEPT ![f] = after]]
    BY <2>1 DEF CacheType
  <2>3. [c.heads EXCEPT ![f] = after] \in [Frames -> 0 .. Slots]
    BY <1>1
  <2>4. /\ d \in CacheType /\ d.heads = [c.heads EXCEPT ![f] = after]
        /\ d.pageNext = c.pageNext
    BY <2>2, <2>3 DEF CacheType
  <2>5. KeepsBlocks(c, d) /\ KeepsJumps(c, d) /\ d.want = c.want /\ d.jc = c.jc
    BY <2>2 DEF CacheType, KeepsBlocks, KeepsJumps
  <2>. QED  BY <1>1, <1>2, <2>4, <2>5
<1>3. CASE c.heads[f] # b
  <2>. DEFINE link == [n \in Nodes |->
                 IF n[1] \in PageList(c, f) /\ n = PageLink(c, n[1], f) /\ c.pageNext[n] = b
                 THEN after ELSE c.pageNext[n]]
  <2>1. d = [c EXCEPT !.pageNext = link]
    BY <1>3 DEF SkipBlock, CacheType
  <2>2. link \in [Nodes -> 0 .. Slots]
    BY <1>1
  <2>3. \A n \in Nodes : link[n] =
          IF n[1] \in PageList(c, f) /\ n = PageLink(c, n[1], f) /\ c.pageNext[n] = b
          THEN after ELSE c.pageNext[n]
    OBVIOUS
  <2>. HIDE DEF link
  <2>4. d \in CacheType /\ d.heads = c.heads /\ d.pageNext = link
    BY <2>1, <2>2 DEF CacheType
  <2>5. KeepsBlocks(c, d) /\ KeepsJumps(c, d) /\ d.want = c.want /\ d.jc = c.jc
    BY <2>1 DEF CacheType, KeepsBlocks, KeepsJumps
  <2>. QED  BY <1>1, <1>3, <2>3, <2>4, <2>5
<1>. QED  BY <1>2, <1>3

LEMMA SkipListed ==
    ASSUME NEW c, c \in CacheType, NEW M \in [Window -> SUBSET Blocks], PageLists(c, M),
           NEW f \in Window, NEW b \in M[f],
           NEW d, d = SkipBlock(c, b, f, c.pageNext[PageLink(c, b, f)])
    PROVE  /\ d \in CacheType /\ PageLists(d, Without(M, b, f))
           /\ KeepsBlocks(c, d) /\ KeepsJumps(c, d)
           /\ d.want = c.want /\ d.jc = c.jc
<1>. DEFINE after == c.pageNext[PageLink(c, b, f)]
<1>0. f \in Frames /\ b \in Blocks
  BY PageFacts
<1>1. after \in 0 .. Slots
  BY <1>0, PageFacts DEF CacheType
<1>2. PageList(c, f) = M[f]
  BY PageListIs
<1>3. /\ d \in CacheType
      /\ KeepsBlocks(c, d) /\ KeepsJumps(c, d)
      /\ d.want = c.want /\ d.jc = c.jc
      /\ d.heads = [c.heads EXCEPT ![f] = IF @ = b THEN after ELSE @]
      /\ \A n \in Nodes : d.pageNext[n] =
            IF /\ c.heads[f] # b /\ n[1] \in PageList(c, f)
               /\ n = PageLink(c, n[1], f) /\ c.pageNext[n] = b
            THEN after ELSE c.pageNext[n]
  <2>. HIDE DEF after
  <2>1. d = SkipBlock(c, b, f, after)
    BY DEF after
  <2>. QED  BY <1>0, <1>1, <2>1, SkipBlockFields
<1>4. c.heads \in [Frames -> 0 .. Slots]
  BY DEF CacheType
<1>5. d.blk = c.blk
  BY <1>3 DEF KeepsBlocks
<1>6. \A g, m : PageLink(d, m, g) = PageLink(c, m, g)
  BY <1>5 DEF PageLink
<1>7. \A g \in Window : M[g] \subseteq OnPage(c, g) /\ OnPage(d, g) = OnPage(c, g)
  BY <1>5 DEF PageLists, OnPage
<1>8. \A g : \A m \in Blocks : /\ PageNext(c, g)[m] = c.pageNext[PageLink(c, m, g)]
                              /\ PageNext(d, g)[m] = d.pageNext[PageLink(c, m, g)]
  BY <1>6 DEF PageNext
<1>9. Sorted(d.heads[f], PageNext(d, f), M[f] \ {b}, BlockRank)
  <2>1. after = PageNext(c, f)[b]
    BY <1>0, <1>8
  <2>2. d.heads[f] = IF c.heads[f] = b THEN after ELSE c.heads[f]
    BY <1>0, <1>3, <1>4
  <2>3. ASSUME NEW m \in M[f]
        PROVE  PageNext(d, f)[m] = IF c.heads[f] # b /\ PageNext(c, f)[m] = b
                                   THEN after ELSE PageNext(c, f)[m]
    <3>1. m \in Blocks /\ PageLink(c, m, f) \in Nodes
      BY PageFacts
    <3>2. PageLink(c, m, f)[1] = m
      BY DEF PageLink
    <3>. QED  BY <3>1, <3>2, <1>2, <1>3, <1>8
  <2>4. Sorted(c.heads[f], PageNext(c, f), M[f], BlockRank)
    BY DEF PageLists
  <2>. HIDE DEF after
  <2>. QED  BY <2>1, <2>2, <2>3, <2>4, PageFacts, NodesRanked, SortedCut
<1>10. ASSUME NEW g \in Window, g # f
       PROVE  Sorted(d.heads[g], PageNext(d, g), M[g], BlockRank)
  <2>1. d.heads[g] = c.heads[g]
    BY <1>3, <1>4, <1>10, PageFacts
  <2>2. ASSUME NEW m \in M[g] PROVE PageNext(d, g)[m] = PageNext(c, g)[m]
    <3>1. m \in Blocks /\ PageLink(c, m, g) \in Nodes /\ PageLink(c, m, g)[1] = m
      BY PageFacts DEF PageLink
    <3>2. m \in M[f] => PageLink(c, m, g) # PageLink(c, m, f)
      BY <1>7, <1>10, LinksDiffer
    <3>. QED  BY <3>1, <3>2, <1>2, <1>3, <1>8
  <2>3. Sorted(c.heads[g], PageNext(c, g), M[g], BlockRank)
    BY DEF PageLists
  <2>. QED  BY <2>1, <2>2, <2>3, PageFacts, SortedSame
<1>11. PageLists(d, Without(M, b, f))
  BY <1>7, <1>9, <1>10 DEF PageLists, Without
<1>. QED  BY <1>3, <1>11

LEMMA UnlinkListed ==
    ASSUME NEW c, c \in CacheType, NEW M \in [Window -> SUBSET Blocks], PageLists(c, M),
           NEW b \in Blocks, NEW slot \in {1, 2},
           NEW f, f = PageOf(c.blk[b], slot),
           f \in Window => (b \in M[f] <=> ~(slot = 2 /\ ~TwoPages(c.blk[b]))),
           NEW d, d = UnlinkFromPage(c, b, slot)
    PROVE  /\ d \in CacheType /\ PageLists(d, Without(M, b, f))
           /\ KeepsBlocks(c, d) /\ KeepsJumps(c, d)
           /\ d.want = c.want /\ d.jc = c.jc
<1>1. CASE (slot = 2 /\ ~TwoPages(c.blk[b])) \/ f \notin Window
  <2>1. d = c
    BY <1>1 DEF UnlinkFromPage
  <2>2. \A g \in Window : Without(M, b, f)[g] = M[g]
    BY <1>1 DEF Without
  <2>. QED  BY <2>1, <2>2 DEF PageLists, KeepsBlocks, KeepsJumps
<1>2. CASE ~(slot = 2 /\ ~TwoPages(c.blk[b])) /\ f \in Window
  <2>1. PageLink(c, b, f) = <<b, slot>>
    BY <1>2 DEF PageLink, LinkSlot, PageOf, TwoPages
  <2>2. d = SkipBlock(c, b, f, c.pageNext[PageLink(c, b, f)])
    BY <1>2, <2>1 DEF UnlinkFromPage
  <2>. QED  BY <1>2, <2>2, SkipListed
<1>. QED  BY <1>1, <1>2

-----------------------------------------------------------------------------
(* A block is removed *)

LEMMA BlockInvSame ==
    ASSUME NEW c, NEW d, BlockInv(c), d \in CacheType,
           KeepsBlocks(c, d), KeepsJumps(c, d), d.want = c.want
    PROVE  BlockInv(d) /\ Live(d) = Live(c)
<1>1. Live(d) = Live(c) /\ \A e : JumpsTo(d, e) = JumpsTo(c, e)
  BY DEF KeepsBlocks, KeepsJumps, Live, JumpsTo
<1>2. PlaceInv(d) /\ IndexInv(d) /\ WantInv(d)
  BY <1>1 DEF BlockInv, KeepsBlocks, PlaceInv, IndexInv, WantInv
<1>3. JumpInv(d) /\ ChainInv(d)
  BY <1>1 DEF BlockInv, KeepsBlocks, KeepsJumps, JumpInv, ChainInv
<1>. QED  BY <1>2, <1>3, <1>1 DEF BlockInv

LEMMA PageInvSame ==
    ASSUME NEW c, NEW d, KeepsBlocks(c, d), KeepsPages(c, d)
    PROVE  /\ \A f : PageNext(d, f) = PageNext(c, f) /\ OnPage(d, f) = OnPage(c, f)
           /\ PageInv(c) => PageInv(d)
           /\ \A M : PageLists(c, M) => PageLists(d, M)
<1>1. \A f : PageNext(d, f) = PageNext(c, f) /\ OnPage(d, f) = OnPage(c, f)
  BY DEF KeepsBlocks, KeepsPages, PageNext, PageLink, OnPage
<1>. QED  BY <1>1 DEF KeepsPages, PageInv, PageLists

(* Only a live block is on a page. *)
LEMMA OnPageLive ==
    ASSUME NEW c, BlockInv(c), NEW f \in Window
    PROVE  OnPage(c, f) \subseteq Live(c)
<1>1. f # None
  BY PageFacts
<1>. QED  BY <1>1 DEF BlockInv, PlaceInv, OnPage, Unplaced

LEMMA LiveFacts ==
    ASSUME NEW c, c \in CacheType, NEW b \in Live(c)
    PROVE  /\ b \in Blocks /\ c.blk[b] \in BlockRecord
           /\ c.blk[b].owner \in Owners /\ c.blk[b].va \in Va
BY DEF CacheType, BlockRecord, Live

(* The jump cache loses the entries of some addresses. *)
LEMMA ClearFields ==
    ASSUME NEW c, c \in CacheType, NEW tags, NEW d, d = ClearEntries(c, tags)
    PROVE  /\ d \in CacheType
           /\ KeepsBlocks(c, d) /\ KeepsJumps(c, d) /\ KeepsPages(c, d)
           /\ d.want = c.want
           /\ \A i \in JcSlots : d.jc[i] = IF c.jc[i].va \in tags
                                           THEN [va |-> 0, blk |-> None] ELSE c.jc[i]
<1>. DEFINE jc == [i \in JcSlots |-> IF c.jc[i].va \in tags
                                    THEN [va |-> 0, blk |-> None] ELSE c.jc[i]]
<1>1. c.jc \in [JcSlots -> [va : Va, blk : 0 .. Slots]]
  BY DEF CacheType
<1>2. [va |-> 0, blk |-> None] \in [va : Va, blk : 0 .. Slots]
  <2>1. 0 \in Va
    <3>1. NumPages * PageWords \in Nat /\ NumPages * PageWords > 0
      BY ConstantsAssumption, SMT
    <3>. QED  BY <3>1 DEF Va, NoVa
  <2>2. None \in 0 .. Slots
    BY ConstantsAssumption DEF None
  <2>. QED  BY <2>1, <2>2
<1>3. jc \in [JcSlots -> [va : Va, blk : 0 .. Slots]]
  BY <1>1, <1>2
<1>4. \A i \in JcSlots : jc[i] = IF c.jc[i].va \in tags
                                 THEN [va |-> 0, blk |-> None] ELSE c.jc[i]
  OBVIOUS
<1>5. d = [c EXCEPT !.jc = jc]
  BY DEF ClearEntries, CacheType
<1>. HIDE DEF jc
<1>6. d \in CacheType /\ d.jc = jc
  BY <1>3, <1>5 DEF CacheType
<1>7. /\ KeepsBlocks(c, d) /\ KeepsJumps(c, d) /\ KeepsPages(c, d)
      /\ d.want = c.want
  BY <1>5 DEF CacheType, KeepsBlocks, KeepsJumps, KeepsPages
<1>. QED  BY <1>4, <1>6, <1>7

LEMMA RemoveNodeFields ==
    ASSUME NEW c, c \in CacheType, ChainInv(c), NEW b \in Live(c),
           NEW d, d = RemoveNode(c, b)
    PROVE  /\ d \in CacheType /\ ChainInv(d) /\ KeepsPages(c, d)
           /\ d.want = c.want /\ d.top = c.top /\ d.populated = c.populated
           /\ \A n \in Nodes : d.target[n] = IF n[1] = b \/ c.target[n] = b
                                             THEN None ELSE c.target[n]
           /\ d.index = [c.index EXCEPT ![c.blk[b].owner] = [@ EXCEPT ![c.blk[b].va] = None]]
           /\ d.blk = [c.blk EXCEPT ![b] = Unplaced]
           /\ \A i \in JcSlots : d.jc[i] = IF c.jc[i].va = c.blk[b].va
                                           THEN [va |-> 0, blk |-> None] ELSE c.jc[i]
<1>. DEFINE rec == c.blk[b]
            u   == UnlinkChains(c, b)
            cut == ClearJcSlot(u, rec.va)
            row == [c.index[rec.owner] EXCEPT ![rec.va] = None]
            idx == [c.index EXCEPT ![rec.owner] = row]
            bk  == [c.blk EXCEPT ![b] = Unplaced]
<1>0. b \in Blocks /\ rec \in BlockRecord /\ rec.owner \in Owners /\ rec.va \in Va
  BY LiveFacts
<1>1. /\ u \in CacheType /\ ChainInv(u)
      /\ KeepsBlocks(c, u) /\ KeepsPages(c, u)
      /\ u.want = c.want /\ u.jc = c.jc
      /\ u.target = [n \in Nodes |-> IF n[1] = b \/ c.target[n] = b
                                     THEN None ELSE c.target[n]]
  BY <1>0, UnlinkAll
<1>2. /\ cut \in CacheType
      /\ KeepsBlocks(u, cut) /\ KeepsJumps(u, cut) /\ KeepsPages(u, cut)
      /\ cut.want = u.want
      /\ \A i \in JcSlots : cut.jc[i] = IF u.jc[i].va \in {rec.va}
                                        THEN [va |-> 0, blk |-> None] ELSE u.jc[i]
  <2>1. cut = ClearEntries(u, {rec.va})
    BY DEF ClearJcSlot
  <2>. HIDE DEF u, cut
  <2>. QED  BY <1>1, <2>1, ClearFields
<1>3. d = [cut EXCEPT !.index = idx, !.blk = bk]
  <2>1. d = [cut EXCEPT !.index[rec.owner][rec.va] = None, !.blk[b] = Unplaced]
    BY DEF RemoveNode
  <2>2. cut.index = c.index /\ cut.blk = c.blk
    BY <1>1, <1>2 DEF KeepsBlocks
  <2>. HIDE DEF cut
  <2>. QED  BY <2>1, <2>2, <1>2 DEF CacheType
<1>4. c.index \in [Owners -> [Va -> 0 .. Slots]] /\ c.blk \in [Blocks -> BlockRecord]
  BY DEF CacheType
<1>5. 0 \in Va /\ 0 \in Words /\ None \in 0 .. Slots
  <2>1. NumPages * PageWords \in Nat /\ NumPages * PageWords > 0
    BY ConstantsAssumption, SMT
  <2>. QED  BY <2>1, ConstantsAssumption DEF Va, NoVa, Words, None
<1>6. idx \in [Owners -> [Va -> 0 .. Slots]]
  BY <1>0, <1>4, <1>5
<1>7. bk \in [Blocks -> BlockRecord]
  <2>1. Unplaced \in BlockRecord
    BY <1>5 DEF Unplaced, BlockRecord
  <2>. QED  BY <1>4, <2>1
<1>. HIDE DEF u, cut, idx, bk
<1>8. d \in CacheType /\ d.index = idx /\ d.blk = bk
  BY <1>2, <1>3, <1>6, <1>7 DEF CacheType
<1>9. /\ KeepsJumps(cut, d) /\ KeepsPages(cut, d)
      /\ d.want = cut.want /\ d.top = cut.top /\ d.populated = cut.populated
      /\ d.jc = cut.jc
  BY <1>2, <1>3 DEF CacheType, KeepsJumps, KeepsPages
<1>10. ChainInv(d) /\ d.target = u.target
  <2>1. \A e : JumpsTo(d, e) = JumpsTo(u, e)
    BY <1>2, <1>9 DEF KeepsJumps, JumpsTo
  <2>. QED  BY <2>1, <1>1, <1>2, <1>9 DEF KeepsJumps, ChainInv
<1>11. d.index = [c.index EXCEPT ![rec.owner] = [@ EXCEPT ![rec.va] = None]]
  BY <1>8, <1>0, <1>4 DEF idx
<1>. QED  BY <1>1, <1>2, <1>8, <1>9, <1>10, <1>11 DEF KeepsBlocks, KeepsPages, bk

(* What is left when b is removed. *)
Removed(c, d, b) ==
    /\ CacheInv(d)
    /\ d.blk = [c.blk EXCEPT ![b] = Unplaced]
    /\ Live(d) = Live(c) \ {b}
    /\ d.top = c.top
    /\ d.index[c.blk[b].owner][c.blk[b].va] = None
    /\ \A i \in JcSlots : d.jc[i] = IF c.jc[i].va = c.blk[b].va
                                    THEN [va |-> 0, blk |-> None] ELSE c.jc[i]

LEMMA RemoveNodeInv ==
    ASSUME NEW c, BlockInv(c), NEW b \in Live(c),
           PageLists(c, [f \in Window |-> OnPage(c, f) \ {b}]),
           NEW d, d = RemoveNode(c, b)
    PROVE  Removed(c, d, b)
<1>. DEFINE rec == c.blk[b]
<1>0. /\ c \in CacheType /\ ChainInv(c)
      /\ b \in Blocks /\ rec.owner \in Owners /\ rec.va \in Va
  BY LiveFacts DEF BlockInv
<1>1. /\ d \in CacheType /\ ChainInv(d) /\ KeepsPages(c, d)
      /\ d.want = c.want /\ d.top = c.top /\ d.populated = c.populated
      /\ \A n \in Nodes : d.target[n] = IF n[1] = b \/ c.target[n] = b
                                        THEN None ELSE c.target[n]
      /\ d.index = [c.index EXCEPT ![rec.owner] = [@ EXCEPT ![rec.va] = None]]
      /\ d.blk = [c.blk EXCEPT ![b] = Unplaced]
      /\ \A i \in JcSlots : d.jc[i] = IF c.jc[i].va = rec.va
                                      THEN [va |-> 0, blk |-> None] ELSE c.jc[i]
  BY <1>0, RemoveNodeFields
<1>2. c.index \in [Owners -> [Va -> 0 .. Slots]] /\ c.blk \in [Blocks -> BlockRecord]
  BY <1>0 DEF CacheType
<1>3. \A o \in Owners, va \in Va :
         d.index[o][va] = IF o = rec.owner /\ va = rec.va THEN None ELSE c.index[o][va]
  BY <1>0, <1>1, <1>2
<1>4. \A x \in Blocks : d.blk[x] = IF x = b THEN Unplaced ELSE c.blk[x]
  BY <1>1, <1>2
<1>5. Live(d) = Live(c) \ {b}
  BY <1>4 DEF Live, Unplaced
<1>6. PlaceInv(d)
  BY <1>1, <1>4, <1>5 DEF BlockInv, PlaceInv, Live
<1>7. IndexInv(d)
  <2>1. ASSUME NEW o \in Owners, NEW va \in Va, d.index[o][va] # None
        PROVE  d.blk[d.index[o][va]].owner = o /\ d.blk[d.index[o][va]].va = va
    <3>. DEFINE x == c.index[o][va]
    <3>1. d.index[o][va] = x /\ ~(o = rec.owner /\ va = rec.va)
      BY <1>3, <2>1
    <3>2. x \in Blocks
      BY <1>2, <2>1, <3>1, ConstantsAssumption DEF Blocks, None
    <3>3. c.blk[x].owner = o /\ c.blk[x].va = va
      BY <2>1, <3>1 DEF BlockInv, IndexInv
    <3>. QED  BY <1>4, <3>1, <3>2, <3>3
  <2>2. ASSUME NEW x \in Live(d) PROVE d.index[d.blk[x].owner][d.blk[x].va] = x
    <3>1. x \in Live(c) /\ x # b /\ d.blk[x] = c.blk[x]
      BY <1>4, <1>5 DEF Live
    <3>2. c.index[c.blk[x].owner][c.blk[x].va] = x /\ c.index[rec.owner][rec.va] = b
      BY <3>1 DEF BlockInv, IndexInv
    <3>3. c.blk[x].owner \in Owners /\ c.blk[x].va \in Va
      BY <3>1, <1>0, LiveFacts
    <3>. QED  BY <1>3, <3>1, <3>2, <3>3
  <2>3. ASSUME NEW o \in Asids \ d.populated, NEW va \in Va PROVE d.index[o][va] = None
    <3>1. c.index[o][va] = None /\ o \in Owners
      BY <1>1 DEF BlockInv, IndexInv, Owners
    <3>. QED  BY <1>3, <3>1
  <2>. QED  BY <2>1, <2>2, <2>3 DEF IndexInv
<1>8. WantInv(d)
  BY <1>1, <1>4, <1>5 DEF BlockInv, WantInv, Live
<1>9. JumpInv(d)
  <2>1. ASSUME NEW n \in Nodes, d.target[n] # None
        PROVE  /\ n[1] \in Live(d) /\ d.target[n] \in Live(d)
               /\ d.want[n] = d.blk[d.target[n]].va
               /\ d.blk[n[1]].owner = d.blk[d.target[n]].owner
               /\ d.blk[n[1]].frame = d.blk[d.target[n]].frame
    <3>1. n[1] # b /\ d.target[n] = c.target[n] /\ c.target[n] # b /\ c.target[n] # None
      BY <1>1, <2>1
    <3>2. /\ n[1] \in Live(c) /\ c.target[n] \in Live(c)
          /\ c.want[n] = c.blk[c.target[n]].va
          /\ c.blk[n[1]].owner = c.blk[c.target[n]].owner
          /\ c.blk[n[1]].frame = c.blk[c.target[n]].frame
      BY <3>1 DEF BlockInv, JumpInv
    <3>3. /\ d.blk[n[1]] = c.blk[n[1]] /\ d.blk[c.target[n]] = c.blk[c.target[n]]
      BY <1>4, <3>1, <3>2 DEF Live
    <3>. QED  BY <1>1, <1>5, <3>1, <3>2, <3>3
  <2>. QED  BY <2>1 DEF JumpInv
<1>10. PageInv(d)
  <2>. SUFFICES ASSUME NEW f \in Window
                PROVE  Sorted(d.heads[f], PageNext(d, f), OnPage(d, f), BlockRank)
    BY DEF PageInv
  <2>. DEFINE M == OnPage(c, f) \ {b}
  <2>1. OnPage(d, f) = M
    <3>1. f # None
      BY PageFacts
    <3>. QED  BY <3>1, <1>0, <1>4 DEF OnPage, Unplaced
  <2>2. \A x \in M : PageNext(d, f)[x] = PageNext(c, f)[x]
    BY <1>1, <1>4 DEF OnPage, PageNext, PageLink, KeepsPages
  <2>3. d.heads[f] = c.heads[f]
    BY <1>1 DEF KeepsPages
  <2>4. Sorted(c.heads[f], PageNext(c, f), M, BlockRank)
    BY DEF PageLists
  <2>. HIDE DEF M
  <2>. QED  BY <2>1, <2>2, <2>3, <2>4, PageFacts, SortedSame
<1>11. d.index[rec.owner][rec.va] = None
  BY <1>0, <1>3
<1>. QED  BY <1>1, <1>5, <1>6, <1>7, <1>8, <1>9, <1>10, <1>11
          DEF CacheInv, BlockInv, Removed

(* RemoveBlock: the block is cut from the lists of its pages first. *)
LEMMA RemoveBlockInv ==
    ASSUME NEW c, CacheInv(c), NEW b \in Live(c), NEW d, d = RemoveBlock(c, b)
    PROVE  Removed(c, d, b)
<1>. DEFINE f1 == c.blk[b].frame
            f2 == c.blk[b].frame2
            M0 == [f \in Window |-> OnPage(c, f)]
            M1 == Without(M0, b, f1)
            M2 == Without(M1, b, f2)
            c1 == UnlinkFromPage(c, b, 1)
            c2 == UnlinkFromPage(c1, b, 2)
<1>0. c \in CacheType /\ BlockInv(c) /\ b \in Blocks
  BY LiveFacts DEF CacheInv, BlockInv
<1>1. M0 \in [Window -> SUBSET Blocks] /\ PageLists(c, M0)
  BY DEF OnPage, CacheInv, PageInv, PageLists
<1>2. M1 \in [Window -> SUBSET Blocks]
  BY <1>1 DEF Without
<1>3. \A f \in Window : b \in M0[f] <=> f \in {f1, f2}
  BY <1>0 DEF OnPage
<1>4. \A f \in Window : b \in M1[f] <=> f = f2 /\ f # f1
  BY <1>3 DEF Without
<1>5. M2 = [f \in Window |-> OnPage(c, f) \ {b}]
  BY <1>3 DEF Without
<1>6. /\ c1 \in CacheType /\ PageLists(c1, M1)
      /\ KeepsBlocks(c, c1) /\ KeepsJumps(c, c1)
      /\ c1.want = c.want /\ c1.jc = c.jc
  <2>1. f1 = PageOf(c.blk[b], 1)
    BY DEF PageOf
  <2>2. f1 \in Window => (b \in M0[f1] <=> ~(1 = 2 /\ ~TwoPages(c.blk[b])))
    BY <1>3
  <2>. HIDE DEF M0, f1
  <2>. QED  BY <1>0, <1>1, <2>1, <2>2, UnlinkListed
<1>7. c1.blk = c.blk
  BY <1>6 DEF KeepsBlocks
<1>8. /\ c2 \in CacheType /\ PageLists(c2, M2)
      /\ KeepsBlocks(c1, c2) /\ KeepsJumps(c1, c2)
      /\ c2.want = c1.want /\ c2.jc = c1.jc
  <2>1. f2 = PageOf(c1.blk[b], 2)
    BY <1>7 DEF PageOf
  <2>2. f2 \in Window => (b \in M1[f2] <=> ~(2 = 2 /\ ~TwoPages(c1.blk[b])))
    BY <1>4, <1>7, PageFacts DEF TwoPages
  <2>. HIDE DEF M1, f2, c1
  <2>. QED  BY <1>0, <1>2, <1>6, <2>1, <2>2, UnlinkListed
<1>9. d = RemoveNode(c2, b)
  BY DEF RemoveBlock
<1>. HIDE DEF c1, c2, M0, M1, M2
<1>10. KeepsBlocks(c, c2) /\ KeepsJumps(c, c2) /\ c2.want = c.want /\ c2.jc = c.jc
  BY <1>6, <1>8 DEF KeepsBlocks, KeepsJumps
<1>11. BlockInv(c2) /\ Live(c2) = Live(c)
  BY <1>0, <1>8, <1>10, BlockInvSame
<1>12. \A f : OnPage(c2, f) = OnPage(c, f)
  BY <1>10 DEF KeepsBlocks, OnPage
<1>13. PageLists(c2, [f \in Window |-> OnPage(c2, f) \ {b}])
  BY <1>5, <1>8, <1>12
<1>14. Removed(c2, d, b)
  BY <1>9, <1>11, <1>13, RemoveNodeInv
<1>. QED  BY <1>10, <1>11, <1>14 DEF Removed, KeepsBlocks

(* RemoveRange: the block comes off the list that is walked, then off the *)
(* other one.                                                              *)
LEMMA RemoveFirstInv ==
    ASSUME NEW c, CacheInv(c), NEW f \in Window, c.heads[f] # None,
           NEW d, d = RemoveFirst(c, f)
    PROVE  c.heads[f] \in OnPage(c, f) /\ Removed(c, d, c.heads[f])
<1>. DEFINE b  == c.heads[f]
            s  == LinkSlot(c.blk[b], f)
            g  == PageOf(c.blk[b], 3 - s)
            M0 == [h \in Window |-> OnPage(c, h)]
            M1 == Without(M0, b, f)
            M2 == Without(M1, b, g)
            c1 == SkipBlock(c, b, f, c.pageNext[PageLink(c, b, f)])
            c2 == UnlinkFromPage(c1, b, 3 - s)
<1>0. c \in CacheType /\ BlockInv(c)
  BY DEF CacheInv, BlockInv
<1>1. M0 \in [Window -> SUBSET Blocks] /\ PageLists(c, M0)
  BY DEF OnPage, CacheInv, PageInv, PageLists
<1>2. b \in Blocks
  <2>1. b \in 0 .. Slots
    BY <1>0, PageFacts DEF CacheType
  <2>. QED  BY <2>1, ConstantsAssumption DEF Blocks, None
<1>3. b \in OnPage(c, f)
  <2>1. Sorted(b, PageNext(c, f), OnPage(c, f), BlockRank)
    BY DEF CacheInv, PageInv
  <2>2. b \in DOMAIN PageNext(c, f)
    BY <1>2, PageFacts
  <2>. HIDE DEF b
  <2>. QED  BY <2>1, <2>2 DEF Sorted, Highest
<1>4. b \in Live(c)
  BY <1>0, <1>3, OnPageLive
<1>5. M1 \in [Window -> SUBSET Blocks]
  BY <1>1 DEF Without
<1>6. \A h \in Window : b \in M0[h] <=> h \in {c.blk[b].frame, c.blk[b].frame2}
  BY <1>2 DEF OnPage
<1>7. s \in {1, 2} /\ 3 - s \in {1, 2}
  BY DEF LinkSlot
<1>8. {f, g} = {c.blk[b].frame, c.blk[b].frame2}
  BY <1>3 DEF OnPage, LinkSlot, PageOf
<1>9. \A h \in Window : b \in M1[h] <=> h = g /\ h # f
  BY <1>6, <1>8 DEF Without
<1>10. M2 = [h \in Window |-> OnPage(c, h) \ {b}]
  BY <1>6, <1>8 DEF Without
<1>11. /\ c1 \in CacheType /\ PageLists(c1, M1)
       /\ KeepsBlocks(c, c1) /\ KeepsJumps(c, c1)
       /\ c1.want = c.want /\ c1.jc = c.jc
  <2>1. b \in M0[f]
    BY <1>3
  <2>. HIDE DEF M0, b
  <2>. QED  BY <1>0, <1>1, <2>1, SkipListed
<1>12. c1.blk = c.blk
  BY <1>11 DEF KeepsBlocks
<1>13. /\ c2 \in CacheType /\ PageLists(c2, M2)
       /\ KeepsBlocks(c1, c2) /\ KeepsJumps(c1, c2)
       /\ c2.want = c1.want /\ c2.jc = c1.jc
  <2>1. g = PageOf(c1.blk[b], 3 - s)
    BY <1>12
  <2>2. g \in Window => (b \in M1[g] <=> ~(3 - s = 2 /\ ~TwoPages(c1.blk[b])))
    <3>1. CASE c.blk[b].frame = f
      <4>1. s = 1 /\ g = c.blk[b].frame2
        BY <3>1 DEF LinkSlot, PageOf
      <4>2. g \in Window => (TwoPages(c1.blk[b]) <=> g # f)
        BY <3>1, <4>1, <1>12, PageFacts DEF TwoPages
      <4>. HIDE DEF b, s, g, M1, c1
      <4>. QED  BY <4>1, <4>2, <1>9
    <3>2. CASE c.blk[b].frame # f
      <4>1. s = 2 /\ g # f
        BY <3>2 DEF LinkSlot, PageOf
      <4>. HIDE DEF b, s, g, M1, c1
      <4>. QED  BY <4>1, <1>9
    <3>. QED  BY <3>1, <3>2
  <2>. DEFINE slot == 3 - s
  <2>3. slot \in {1, 2}
    BY <1>7
  <2>4. c2 = UnlinkFromPage(c1, b, slot) /\ g = PageOf(c1.blk[b], slot)
    BY <2>1
  <2>5. g \in Window => (b \in M1[g] <=> ~(slot = 2 /\ ~TwoPages(c1.blk[b])))
    BY <2>2
  <2>. HIDE DEF M1, b, g, c1, c2, slot
  <2>. QED  BY <1>2, <1>5, <1>11, <2>3, <2>4, <2>5, UnlinkListed
<1>14. d = RemoveNode(c2, b)
  <2>1. c1 = [c EXCEPT !.heads[f] = c.pageNext[PageLink(c, b, f)]]
    BY DEF SkipBlock
  <2>. QED  BY <2>1 DEF RemoveFirst
<1>. HIDE DEF b, g, s, c1, c2, M0, M1, M2
<1>15. KeepsBlocks(c, c2) /\ KeepsJumps(c, c2) /\ c2.want = c.want /\ c2.jc = c.jc
  BY <1>11, <1>13 DEF KeepsBlocks, KeepsJumps
<1>16. BlockInv(c2) /\ Live(c2) = Live(c)
  BY <1>0, <1>13, <1>15, BlockInvSame
<1>17. \A h : OnPage(c2, h) = OnPage(c, h)
  BY <1>15 DEF KeepsBlocks, OnPage
<1>18. PageLists(c2, [h \in Window |-> OnPage(c2, h) \ {b}])
  BY <1>10, <1>13, <1>17
<1>19. Removed(c2, d, b)
  BY <1>4, <1>14, <1>16, <1>18, RemoveNodeInv
<1>20. Removed(c, d, b)
  BY <1>15, <1>16, <1>19 DEF Removed, KeepsBlocks
<1>. QED  BY <1>3, <1>20 DEF b

-----------------------------------------------------------------------------
(* The arena is flushed *)

LEMMA SmallFacts ==
    /\ 0 \in Va /\ 0 \in Words /\ None \in 0 .. Slots /\ NoVa \notin Va
    /\ Blocks = (0 .. Slots) \ {None} /\ Blocks \subseteq Nat
<1>1. NumPages * PageWords \in Nat /\ NumPages * PageWords > 0
  BY ConstantsAssumption, SMT
<1>. QED  BY <1>1, ConstantsAssumption DEF Va, NoVa, Words, None, Blocks

LEMMA EmptyType == EmptyCache \in CacheType
<1>1. Unplaced \in BlockRecord
  BY SmallFacts DEF Unplaced, BlockRecord
<1>2. [va |-> 0, blk |-> None] \in [va : Va, blk : 0 .. Slots]
  BY SmallFacts
<1>3. 0 \in 0 .. Slots
  BY SmallFacts DEF None
<1>. QED  BY <1>1, <1>2, <1>3, SmallFacts DEF EmptyCache, CacheType

(* A cache without blocks. *)
LEMMA BlankInv ==
    ASSUME NEW d, d \in CacheType,
           \A b \in Blocks : d.blk[b] = Unplaced /\ d.head[b] = NoNode,
           \A n \in Nodes : d.target[n] = None /\ d.want[n] = NoVa,
           d.site = d.target,
           \A f \in Frames : d.heads[f] = None,
           \A o \in Owners, va \in Va : d.index[o][va] = None
    PROVE  CacheInv(d) /\ Live(d) = {}
<1>1. Live(d) = {}
  BY DEF Live, Unplaced
<1>2. \A b \in Blocks : JumpsTo(d, b) = {}
  BY NodesRanked DEF JumpsTo
<1>3. ChainInv(d)
  <2>1. DOMAIN d.next = Nodes
    BY DEF CacheType
  <2>2. ASSUME NEW b \in Blocks PROVE Sorted(d.head[b], d.next, JumpsTo(d, b), NodeRank)
    <3>1. d.head[b] \notin DOMAIN d.next /\ JumpsTo(d, b) = {}
      BY <1>2, <2>1, NodesRanked
    <3>. QED  BY <3>1, SortedNone
  <2>. QED  BY <2>2 DEF ChainInv
<1>4. PageInv(d)
  <2>1. \A f \in Window : OnPage(d, f) = {}
    BY PageFacts DEF OnPage, Unplaced
  <2>2. \A f \in Window : d.heads[f] \notin DOMAIN PageNext(d, f)
    BY PageFacts, NodesRanked
  <2>. QED  BY <2>1, <2>2, SortedNone DEF PageInv
<1>5. PlaceInv(d) /\ WantInv(d) /\ JumpInv(d)
  BY <1>1 DEF PlaceInv, WantInv, JumpInv
<1>6. IndexInv(d)
  BY <1>1 DEF IndexInv, Owners
<1>. QED  BY <1>1, <1>3, <1>4, <1>5, <1>6 DEF CacheInv, BlockInv

LEMMA EmptyInv == CacheInv(EmptyCache) /\ Live(EmptyCache) = {}
BY EmptyType, BlankInv DEF EmptyCache

LEMMA FlushAllInv ==
    ASSUME NEW c, CacheInv(c), NEW d, d = FlushAll(c)
    PROVE  /\ CacheInv(d) /\ Live(d) = {} /\ d.top = 0
           /\ \A i \in JcSlots : d.jc[i].blk = None
           /\ \A o \in Owners, va \in Va : d.index[o][va] = None
<1>. DEFINE idx == [o \in Owners |-> IF o = Global \/ o \in c.populated
                                     THEN [va \in Va |-> None] ELSE c.index[o]]
<1>1. c.index \in [Owners -> [Va -> 0 .. Slots]]
  BY DEF CacheInv, BlockInv, CacheType
<1>2. idx \in [Owners -> [Va -> 0 .. Slots]]
  BY <1>1, SmallFacts
<1>3. \A o \in Owners, va \in Va : idx[o][va] = None
  BY DEF CacheInv, BlockInv, IndexInv, Owners
<1>4. d = [EmptyCache EXCEPT !.index = idx]
  BY DEF FlushAll, EmptyCache
<1>. HIDE DEF idx
<1>5. d \in CacheType /\ d.index = idx
  BY <1>2, <1>4, EmptyType DEF CacheType
<1>6. /\ d.blk = EmptyCache.blk /\ d.head = EmptyCache.head
      /\ d.target = EmptyCache.target /\ d.want = EmptyCache.want
      /\ d.site = EmptyCache.site /\ d.heads = EmptyCache.heads
      /\ d.top = EmptyCache.top /\ d.jc = EmptyCache.jc
  BY <1>4 DEF EmptyCache
<1>7. /\ \A b \in Blocks : d.blk[b] = Unplaced /\ d.head[b] = NoNode
      /\ \A n \in Nodes : d.target[n] = None /\ d.want[n] = NoVa
      /\ d.site = d.target
      /\ \A f \in Frames : d.heads[f] = None
      /\ d.top = 0 /\ \A i \in JcSlots : d.jc[i].blk = None
  BY <1>6 DEF EmptyCache
<1>. QED  BY <1>3, <1>5, <1>7, BlankInv

-----------------------------------------------------------------------------
(* A block is placed *)

With(M, b, f) == [g \in Window |-> IF g = f THEN M[g] \cup {b} ELSE M[g]]

LEMMA PushListed ==
    ASSUME NEW c, c \in CacheType, NEW M \in [Window -> SUBSET Blocks], PageLists(c, M),
           NEW b \in Blocks, NEW slot \in {1, 2},
           NEW f, f = PageOf(c.blk[b], slot),
           f \in Window => /\ PageLink(c, b, f) = <<b, slot>>
                           /\ b \notin M[f] /\ \A m \in M[f] : m < b,
           NEW d, d = LinkIntoPage(c, b, slot)
    PROVE  /\ d \in CacheType /\ PageLists(d, With(M, b, f))
           /\ KeepsBlocks(c, d) /\ KeepsJumps(c, d)
           /\ d.want = c.want /\ d.jc = c.jc
<1>1. CASE f \notin Window
  <2>1. d = c
    BY <1>1 DEF LinkIntoPage
  <2>2. \A g \in Window : With(M, b, f)[g] = M[g]
    BY <1>1 DEF With
  <2>. QED  BY <2>1, <2>2 DEF PageLists, KeepsBlocks, KeepsJumps
<1>2. CASE f \in Window
  <2>. DEFINE pn == [c.pageNext EXCEPT ![<<b, slot>>] = c.heads[f]]
              hs == [c.heads EXCEPT ![f] = b]
  <2>0. /\ c.pageNext \in [Nodes -> 0 .. Slots] /\ c.heads \in [Frames -> 0 .. Slots]
        /\ f \in Frames /\ <<b, slot>> \in Nodes /\ b \in 0 .. Slots
    BY <1>2, PageFacts, SmallFacts DEF CacheType, Nodes
  <2>1. d = [c EXCEPT !.pageNext = pn, !.heads = hs]
    BY <1>2 DEF LinkIntoPage, CacheType
  <2>2. pn \in [Nodes -> 0 .. Slots] /\ hs \in [Frames -> 0 .. Slots]
    BY <2>0
  <2>3. \A n \in Nodes : pn[n] = IF n = <<b, slot>> THEN c.heads[f] ELSE c.pageNext[n]
    BY <2>0
  <2>4. \A g \in Frames : hs[g] = IF g = f THEN b ELSE c.heads[g]
    BY <2>0
  <2>. HIDE DEF pn, hs
  <2>5. d \in CacheType /\ d.pageNext = pn /\ d.heads = hs
    BY <2>1, <2>2 DEF CacheType
  <2>6. KeepsBlocks(c, d) /\ KeepsJumps(c, d) /\ d.want = c.want /\ d.jc = c.jc
    BY <2>1 DEF CacheType, KeepsBlocks, KeepsJumps
  <2>7. d.blk = c.blk
    BY <2>6 DEF KeepsBlocks
  <2>8. \A g : \A m \in Blocks : /\ PageNext(c, g)[m] = c.pageNext[PageLink(c, m, g)]
                                 /\ PageNext(d, g)[m] = d.pageNext[PageLink(c, m, g)]
    BY <2>7 DEF PageNext, PageLink
  <2>9. \A g \in Window : M[g] \subseteq OnPage(c, g) /\ OnPage(d, g) = OnPage(c, g)
    BY <2>7 DEF PageLists, OnPage
  <2>10. b \in OnPage(c, f)
    BY DEF OnPage, PageOf
  <2>11. Sorted(d.heads[f], PageNext(d, f), M[f] \cup {b}, BlockRank)
    <3>1. \A m \in M[f] : BlockRank[m] < BlockRank[b]
      BY <1>2, NodesRanked DEF BlockRank
    <3>2. PageNext(d, f)[b] = c.heads[f]
      BY <1>2, <2>0, <2>3, <2>5, <2>8
    <3>3. ASSUME NEW m \in M[f] PROVE PageNext(d, f)[m] = PageNext(c, f)[m]
      <4>1. m \in Blocks /\ m # b /\ PageLink(c, m, f) \in Nodes /\ PageLink(c, m, f)[1] = m
        BY <1>2, PageFacts DEF PageLink
      <4>2. PageLink(c, m, f) # <<b, slot>>
        BY <4>1
      <4>. QED  BY <4>1, <4>2, <2>3, <2>5, <2>8
    <3>4. Sorted(c.heads[f], PageNext(c, f), M[f], BlockRank) /\ d.heads[f] = b
      BY <1>2, <2>0, <2>4, <2>5 DEF PageLists
    <3>. QED  BY <3>1, <3>2, <3>3, <3>4, PageFacts, NodesRanked, SortedPush
  <2>12. ASSUME NEW g \in Window, g # f
         PROVE  Sorted(d.heads[g], PageNext(d, g), M[g], BlockRank)
    <3>1. ASSUME NEW m \in M[g] PROVE PageNext(d, g)[m] = PageNext(c, g)[m]
      <4>1. m \in Blocks /\ PageLink(c, m, g) \in Nodes /\ PageLink(c, m, g)[1] = m
        BY PageFacts DEF PageLink
      <4>2. m = b => PageLink(c, m, g) # <<b, slot>>
        BY <1>2, <2>9, <2>10, <2>12, LinksDiffer
      <4>3. PageLink(c, m, g) # <<b, slot>>
        BY <4>1, <4>2
      <4>. QED  BY <4>1, <4>3, <2>3, <2>5, <2>8
    <3>2. Sorted(c.heads[g], PageNext(c, g), M[g], BlockRank)
      BY DEF PageLists
    <3>3. d.heads[g] = c.heads[g]
      BY <2>4, <2>5, <2>12, PageFacts
    <3>. QED  BY <3>1, <3>2, <3>3, PageFacts, SortedSame
  <2>13. PageLists(d, With(M, b, f))
    BY <1>2, <2>9, <2>10, <2>11, <2>12 DEF PageLists, With
  <2>. QED  BY <2>5, <2>6, <2>13
<1>. QED  BY <1>1, <1>2

(* The record, the index and the cursor, before the lists of the pages. *)
Indexed(c, rec) ==
    [c EXCEPT !.blk[c.top + 1] = rec, !.top = c.top + 1,
              !.index[rec.owner][rec.va] = c.top + 1,
              !.populated = @ \cup ({rec.owner} \ {Global})]

LEMMA IndexedFields ==
    ASSUME NEW c, c \in CacheType, c.top < Slots,
           NEW rec \in BlockRecord, rec.owner \in Owners,
           NEW b, b = c.top + 1, NEW d, d = Indexed(c, rec)
    PROVE  /\ b \in Blocks /\ d \in CacheType
           /\ KeepsJumps(c, d) /\ KeepsPages(c, d) /\ d.want = c.want /\ d.jc = c.jc
           /\ d.top = b /\ d.populated = c.populated \cup ({rec.owner} \ {Global})
           /\ d.blk = [c.blk EXCEPT ![b] = rec]
           /\ \A o \in Owners, va \in Va :
                 d.index[o][va] = IF o = rec.owner /\ va = rec.va THEN b ELSE c.index[o][va]
<1>. DEFINE row == [c.index[rec.owner] EXCEPT ![rec.va] = b]
            idx == [c.index EXCEPT ![rec.owner] = row]
            bk  == [c.blk EXCEPT ![b] = rec]
            pop == c.populated \cup ({rec.owner} \ {Global})
<1>0. c.top \in 0 .. Slots /\ b \in Blocks /\ b \in 0 .. Slots /\ rec.va \in Va
  BY ConstantsAssumption DEF CacheType, Blocks, BlockRecord
<1>1. /\ c.index \in [Owners -> [Va -> 0 .. Slots]] /\ c.blk \in [Blocks -> BlockRecord]
      /\ c.populated \in SUBSET Asids
  BY DEF CacheType
<1>2. d = [c EXCEPT !.blk = bk, !.top = b, !.index = idx, !.populated = pop]
  BY DEF Indexed, CacheType
<1>3. idx \in [Owners -> [Va -> 0 .. Slots]] /\ bk \in [Blocks -> BlockRecord]
  BY <1>0, <1>1
<1>4. pop \in SUBSET Asids
  BY <1>1 DEF Owners
<1>5. \A o \in Owners, va \in Va :
         idx[o][va] = IF o = rec.owner /\ va = rec.va THEN b ELSE c.index[o][va]
  BY <1>0, <1>1
<1>. HIDE DEF idx, bk, pop
<1>6. /\ d \in CacheType /\ d.index = idx /\ d.blk = bk /\ d.populated = pop /\ d.top = b
  BY <1>0, <1>2, <1>3, <1>4 DEF CacheType
<1>7. KeepsJumps(c, d) /\ KeepsPages(c, d) /\ d.want = c.want /\ d.jc = c.jc
  BY <1>2 DEF CacheType, KeepsJumps, KeepsPages
<1>. QED  BY <1>0, <1>5, <1>6, <1>7 DEF bk, pop

(* What there is when a block is placed. *)
Placed(c, rec, d, b) ==
    /\ CacheInv(d)
    /\ d.blk = [c.blk EXCEPT ![b] = rec]
    /\ b \in Blocks \ Live(c) /\ Live(d) = Live(c) \cup {b} /\ d.top = b
    /\ d.jc = c.jc
    /\ \A n \in Nodes : n[1] = b \/ d.target[n] = b => d.target[n] = None

LEMMA IndexedInv ==
    ASSUME NEW c, CacheInv(c), c.top < Slots,
           NEW rec \in BlockRecord, rec.owner \in Owners, rec.frame # None,
           c.index[rec.owner][rec.va] = None,
           NEW b, b = c.top + 1, NEW d, d = Indexed(c, rec)
    PROVE  /\ BlockInv(d) /\ PageLists(d, [f \in Window |-> OnPage(c, f)])
           /\ d.blk = [c.blk EXCEPT ![b] = rec]
           /\ b \in Blocks \ Live(c) /\ Live(d) = Live(c) \cup {b} /\ d.top = b
           /\ d.jc = c.jc
           /\ \A n \in Nodes : n[1] = b \/ d.target[n] = b => d.target[n] = None
<1>0. c \in CacheType /\ BlockInv(c) /\ rec.va \in Va
  BY DEF CacheInv, BlockInv, BlockRecord
<1>1. /\ b \in Blocks /\ d \in CacheType
      /\ KeepsJumps(c, d) /\ KeepsPages(c, d) /\ d.want = c.want /\ d.jc = c.jc
      /\ d.top = b /\ d.populated = c.populated \cup ({rec.owner} \ {Global})
      /\ d.blk = [c.blk EXCEPT ![b] = rec]
      /\ \A o \in Owners, va \in Va :
            d.index[o][va] = IF o = rec.owner /\ va = rec.va THEN b ELSE c.index[o][va]
  BY <1>0, IndexedFields
<1>2. c.index \in [Owners -> [Va -> 0 .. Slots]] /\ c.blk \in [Blocks -> BlockRecord]
  BY <1>0 DEF CacheType
<1>3. \A x \in Blocks : d.blk[x] = IF x = b THEN rec ELSE c.blk[x]
  BY <1>1, <1>2
<1>4. /\ c.top \in Nat /\ b \notin Live(c)
      /\ \A x \in Live(c) : x \in Blocks /\ x # b /\ x <= c.top
  BY <1>0 DEF CacheType, BlockInv, PlaceInv, Live
<1>5. NoOwner \notin Owners
  BY ConstantsAssumption DEF Owners, NoOwner, Global
<1>6. Live(d) = Live(c) \cup {b}
  BY <1>1, <1>3, <1>5 DEF Live
<1>7. PlaceInv(d)
  <2>1. \A x \in Blocks \ Live(d) : d.blk[x] = Unplaced
    BY <1>0, <1>3, <1>6 DEF BlockInv, PlaceInv
  <2>2. \A x \in Live(d) : x <= d.top /\ d.blk[x].frame # None
    <3>1. \A x \in Live(c) : x <= b /\ c.blk[x].frame # None
      BY <1>0, <1>4, SmallFacts DEF BlockInv, PlaceInv
    <3>2. b <= b
      BY <1>1, SmallFacts
    <3>. QED  BY <1>1, <1>3, <1>4, <1>6, <3>1, <3>2
  <2>3. \A n \in Nodes : n[1] > d.top => d.want[n] = NoVa
    <3>1. \A n \in Nodes : n[1] \in Nat
      BY SmallFacts DEF Nodes
    <3>. QED  BY <1>0, <1>1, <1>4, <3>1 DEF BlockInv, PlaceInv
  <2>. QED  BY <2>1, <2>2, <2>3 DEF PlaceInv
<1>8. IndexInv(d)
  <2>1. ASSUME NEW o \in Owners, NEW va \in Va, d.index[o][va] # None
        PROVE  d.blk[d.index[o][va]].owner = o /\ d.blk[d.index[o][va]].va = va
    <3>. DEFINE x == c.index[o][va]
    <3>1. CASE o = rec.owner /\ va = rec.va
      BY <1>1, <1>3, <3>1
    <3>2. CASE ~(o = rec.owner /\ va = rec.va)
      <4>1. d.index[o][va] = x
        BY <1>1, <3>2
      <4>2. c.blk[x].owner = o /\ c.blk[x].va = va
        BY <1>0, <2>1, <4>1 DEF BlockInv, IndexInv
      <4>3. x \in Blocks
        BY <1>2, <2>1, <4>1, SmallFacts
      <4>4. x # b
        BY <1>4, <1>5, <4>2, <4>3 DEF Live
      <4>. QED  BY <1>3, <4>1, <4>2, <4>3, <4>4
    <3>. QED  BY <3>1, <3>2
  <2>2. ASSUME NEW x \in Live(d) PROVE d.index[d.blk[x].owner][d.blk[x].va] = x
    <3>1. CASE x = b
      BY <1>0, <1>1, <1>3, <3>1
    <3>2. CASE x # b
      <4>1. x \in Live(c) /\ d.blk[x] = c.blk[x]
        BY <1>3, <1>4, <1>6, <3>2
      <4>2. c.index[c.blk[x].owner][c.blk[x].va] = x /\ x # None
        BY <1>0, <1>4, <4>1, SmallFacts DEF BlockInv, IndexInv
      <4>3. c.blk[x].owner \in Owners /\ c.blk[x].va \in Va
        BY <1>0, <4>1, LiveFacts
      <4>. QED  BY <1>1, <4>1, <4>2, <4>3
    <3>. QED  BY <3>1, <3>2
  <2>3. ASSUME NEW o \in Asids \ d.populated, NEW va \in Va PROVE d.index[o][va] = None
    <3>1. o \in Asids \ c.populated /\ o # rec.owner /\ o \in Owners
      BY <1>1, ConstantsAssumption DEF Owners
    <3>. QED  BY <1>0, <1>1, <3>1 DEF BlockInv, IndexInv
  <2>. QED  BY <2>1, <2>2, <2>3 DEF IndexInv
<1>9. WantInv(d)
  <2>1. \A n \in Nodes : n[1] = b => c.want[n] = NoVa
    BY <1>0, <1>1, <1>4, SmallFacts DEF BlockInv, PlaceInv
  <2>2. \A n \in Nodes : n[1] \in Live(c) => d.blk[n[1]] = c.blk[n[1]]
    BY <1>3, <1>4
  <2>. QED  BY <1>0, <1>1, <1>6, <2>1, <2>2 DEF BlockInv, WantInv
<1>10. \A n \in Nodes : c.target[n] # None => n[1] \in Live(c) /\ c.target[n] \in Live(c)
  BY <1>0 DEF BlockInv, JumpInv
<1>11. d.target = c.target
  BY <1>1 DEF KeepsJumps
<1>12. JumpInv(d)
  <2>1. \A x \in Live(c) : d.blk[x] = c.blk[x] /\ x \in Live(d)
    BY <1>3, <1>4, <1>6
  <2>. QED  BY <1>0, <1>1, <1>11, <2>1 DEF BlockInv, JumpInv
<1>13. ChainInv(d)
  <2>1. \A e : JumpsTo(d, e) = JumpsTo(c, e)
    BY <1>11 DEF JumpsTo
  <2>. QED  BY <1>0, <1>1, <2>1 DEF BlockInv, KeepsJumps, ChainInv
<1>14. PageLists(d, [f \in Window |-> OnPage(c, f)])
  <2>. SUFFICES ASSUME NEW f \in Window
                PROVE  /\ OnPage(c, f) \subseteq OnPage(d, f)
                       /\ Sorted(d.heads[f], PageNext(d, f), OnPage(c, f), BlockRank)
    BY DEF PageLists
  <2>1. \A x \in OnPage(c, f) : x \in Blocks /\ d.blk[x] = c.blk[x]
    BY <1>0, <1>3, <1>4, OnPageLive
  <2>2. OnPage(c, f) \subseteq OnPage(d, f)
    BY <2>1 DEF OnPage
  <2>3. \A x \in OnPage(c, f) : PageNext(d, f)[x] = PageNext(c, f)[x]
    BY <1>1, <2>1 DEF PageNext, PageLink, KeepsPages
  <2>4. Sorted(c.heads[f], PageNext(c, f), OnPage(c, f), BlockRank)
    BY DEF CacheInv, PageInv
  <2>5. d.heads[f] = c.heads[f]
    BY <1>1 DEF KeepsPages
  <2>. QED  BY <2>2, <2>3, <2>4, <2>5, PageFacts, SortedSame
<1>15. \A n \in Nodes : n[1] = b \/ d.target[n] = b => d.target[n] = None
  BY <1>4, <1>10, <1>11
<1>. QED  BY <1>1, <1>4, <1>6, <1>7, <1>8, <1>9, <1>12, <1>13, <1>14, <1>15 DEF BlockInv

LEMMA PlaceInvariant ==
    ASSUME NEW c, CacheInv(c), c.top < Slots,
           NEW rec \in BlockRecord, rec.owner \in Owners, rec.frame # None,
           c.index[rec.owner][rec.va] = None,
           NEW d, d = Place(c, rec)
    PROVE  Placed(c, rec, d, c.top + 1)
<1>. DEFINE b  == c.top + 1
            p  == Indexed(c, rec)
            M0 == [f \in Window |-> OnPage(c, f)]
            M1 == With(M0, b, rec.frame)
            M2 == With(M1, b, rec.frame2)
            c1 == LinkIntoPage(p, b, 1)
            c2 == LinkIntoPage(c1, b, 2)
<1>1. /\ BlockInv(p) /\ PageLists(p, M0)
      /\ p.blk = [c.blk EXCEPT ![b] = rec]
      /\ b \in Blocks \ Live(c) /\ Live(p) = Live(c) \cup {b} /\ p.top = b
      /\ p.jc = c.jc
      /\ \A n \in Nodes : n[1] = b \/ p.target[n] = b => p.target[n] = None
  BY IndexedInv
<1>2. d = IndexInsert(p, b)
  <2>1. d = LET placed == [c EXCEPT !.blk[b] = rec, !.top = b,
                                    !.index[rec.owner][rec.va] = b,
                                    !.populated = @ \cup ({rec.owner} \ {Global})]
            IN  IndexInsert(placed, b)
    BY DEF Place
  <2>. QED  BY <2>1 DEF Indexed
<1>3. c \in CacheType /\ p \in CacheType /\ BlockInv(c)
  BY <1>1 DEF CacheInv, BlockInv
<1>4. p.blk[b] = rec /\ \A x \in Blocks \ {b} : p.blk[x] = c.blk[x]
  <2>1. c.blk \in [Blocks -> BlockRecord]
    BY <1>3 DEF CacheType
  <2>. QED  BY <1>1, <2>1
<1>5. M0 \in [Window -> SUBSET Blocks] /\ M1 \in [Window -> SUBSET Blocks]
  BY <1>1 DEF With, OnPage
<1>6. \A f \in Window : \A m \in M0[f] : m < b
  <2>1. \A m \in Live(c) : m <= c.top /\ m \in Nat /\ c.top \in Nat
    BY <1>3, SmallFacts DEF CacheType, BlockInv, PlaceInv, Live
  <2>. QED  BY <1>3, <2>1, OnPageLive
<1>7. \A f \in Window : b \notin M0[f]
  BY <1>1, <1>3, OnPageLive
<1>. HIDE DEF b, p, M0
<1>8. /\ c1 \in CacheType /\ PageLists(c1, M1)
      /\ KeepsBlocks(p, c1) /\ KeepsJumps(p, c1)
      /\ c1.want = p.want /\ c1.jc = p.jc
  <2>1. rec.frame = PageOf(p.blk[b], 1)
    BY <1>4 DEF PageOf
  <2>2. PageLink(p, b, rec.frame) = <<b, 1>>
    BY <1>4 DEF PageLink, LinkSlot
  <2>3. rec.frame \in Window => /\ PageLink(p, b, rec.frame) = <<b, 1>>
                                /\ b \notin M0[rec.frame] /\ \A m \in M0[rec.frame] : m < b
    BY <1>6, <1>7, <2>2
  <2>4. PageLists(p, M0) /\ b \in Blocks
    BY <1>1
  <2>5. c1 = LinkIntoPage(p, b, 1) /\ M1 = With(M0, b, rec.frame) /\ 1 \in {1, 2}
    OBVIOUS
  <2>. HIDE DEF c1, M1
  <2>. QED  BY <1>3, <1>5, <2>1, <2>3, <2>4, <2>5, PushListed
<1>9. c1.blk = p.blk
  BY <1>8 DEF KeepsBlocks
<1>10. d = IF TwoPages(p.blk[b]) THEN c2 ELSE c1
  BY <1>2, <1>9 DEF IndexInsert, TwoPages
<1>11. \A f \in Window : OnPage(p, f) = IF f \in {rec.frame, rec.frame2}
                                       THEN M0[f] \cup {b} ELSE M0[f]
  <2>1. \A f \in Window : \A x \in Blocks : x # b => (x \in OnPage(p, f) <=> x \in M0[f])
    BY <1>4 DEF OnPage, M0
  <2>2. \A f \in Window : b \in OnPage(p, f) <=> f \in {rec.frame, rec.frame2}
    BY <1>1, <1>4 DEF OnPage
  <2>3. \A f \in Window : OnPage(p, f) \subseteq Blocks /\ M0[f] \subseteq Blocks
    BY <1>5 DEF OnPage
  <2>. SUFFICES ASSUME NEW f \in Window
                PROVE  OnPage(p, f) = IF f \in {rec.frame, rec.frame2}
                                      THEN M0[f] \cup {b} ELSE M0[f]
    OBVIOUS
  <2>4. CASE f \in {rec.frame, rec.frame2}
    BY <1>1, <2>1, <2>2, <2>3, <2>4
  <2>5. CASE f \notin {rec.frame, rec.frame2}
    <3>1. b \notin M0[f] /\ b \notin OnPage(p, f)
      BY <1>7, <2>2, <2>5
    <3>2. \A x : x \in OnPage(p, f) <=> x \in M0[f]
      BY <2>1, <2>3, <3>1
    <3>. QED  BY <2>5, <3>2
  <2>. QED  BY <2>4, <2>5
<1>12. /\ d \in CacheType /\ PageInv(d)
       /\ KeepsBlocks(p, d) /\ KeepsJumps(p, d)
       /\ d.want = p.want /\ d.jc = p.jc
  <2>1. CASE TwoPages(p.blk[b])
    <3>1. rec.frame2 # rec.frame /\ rec.frame2 = PageOf(c1.blk[b], 2)
      BY <1>4, <1>9, <2>1 DEF TwoPages, PageOf
    <3>2. PageLink(c1, b, rec.frame2) = <<b, 2>>
      BY <1>4, <1>9, <3>1 DEF PageLink, LinkSlot
    <3>3. rec.frame2 \in Window => M1[rec.frame2] = M0[rec.frame2]
      BY <3>1 DEF With
    <3>4. /\ c2 \in CacheType /\ PageLists(c2, M2)
          /\ KeepsBlocks(c1, c2) /\ KeepsJumps(c1, c2)
          /\ c2.want = c1.want /\ c2.jc = c1.jc
      <4>. HIDE DEF c1, M1
      <4>. QED  BY <1>1, <1>5, <1>6, <1>7, <1>8, <3>1, <3>2, <3>3, PushListed
    <3>5. \A f \in Window : M2[f] = OnPage(p, f)
      BY <1>11, <3>1 DEF With
    <3>6. \A f : OnPage(c2, f) = OnPage(p, f)
      BY <1>9, <3>4 DEF KeepsBlocks, OnPage
    <3>. HIDE DEF c1, c2, M1, M2
    <3>7. PageInv(c2)
      BY <3>4, <3>5, <3>6 DEF PageLists, PageInv
    <3>. QED  BY <1>8, <1>10, <2>1, <3>4, <3>7 DEF KeepsBlocks, KeepsJumps
  <2>2. CASE ~TwoPages(p.blk[b])
    <3>1. \A f \in Window : M1[f] = OnPage(p, f)
      BY <1>4, <1>11, <2>2, PageFacts DEF With, TwoPages
    <3>2. \A f : OnPage(c1, f) = OnPage(p, f)
      BY <1>9 DEF OnPage
    <3>. HIDE DEF c1, M1
    <3>3. PageInv(c1)
      BY <1>8, <3>1, <3>2 DEF PageLists, PageInv
    <3>. QED  BY <1>8, <1>10, <2>2, <3>3
  <2>. QED  BY <2>1, <2>2
<1>13. BlockInv(d) /\ Live(d) = Live(p)
  BY <1>1, <1>12, BlockInvSame
<1>14. Placed(c, rec, d, b)
  BY <1>1, <1>12, <1>13 DEF Placed, CacheInv, KeepsBlocks, KeepsJumps
<1>. QED  BY <1>14 DEF b

-----------------------------------------------------------------------------
(* Blocks are chained *)

(* An open jump is patched, of a block younger than those whose jumps lead *)
(* there already, or the second one of the youngest.                       *)
LEMMA LinkChainInv ==
    ASSUME NEW c, CacheInv(c), NEW n \in Nodes, NEW dest \in Live(c),
           n[1] \in Live(c), c.target[n] = None, c.want[n] = c.blk[dest].va,
           c.blk[n[1]].owner = c.blk[dest].owner, c.blk[n[1]].frame = c.blk[dest].frame,
           \A m \in JumpsTo(c, dest) : NodeRank[m] < NodeRank[n],
           NEW d, d = LinkChain(c, n, dest)
    PROVE  /\ CacheInv(d) /\ KeepsBlocks(c, d) /\ KeepsPages(c, d)
           /\ d.want = c.want /\ d.jc = c.jc
           /\ \A m \in Nodes : d.target[m] = IF m = n THEN dest ELSE c.target[m]
<1>. DEFINE st == [c.site EXCEPT ![n] = dest]
            tg == [c.target EXCEPT ![n] = dest]
            nx == [c.next EXCEPT ![n] = c.head[dest]]
            hd == [c.head EXCEPT ![dest] = n]
<1>0. c \in CacheType /\ BlockInv(c) /\ dest \in Blocks /\ dest \in 0 .. Slots /\ dest # None
  BY SmallFacts DEF CacheInv, BlockInv, Live
<1>1. /\ c.site \in [Nodes -> 0 .. Slots] /\ c.target \in [Nodes -> 0 .. Slots]
      /\ c.next \in [Nodes -> Nodes \cup {NoNode}]
      /\ c.head \in [Blocks -> Nodes \cup {NoNode}]
  BY <1>0 DEF CacheType
<1>2. d = [c EXCEPT !.site = st, !.target = tg, !.next = nx, !.head = hd]
  BY <1>0 DEF LinkChain, CacheType
<1>3. /\ st \in [Nodes -> 0 .. Slots] /\ tg \in [Nodes -> 0 .. Slots]
      /\ nx \in [Nodes -> Nodes \cup {NoNode}]
      /\ hd \in [Blocks -> Nodes \cup {NoNode}]
  BY <1>0, <1>1
<1>4. c.site = c.target
  BY <1>0 DEF BlockInv, ChainInv
<1>5. st = tg
  BY <1>4
<1>6. /\ \A m \in Nodes : tg[m] = IF m = n THEN dest ELSE c.target[m]
      /\ \A m \in Nodes : nx[m] = IF m = n THEN c.head[dest] ELSE c.next[m]
      /\ \A e \in Blocks : hd[e] = IF e = dest THEN n ELSE c.head[e]
  BY <1>0, <1>1
<1>. HIDE DEF st, tg, nx, hd
<1>7. /\ d \in CacheType
      /\ d.site = st /\ d.target = tg /\ d.next = nx /\ d.head = hd
  BY <1>0, <1>2, <1>3 DEF CacheType
<1>8. KeepsBlocks(c, d) /\ KeepsPages(c, d) /\ d.want = c.want /\ d.jc = c.jc
  BY <1>0, <1>2 DEF CacheType, KeepsBlocks, KeepsPages
<1>9. Live(d) = Live(c) /\ d.blk = c.blk
  BY <1>8 DEF KeepsBlocks, Live
<1>10. PlaceInv(d) /\ IndexInv(d) /\ WantInv(d)
  BY <1>0, <1>8, <1>9 DEF BlockInv, KeepsBlocks, PlaceInv, IndexInv, WantInv
<1>11. JumpInv(d)
  BY <1>0, <1>6, <1>7, <1>8, <1>9 DEF BlockInv, JumpInv
<1>12. Sorted(d.head[dest], d.next, JumpsTo(d, dest), NodeRank)
  <2>1. JumpsTo(d, dest) = JumpsTo(c, dest) \cup {n}
    BY <1>6, <1>7 DEF JumpsTo
  <2>2. n \notin JumpsTo(c, dest)
    BY <1>0 DEF JumpsTo
  <2>3. \A m \in JumpsTo(c, dest) : d.next[m] = c.next[m]
    BY <1>6, <1>7, <2>2 DEF JumpsTo
  <2>4. d.next[n] = c.head[dest] /\ d.head[dest] = n
    BY <1>0, <1>6, <1>7
  <2>5. DOMAIN c.next = Nodes /\ DOMAIN d.next = Nodes
    BY <1>1, <1>3, <1>7
  <2>6. Sorted(c.head[dest], c.next, JumpsTo(c, dest), NodeRank)
    BY <1>0 DEF BlockInv, ChainInv
  <2>. QED  BY <2>1, <2>3, <2>4, <2>5, <2>6, NodesRanked, SortedPush
<1>13. ASSUME NEW e \in Blocks, e # dest
       PROVE  Sorted(d.head[e], d.next, JumpsTo(d, e), NodeRank)
  <2>1. JumpsTo(d, e) = JumpsTo(c, e)
    BY <1>6, <1>7, <1>13, SmallFacts DEF JumpsTo
  <2>2. \A m \in JumpsTo(c, e) : d.next[m] = c.next[m]
    BY <1>6, <1>7, SmallFacts DEF JumpsTo
  <2>3. d.head[e] = c.head[e]
    BY <1>6, <1>7, <1>13
  <2>4. DOMAIN c.next = Nodes /\ DOMAIN d.next = Nodes
    BY <1>1, <1>3, <1>7
  <2>5. Sorted(c.head[e], c.next, JumpsTo(c, e), NodeRank)
    BY <1>0 DEF BlockInv, ChainInv
  <2>. QED  BY <2>1, <2>2, <2>3, <2>4, <2>5, SortedSame
<1>14. ChainInv(d)
  BY <1>5, <1>7, <1>12, <1>13 DEF ChainInv
<1>15. PageInv(d)
  BY <1>8, PageInvSame DEF CacheInv
<1>. QED  BY <1>6, <1>7, <1>8, <1>10, <1>11, <1>14, <1>15 DEF CacheInv, BlockInv

LEMMA NodeOrder ==
    ASSUME NEW m \in Nodes, NEW n \in Nodes,
           m[1] < n[1] \/ (m[1] = n[1] /\ m[2] < n[2])
    PROVE  NodeRank[m] < NodeRank[n]
<1>1. /\ m[1] \in Nat /\ n[1] \in Nat /\ m[2] \in {1, 2} /\ n[2] \in {1, 2}
  BY SmallFacts DEF Nodes
<1>2. 2 * m[1] + m[2] < 2 * n[1] + n[2]
  BY <1>1
<1>. QED  BY <1>2 DEF NodeRank

(* One jump of the block that ran last is patched to the new block b.      *)
LEMMA LinkJumpInv ==
    ASSUME NEW c, CacheInv(c), NEW b \in Live(c), NEW n \in Nodes,
           n[1] \in Live(c), n[1] < b,
           c.blk[n[1]].owner = c.blk[b].owner, c.blk[n[1]].frame = c.blk[b].frame,
           \A m \in JumpsTo(c, b) : m[1] = n[1] /\ m[2] < n[2],
           NEW d, d = LinkJump(c, n, b)
    PROVE  /\ CacheInv(d) /\ KeepsBlocks(c, d) /\ KeepsPages(c, d)
           /\ d.want = c.want /\ d.jc = c.jc
           /\ \A m \in Nodes : d.target[m] = c.target[m] \/ (m = n /\ d.target[m] = b)
<1>1. CASE c.target[n] = None /\ c.want[n] = c.blk[b].va
  <2>1. d = LinkChain(c, n, b)
    BY <1>1 DEF LinkJump
  <2>2. \A m \in JumpsTo(c, b) : NodeRank[m] < NodeRank[n]
    BY NodeOrder DEF JumpsTo
  <2>. QED  BY <1>1, <2>1, <2>2, LinkChainInv
<1>2. CASE ~(c.target[n] = None /\ c.want[n] = c.blk[b].va)
  <2>1. d = c
    BY <1>2 DEF LinkJump
  <2>. QED  BY <2>1 DEF KeepsBlocks, KeepsPages
<1>. QED  BY <1>1, <1>2

(* The block that ran last is chained to the new one. *)
LEMMA LinkPredecessorInv ==
    ASSUME NEW c, CacheInv(c), NEW b \in Live(c), b = c.top,
           \A n \in Nodes : n[1] = b \/ c.target[n] = b => c.target[n] = None,
           NEW src \in {None} \cup Predecessors(c, b),
           NEW d, d = LinkPredecessor(c, b, src)
    PROVE  /\ CacheInv(d) /\ KeepsBlocks(c, d) /\ KeepsPages(c, d)
           /\ d.want = c.want /\ d.jc = c.jc
           /\ \A n \in Nodes : n[1] = b => d.target[n] = None
<1>1. CASE src = None
  <2>1. d = c
    BY <1>1 DEF LinkPredecessor
  <2>. QED  BY <2>1 DEF KeepsBlocks, KeepsPages
<1>2. CASE src # None
  <2>. DEFINE n1 == <<src, 1>>
              n2 == <<src, 2>>
              c1 == LinkJump(c, n1, b)
              c2 == LinkJump(c1, n2, b)
  <2>1. /\ src \in Live(c) /\ src # b
        /\ c.blk[src].owner = c.blk[b].owner /\ c.blk[src].frame = c.blk[b].frame
    BY <1>2 DEF Predecessors
  <2>2. src \in Blocks /\ b \in Blocks /\ src <= c.top
    BY <2>1 DEF CacheInv, BlockInv, PlaceInv, Live
  <2>3. src < b
    BY <2>1, <2>2, SmallFacts
  <2>4. /\ n1 \in Nodes /\ n1[1] = src /\ n1[2] = 1
        /\ n2 \in Nodes /\ n2[1] = src /\ n2[2] = 2
    BY <2>2 DEF Nodes
  <2>5. JumpsTo(c, b) = {}
    BY <2>2, SmallFacts DEF JumpsTo
  <2>6. /\ CacheInv(c1) /\ KeepsBlocks(c, c1) /\ KeepsPages(c, c1)
        /\ c1.want = c.want /\ c1.jc = c.jc
        /\ \A m \in Nodes : c1.target[m] = c.target[m] \/ (m = n1 /\ c1.target[m] = b)
    <3>. HIDE DEF n1
    <3>. QED  BY <2>1, <2>3, <2>4, <2>5, LinkJumpInv
  <2>. HIDE DEF c1
  <2>7. \A m \in JumpsTo(c1, b) : m = n1
    BY <2>2, <2>6, SmallFacts DEF JumpsTo
  <2>8. c1.blk = c.blk /\ Live(c1) = Live(c)
    BY <2>6 DEF KeepsBlocks, Live
  <2>9. /\ CacheInv(c2) /\ KeepsBlocks(c1, c2) /\ KeepsPages(c1, c2)
        /\ c2.want = c1.want /\ c2.jc = c1.jc
        /\ \A m \in Nodes : c2.target[m] = c1.target[m] \/ (m = n2 /\ c2.target[m] = b)
    <3>1. \A m \in JumpsTo(c1, b) : m[1] = n2[1] /\ m[2] < n2[2]
      BY <2>4, <2>7
    <3>. HIDE DEF n1, n2
    <3>. QED  BY <2>1, <2>3, <2>4, <2>6, <2>8, <3>1, LinkJumpInv
  <2>10. d = c2
    BY <1>2 DEF LinkPredecessor, c1
  <2>. HIDE DEF c2, n1, n2
  <2>11. \A n \in Nodes : n[1] = b => d.target[n] = None
    BY <2>1, <2>4, <2>6, <2>9, <2>10
  <2>. QED  BY <2>6, <2>9, <2>10, <2>11 DEF KeepsBlocks, KeepsPages
<1>. QED  BY <1>1, <1>2

(* A branch of the youngest block is left open, or patched at once. *)
LEMMA EmitChainInv ==
    ASSUME NEW c, CacheInv(c), NEW n \in Nodes, n[1] \in Live(c), n[1] = c.top,
           \A m \in Nodes : m[1] = n[1] /\ m[2] >= n[2] => c.target[m] = None,
           NEW target \in Va \cup {NoVa},
           target # NoVa => Page(target) = Page(c.blk[n[1]].va),
           NEW d, d = EmitChainToBlock(c, n, target)
    PROVE  /\ CacheInv(d) /\ KeepsBlocks(c, d) /\ d.jc = c.jc
           /\ \A m \in Nodes : m # n => d.target[m] = c.target[m]
<1>. DEFINE rec    == c.blk[n[1]]
            dest   == c.index[rec.owner][target]
            wanted == [c EXCEPT !.want[n] = target]
<1>0. c \in CacheType /\ BlockInv(c) /\ PageInv(c)
  BY DEF CacheInv, BlockInv
<1>1. CASE target \in {NoVa, rec.va}
  <2>1. d = c
    BY <1>1 DEF EmitChainToBlock
  <2>. QED  BY <2>1 DEF KeepsBlocks
<1>2. CASE target \notin {NoVa, rec.va}
  <2>. DEFINE wt == [c.want EXCEPT ![n] = target]
  <2>0. n[1] \in Blocks /\ rec.owner \in Owners /\ target \in Va
    BY <1>0, <1>2, LiveFacts
  <2>1. c.want \in [Nodes -> Va \cup {NoVa}]
    BY <1>0 DEF CacheType
  <2>2. wt \in [Nodes -> Va \cup {NoVa}] /\ \A m \in Nodes : wt[m] = IF m = n THEN target ELSE c.want[m]
    BY <2>1
  <2>3. wanted = [c EXCEPT !.want = wt]
    BY <1>0 DEF CacheType
  <2>. HIDE DEF wt
  <2>4. wanted \in CacheType /\ wanted.want = wt
    BY <1>0, <2>2, <2>3 DEF CacheType
  <2>5. /\ KeepsBlocks(c, wanted) /\ KeepsJumps(c, wanted) /\ KeepsPages(c, wanted)
        /\ wanted.jc = c.jc
    BY <1>0, <2>3 DEF CacheType, KeepsBlocks, KeepsJumps, KeepsPages
  <2>6. d = IF dest = None \/ c.blk[dest].frame # rec.frame THEN wanted
            ELSE LinkChain(wanted, n, dest)
    BY <1>2 DEF EmitChainToBlock
  <2>. HIDE DEF wanted
  <2>7. Live(wanted) = Live(c) /\ wanted.blk = c.blk /\ wanted.target = c.target
    BY <2>5 DEF KeepsBlocks, KeepsJumps, Live
  <2>8. c.target[n] = None
    <3>1. n[2] >= n[2]
      BY DEF Nodes
    <3>. QED  BY <3>1
  <2>9. CacheInv(wanted)
    <3>1. PlaceInv(wanted)
      <4>1. ~(n[1] > c.top)
        BY <2>0, SmallFacts
      <4>2. wanted.top = c.top
        BY <2>5 DEF KeepsBlocks
      <4>. QED  BY <1>0, <2>2, <2>4, <2>7, <4>1, <4>2 DEF BlockInv, PlaceInv
    <3>2. IndexInv(wanted)
      BY <1>0, <2>5, <2>7 DEF BlockInv, KeepsBlocks, IndexInv
    <3>3. WantInv(wanted)
      BY <1>0, <1>2, <2>2, <2>4, <2>7 DEF BlockInv, WantInv
    <3>4. JumpInv(wanted)
      BY <1>0, <2>2, <2>4, <2>7, <2>8 DEF BlockInv, JumpInv
    <3>5. ChainInv(wanted)
      <4>1. \A e : JumpsTo(wanted, e) = JumpsTo(c, e)
        BY <2>7 DEF JumpsTo
      <4>. QED  BY <1>0, <2>5, <4>1 DEF BlockInv, KeepsJumps, ChainInv
    <3>6. PageInv(wanted)
      BY <1>0, <2>5, PageInvSame
    <3>. QED  BY <2>4, <3>1, <3>2, <3>3, <3>4, <3>5, <3>6 DEF CacheInv, BlockInv
  <2>10. CASE dest = None \/ c.blk[dest].frame # rec.frame
    BY <2>5, <2>6, <2>7, <2>9, <2>10
  <2>11. CASE dest # None /\ c.blk[dest].frame = rec.frame
    <3>1. c.blk[dest].owner = rec.owner /\ c.blk[dest].va = target
      BY <1>0, <2>0, <2>11 DEF BlockInv, IndexInv
    <3>2. dest \in Blocks
      <4>1. c.index \in [Owners -> [Va -> 0 .. Slots]]
        BY <1>0 DEF CacheType
      <4>. QED  BY <2>0, <2>11, <4>1, SmallFacts
    <3>3. dest \in Live(c)
      BY <2>0, <3>1, <3>2, ConstantsAssumption DEF Live, Owners, NoOwner, Global
    <3>4. d = LinkChain(wanted, n, dest)
      BY <2>6, <2>11
    <3>5. ASSUME NEW m \in JumpsTo(wanted, dest) PROVE NodeRank[m] < NodeRank[n]
      <4>1. m \in Nodes /\ c.target[m] # None
        BY <2>7, <3>2, <3>5, SmallFacts DEF JumpsTo
      <4>2. m[1] \in Live(c)
        BY <1>0, <4>1 DEF BlockInv, JumpInv
      <4>3. m[1] <= n[1]
        BY <1>0, <4>2 DEF BlockInv, PlaceInv
      <4>4. m[1] = n[1] => ~(m[2] >= n[2])
        BY <4>1
      <4>5. m[1] \in Nat /\ n[1] \in Nat /\ m[2] \in Nat /\ n[2] \in Nat
        BY <4>1, SmallFacts DEF Nodes
      <4>6. m[1] < n[1] \/ (m[1] = n[1] /\ m[2] < n[2])
        BY <4>3, <4>4, <4>5
      <4>. QED  BY <4>1, <4>6, NodeOrder
    <3>. HIDE DEF dest
    <3>6. wanted.want[n] = wanted.blk[dest].va
      BY <2>2, <2>4, <2>7, <3>1
    <3>7. /\ CacheInv(d) /\ KeepsBlocks(wanted, d) /\ d.jc = wanted.jc
          /\ \A m \in Nodes : d.target[m] = IF m = n THEN dest ELSE wanted.target[m]
      BY <2>7, <2>8, <2>9, <2>11, <3>1, <3>3, <3>4, <3>5, <3>6, LinkChainInv
    <3>. QED  BY <2>5, <2>7, <3>7 DEF KeepsBlocks
  <2>. QED  BY <2>10, <2>11
<1>. QED  BY <1>1, <1>2

-----------------------------------------------------------------------------
(* Addresses *)

LEMMA DivMod ==
    ASSUME NEW c \in Nat, NEW d \in Nat, d > 0
    PROVE  /\ c \div d \in Nat /\ c % d \in Nat /\ c % d < d
           /\ c = (c \div d) * d + (c % d)
BY SMT

(* A bound that decides which of two integers is less. *)
LEMMA LessByProduct ==
    ASSUME NEW d \in Nat \ {0}, NEW a \in Nat, NEW b \in Nat, a * d < b * d + d
    PROVE  a <= b
<1>1. SUFFICES ASSUME a >= b + 1 PROVE FALSE
  OBVIOUS
<1>2. a * d >= (b + 1) * d
  BY <1>1, SMT
<1>3. (b + 1) * d = b * d + d
  BY SMT
<1>. QED  BY <1>2, <1>3, SMT

LEMMA PageOfVa ==
    ASSUME NEW va \in Va
    PROVE  Page(va) \in Pages /\ Word(va) \in Words /\ JcIndex(va) \in JcSlots
<1>. DEFINE q == va \div PageWords
<1>1. /\ NumPages \in Nat \ {0} /\ PageWords \in Nat \ {0} /\ JumpCacheSize \in Nat \ {0}
      /\ va \in Nat /\ va < NumPages * PageWords
  <2>1. NumPages * PageWords \in Nat
    BY ConstantsAssumption, SMT
  <2>. QED  BY <2>1, ConstantsAssumption DEF Va, NoVa
<1>2. q \in Nat /\ va % PageWords \in Nat /\ va % PageWords < PageWords
      /\ va = q * PageWords + (va % PageWords)
  BY <1>1, DivMod
<1>3. va % JumpCacheSize \in Nat /\ va % JumpCacheSize < JumpCacheSize
  BY <1>1, DivMod
<1>. HIDE DEF q
<1>4. q <= NumPages - 1
  <2>1. q * PageWords < (NumPages - 1) * PageWords + PageWords
    <3>1. (NumPages - 1) * PageWords + PageWords = NumPages * PageWords
      BY <1>1, SMT
    <3>2. q * PageWords \in Nat
      BY <1>1, <1>2, SMT
    <3>3. NumPages * PageWords \in Nat
      BY <1>1, SMT
    <3>. QED  BY <1>1, <1>2, <3>1, <3>2, <3>3
  <2>2. NumPages - 1 \in Nat
    BY <1>1
  <2>. QED  BY <1>1, <1>2, <2>1, <2>2, LessByProduct
<1>5. Page(va) = q
  BY DEF Page, q
<1>. QED  BY <1>1, <1>2, <1>3, <1>4, <1>5 DEF Pages, Word, Words, JcIndex, JcSlots

(* A word of a page is in that page. *)
LEMMA WordOfPage ==
    ASSUME NEW pg \in Pages, NEW w \in Words
    PROVE  pg * PageWords + w \in Va /\ Page(pg * PageWords + w) = pg
<1>. DEFINE x == pg * PageWords + w
            q == x \div PageWords
<1>1. /\ NumPages \in Nat \ {0} /\ PageWords \in Nat \ {0}
      /\ pg \in Nat /\ pg + 1 <= NumPages /\ w \in Nat /\ w < PageWords
  BY ConstantsAssumption DEF Pages, Words
<1>2. pg * PageWords \in Nat /\ NumPages * PageWords \in Nat
  BY <1>1, SMT
<1>3. pg * PageWords + PageWords <= NumPages * PageWords
  <2>1. pg * PageWords + PageWords = (pg + 1) * PageWords
    BY <1>1, SMT
  <2>2. (pg + 1) * PageWords <= NumPages * PageWords
    BY <1>1, SMT
  <2>. QED  BY <1>1, <1>2, <2>1, <2>2
<1>4. x \in Va
  BY <1>1, <1>2, <1>3 DEF Va, NoVa
<1>5. x \in Nat
  BY <1>1, <1>2
<1>6. q \in Nat /\ x % PageWords \in Nat /\ x % PageWords < PageWords
      /\ x = q * PageWords + (x % PageWords)
  <2>. HIDE DEF x
  <2>. QED  BY <1>1, <1>5, DivMod
<1>7. q * PageWords \in Nat
  <2>. HIDE DEF q
  <2>. QED  BY <1>1, <1>6, SMT
<1>8. q * PageWords < pg * PageWords + PageWords /\ pg * PageWords < q * PageWords + PageWords
  <2>. DEFINE a == q * PageWords
              b == pg * PageWords
              r == x % PageWords
  <2>1. /\ a \in Nat /\ b \in Nat /\ r \in Nat /\ r < PageWords
        /\ b + w = a + r
    BY <1>2, <1>6, <1>7
  <2>. HIDE DEF a, b, r, q
  <2>2. a < b + PageWords /\ b < a + PageWords
    BY <1>1, <2>1
  <2>. QED  BY <2>2 DEF a, b
<1>. HIDE DEF q
<1>9. q <= pg /\ pg <= q
  BY <1>1, <1>6, <1>8, LessByProduct
<1>10. q = pg
  BY <1>1, <1>6, <1>9
<1>. QED  BY <1>4, <1>10 DEF Page, q

LEMMA Targets ==
    ASSUME NEW va \in Va, NEW last \in Words,
           NEW t \in BranchTargets(va) \cup FallThrough(va, last)
    PROVE  t \in Va \cup {NoVa} /\ (t # NoVa => Page(t) = Page(va))
<1>1. CASE t \in BranchTargets(va)
  <2>1. Entries \subseteq Va
    BY ConstantsAssumption DEF Entries
  <2>. QED  BY <1>1, <2>1 DEF BranchTargets
<1>2. CASE t \in FallThrough(va, last) /\ t # NoVa
  <2>1. last # PageWords - 1 /\ t = Page(va) * PageWords + last + 1
    BY <1>2 DEF FallThrough
  <2>2. last + 1 \in Words
    BY <2>1, ConstantsAssumption DEF Words
  <2>3. Page(va) \in Pages
    BY PageOfVa
  <2>4. t = Page(va) * PageWords + (last + 1)
    <3>1. Page(va) * PageWords \in Nat
      BY <2>3, ConstantsAssumption, SMT DEF Pages
    <3>. HIDE DEF Page
    <3>. QED  BY <2>1, <3>1 DEF Words
  <2>. QED  BY <2>2, <2>3, <2>4, WordOfPage
<1>. QED  BY <1>1, <1>2

-----------------------------------------------------------------------------
(* The jump cache *)

LEMMA CacheInvSame ==
    ASSUME NEW c, NEW d, CacheInv(c), d \in CacheType, KeepsBlocks(c, d),
           KeepsJumps(c, d), KeepsPages(c, d), d.want = c.want
    PROVE  CacheInv(d) /\ Live(d) = Live(c) /\ d.blk = c.blk
BY BlockInvSame, PageInvSame DEF CacheInv, KeepsBlocks

LEMMA JumpCacheInsertInv ==
    ASSUME NEW c, CacheInv(c), NEW va \in Va, NEW b \in Blocks,
           NEW d, d = JumpCacheInsert(c, va, b)
    PROVE  /\ CacheInv(d) /\ KeepsBlocks(c, d)
           /\ \A i \in JcSlots : d.jc[i] = IF i = JcIndex(va) THEN [va |-> va, blk |-> b]
                                                              ELSE c.jc[i]
<1>. DEFINE jc == [c.jc EXCEPT ![JcIndex(va)] = [va |-> va, blk |-> b]]
<1>0. c \in CacheType
  BY DEF CacheInv, BlockInv
<1>1. c.jc \in [JcSlots -> [va : Va, blk : 0 .. Slots]]
  BY <1>0 DEF CacheType
<1>2. [va |-> va, blk |-> b] \in [va : Va, blk : 0 .. Slots]
  BY SmallFacts
<1>3. /\ jc \in [JcSlots -> [va : Va, blk : 0 .. Slots]]
      /\ \A i \in JcSlots : jc[i] = IF i = JcIndex(va) THEN [va |-> va, blk |-> b]
                                                       ELSE c.jc[i]
  BY <1>1, <1>2
<1>4. d = [c EXCEPT !.jc = jc]
  BY <1>0 DEF JumpCacheInsert, CacheType
<1>. HIDE DEF jc
<1>5. d \in CacheType /\ d.jc = jc
  BY <1>0, <1>3, <1>4 DEF CacheType
<1>6. KeepsBlocks(c, d) /\ KeepsJumps(c, d) /\ KeepsPages(c, d) /\ d.want = c.want
  BY <1>0, <1>4 DEF CacheType, KeepsBlocks, KeepsJumps, KeepsPages
<1>. QED  BY <1>3, <1>5, <1>6, CacheInvSame

(* Blocks and entries go, none changes. *)
Shrinks(c, d) ==
    /\ CacheInv(d)
    /\ Live(d) \subseteq Live(c) /\ \A b \in Live(d) : d.blk[b] = c.blk[b]
    /\ \A i \in JcSlots : d.jc[i].blk # None => /\ d.jc[i] = c.jc[i]
                                                /\ d.jc[i].blk \in Live(d)

(* What the jump cache answers is live. *)
LEMMA AnswersLive ==
    ASSUME IInv, NEW i \in JcSlots, cache.jc[i].blk # None
    PROVE  /\ cache.jc[i].blk \in Live(cache) /\ cache.jc[i].va \in Va
           /\ cache.blk[cache.jc[i].blk].va = cache.jc[i].va
<1>1. cache.jc \in [JcSlots -> [va : Va, blk : 0 .. Slots]]
  BY DEF IInv, TypeOK, CacheType
<1>2. cache.jc[i].blk \in Blocks /\ cache.jc[i].va \in Va
  BY <1>1, SmallFacts
<1>3. /\ cache.blk[cache.jc[i].blk].va = cache.jc[i].va
      /\ cache.blk[cache.jc[i].blk].owner \in {Global, asid}
  BY <1>1 DEF IInv, JumpCacheFresh
<1>4. asid # NoOwner /\ Global # NoOwner
  BY ConstantsAssumption DEF IInv, TypeOK, Global, NoOwner
<1>. QED  BY <1>2, <1>3, <1>4 DEF Live

LEMMA ShrinksSame ==
    ASSUME IInv
    PROVE  Shrinks(cache, cache)
BY AnswersLive DEF Shrinks, IInv

LEMMA ShrinksRemoved ==
    ASSUME IInv, NEW b \in Live(cache), NEW d, Removed(cache, d, b)
    PROVE  Shrinks(cache, d)
<1>0. cache.blk \in [Blocks -> BlockRecord]
  BY DEF IInv, TypeOK, CacheType
<1>1. \A x \in Live(d) : d.blk[x] = cache.blk[x]
  BY <1>0 DEF Removed, Live
<1>2. ASSUME NEW i \in JcSlots, d.jc[i].blk # None
      PROVE  d.jc[i] = cache.jc[i] /\ d.jc[i].blk \in Live(d)
  <2>1. d.jc[i] = cache.jc[i] /\ cache.jc[i].va # cache.blk[b].va
    BY <1>2 DEF Removed
  <2>2. cache.jc[i].blk \in Live(cache) /\ cache.blk[cache.jc[i].blk].va = cache.jc[i].va
    BY <1>2, <2>1, AnswersLive
  <2>. QED  BY <2>1, <2>2 DEF Removed
<1>. QED  BY <1>1, <1>2 DEF Removed, Shrinks

LEMMA ShrinksFlush ==
    ASSUME IInv, NEW c, CacheInv(c), NEW d, d = FlushAll(c)
    PROVE  Shrinks(cache, d)
BY FlushAllInv DEF Shrinks

LEMMA ShrinksClear ==
    ASSUME IInv, NEW tags, NEW d, d = ClearEntries(cache, tags)
    PROVE  /\ Shrinks(cache, d) /\ Live(d) = Live(cache) /\ d.blk = cache.blk
           /\ \A i \in JcSlots : d.jc[i].blk # None => d.jc[i].va \notin tags
<1>1. /\ d \in CacheType
      /\ KeepsBlocks(cache, d) /\ KeepsJumps(cache, d) /\ KeepsPages(cache, d)
      /\ d.want = cache.want
      /\ \A i \in JcSlots : d.jc[i] = IF cache.jc[i].va \in tags
                                      THEN [va |-> 0, blk |-> None] ELSE cache.jc[i]
  BY ClearFields DEF IInv, TypeOK
<1>2. CacheInv(d) /\ Live(d) = Live(cache) /\ d.blk = cache.blk
  BY <1>1, CacheInvSame DEF IInv
<1>. QED  BY <1>1, <1>2, AnswersLive DEF Shrinks

LEMMA ExactLive ==
    ASSUME IInv, NEW va \in Va, Exact(va) # None
    PROVE  /\ Exact(va) \in Live(cache) /\ IndexFor(va) \in Owners
           /\ cache.blk[Exact(va)].owner = IndexFor(va)
           /\ cache.blk[Exact(va)].va = va
<1>1. IndexFor(va) \in Owners
  BY DEF IndexFor, Owners, IInv, TypeOK
<1>2. cache.index \in [Owners -> [Va -> 0 .. Slots]]
  BY DEF IInv, TypeOK, CacheType
<1>3. Exact(va) \in Blocks
  BY <1>1, <1>2, SmallFacts DEF Exact
<1>4. cache.blk[Exact(va)].owner = IndexFor(va) /\ cache.blk[Exact(va)].va = va
  BY <1>1 DEF Exact, IInv, CacheInv, BlockInv, IndexInv
<1>5. NoOwner \notin Owners
  BY ConstantsAssumption DEF Owners, NoOwner, Global
<1>. QED  BY <1>1, <1>3, <1>4, <1>5 DEF Live

LEMMA EvictedInv ==
    ASSUME IInv, NEW va \in Va, NEW e, e = Evicted(va)
    PROVE  /\ Shrinks(cache, e) /\ e.index[IndexFor(va)][va] = None
<1>1. CASE Exact(va) = None
  <2>1. e = cache
    BY <1>1 DEF Evicted
  <2>. QED  BY <1>1, <2>1, ShrinksSame DEF Exact
<1>2. CASE Exact(va) # None
  <2>. DEFINE b == Exact(va)
  <2>1. /\ b \in Live(cache)
        /\ cache.blk[b].owner = IndexFor(va) /\ cache.blk[b].va = va
    BY <1>2, ExactLive
  <2>2. e = RemoveBlock(cache, b)
    BY <1>2 DEF Evicted
  <2>. HIDE DEF b
  <2>3. Removed(cache, e, b)
    BY <2>1, <2>2, RemoveBlockInv DEF IInv
  <2>. QED  BY <2>1, <2>3, ShrinksRemoved DEF Removed
<1>. QED  BY <1>1, <1>2

-----------------------------------------------------------------------------
(* The compiler *)

(* A block of rec, entered in the jump cache. *)
Compiled(g, d, b, rec) ==
    /\ CacheInv(d)
    /\ b \in Blocks \ Live(g) /\ Live(d) = Live(g) \cup {b}
    /\ \A x \in Blocks : d.blk[x] = IF x = b THEN rec ELSE g.blk[x]
    /\ \A i \in JcSlots : d.jc[i] = IF i = JcIndex(rec.va) THEN [va |-> rec.va, blk |-> b]
                                                           ELSE g.jc[i]

LEMMA CompiledInv ==
    ASSUME NEW g, CacheInv(g), g.top < Slots, NEW rec \in BlockRecord,
           rec.owner \in Owners, rec.frame # None, g.index[rec.owner][rec.va] = None,
           NEW placed, placed = Place(g, rec), NEW b, b = placed.top,
           NEW src \in {None} \cup Predecessors(placed, b),
           NEW branch \in BranchTargets(rec.va), NEW next \in FallThrough(rec.va, rec.last),
           NEW linked, linked = LinkPredecessor(placed, b, src),
           NEW chained, chained = EmitChainToBlock(linked, <<b, 1>>, branch),
           NEW d, d = JumpCacheInsert(EmitChainToBlock(chained, <<b, 2>>, next), rec.va, b)
    PROVE  Compiled(g, d, b, rec)
<1>. DEFINE n1 == <<b, 1>>
            n2 == <<b, 2>>
            done == EmitChainToBlock(chained, n2, next)
<1>0. rec.va \in Va /\ rec.last \in Words
  BY DEF BlockRecord
<1>1. Placed(g, rec, placed, b)
  <2>1. Placed(g, rec, placed, g.top + 1)
    BY PlaceInvariant
  <2>. QED  BY <2>1 DEF Placed
<1>2. /\ CacheInv(placed) /\ b \in Blocks \ Live(g) /\ b \in Live(placed)
      /\ Live(placed) = Live(g) \cup {b} /\ placed.jc = g.jc
      /\ placed.blk = [g.blk EXCEPT ![b] = rec]
      /\ \A n \in Nodes : n[1] = b \/ placed.target[n] = b => placed.target[n] = None
  BY <1>1 DEF Placed
<1>3. \A x \in Blocks : placed.blk[x] = IF x = b THEN rec ELSE g.blk[x]
  <2>1. g.blk \in [Blocks -> BlockRecord]
    BY DEF CacheInv, BlockInv, CacheType
  <2>. QED  BY <1>2, <2>1
<1>4. /\ CacheInv(linked) /\ KeepsBlocks(placed, linked) /\ linked.jc = placed.jc
      /\ \A n \in Nodes : n[1] = b => linked.target[n] = None
  <2>1. CacheInv(placed) /\ b \in Live(placed)
    BY <1>2
  <2>2. \A n \in Nodes : n[1] = b \/ placed.target[n] = b => placed.target[n] = None
    BY <1>2
  <2>. QED  BY <2>1, <2>2, LinkPredecessorInv
<1>5. /\ linked.blk = placed.blk /\ Live(linked) = Live(placed) /\ linked.top = b
  BY <1>4 DEF KeepsBlocks, Live
<1>6. /\ n1 \in Nodes /\ n1[1] = b /\ n1[2] = 1
      /\ n2 \in Nodes /\ n2[1] = b /\ n2[2] = 2
  BY <1>2 DEF Nodes
<1>7. /\ branch \in Va \cup {NoVa} /\ (branch # NoVa => Page(branch) = Page(rec.va))
      /\ next \in Va \cup {NoVa} /\ (next # NoVa => Page(next) = Page(rec.va))
  BY <1>0, Targets
<1>8. placed.blk[b] = rec
  BY <1>2, <1>3
<1>9. /\ CacheInv(chained) /\ KeepsBlocks(linked, chained) /\ chained.jc = linked.jc
      /\ \A m \in Nodes : m # n1 => chained.target[m] = linked.target[m]
  <2>1. linked.blk[n1[1]] = rec /\ n1[1] \in Live(linked) /\ n1[1] = linked.top
    BY <1>2, <1>5, <1>6, <1>8
  <2>2. \A m \in Nodes : m[1] = n1[1] /\ m[2] >= n1[2] => linked.target[m] = None
    BY <1>4, <1>6
  <2>3. chained = EmitChainToBlock(linked, n1, branch)
    OBVIOUS
  <2>. HIDE DEF n1
  <2>. QED  BY <1>4, <1>6, <1>7, <2>1, <2>2, <2>3, EmitChainInv
<1>10. chained.blk = placed.blk /\ Live(chained) = Live(placed) /\ chained.top = b
  BY <1>5, <1>9 DEF KeepsBlocks, Live
<1>11. CacheInv(done) /\ KeepsBlocks(chained, done) /\ done.jc = chained.jc
  <2>1. chained.blk[n2[1]] = rec /\ n2[1] \in Live(chained) /\ n2[1] = chained.top
    BY <1>2, <1>6, <1>8, <1>10
  <2>2. \A m \in Nodes : m[1] = n2[1] /\ m[2] >= n2[2] => chained.target[m] = None
    <3>1. \A m \in Nodes : m[1] = n2[1] /\ m[2] >= n2[2] => m # n1 /\ m[1] = b
      BY <1>6
    <3>. QED  BY <1>4, <1>9, <3>1
  <2>3. done = EmitChainToBlock(chained, n2, next)
    OBVIOUS
  <2>4. CacheInv(chained) /\ n2 \in Nodes
    BY <1>6, <1>9
  <2>. HIDE DEF n1, n2, done
  <2>. QED  BY <1>7, <2>1, <2>2, <2>3, <2>4, EmitChainInv
<1>12. done.blk = placed.blk /\ Live(done) = Live(placed) /\ done.jc = g.jc
  BY <1>2, <1>4, <1>9, <1>10, <1>11 DEF KeepsBlocks, Live
<1>13. d = JumpCacheInsert(done, rec.va, b)
  OBVIOUS
<1>. HIDE DEF done
<1>14. /\ CacheInv(d) /\ KeepsBlocks(done, d)
       /\ \A i \in JcSlots : d.jc[i] = IF i = JcIndex(rec.va) THEN [va |-> rec.va, blk |-> b]
                                                              ELSE done.jc[i]
  BY <1>0, <1>2, <1>11, <1>13, JumpCacheInsertInv
<1>15. d.blk = placed.blk /\ Live(d) = Live(placed)
  BY <1>12, <1>14 DEF KeepsBlocks, Live
<1>16. /\ b \in Blocks \ Live(g) /\ Live(d) = Live(g) \cup {b}
       /\ \A x \in Blocks : d.blk[x] = IF x = b THEN rec ELSE g.blk[x]
  BY <1>2, <1>3, <1>15
<1>17. \A i \in JcSlots : d.jc[i] = IF i = JcIndex(rec.va) THEN [va |-> rec.va, blk |-> b]
                                                           ELSE g.jc[i]
  BY <1>12, <1>14
<1>. QED  BY <1>14, <1>16, <1>17 DEF Compiled

(* The cache the block is placed in, and what CompileBlock makes of it. *)
LEMMA CompileBlockCache ==
    ASSUME IInv, NEW va \in Va, NEW f \in Frames, CompileBlock(va, f)
    PROVE  \E last \in Words, frame2 \in Frames \cup {None}, g \in CacheType, b \in Blocks :
              LET rec == [va |-> va, last |-> last, frame |-> f, frame2 |-> frame2,
                          owner |-> IndexFor(va)]
              IN  /\ Shrinks(cache, g) /\ Compiled(g, cache', b, rec)
                  /\ outdated' \subseteq outdated \cap Live(g)
                  /\ marks' = marks \cup Marked(Covers(rec))
<1>. DEFINE e == Evicted(va)
<1>1. PICK last \in {l \in Words : <<va, l>> \in Runs}, full \in DoesNotFit(e) :
        \E frame2 \in SecondHalf(va, last) :
          LET rec    == [va |-> va, last |-> last, frame |-> f, frame2 |-> frame2,
                         owner |-> IndexFor(va)]
              placed == Place(IF full THEN FlushAll(e) ELSE e, rec)
              b      == placed.top
          IN  /\ \E src \in {None} \cup Predecessors(placed, b),
                    branch \in BranchTargets(va), next \in FallThrough(va, last) :
                   LET linked  == LinkPredecessor(placed, b, src)
                       chained == EmitChainToBlock(linked, <<b, 1>>, branch)
                   IN  cache' = JumpCacheInsert(
                                  EmitChainToBlock(chained, <<b, 2>>, next), va, b)
              /\ outdated' = IF full THEN {} ELSE outdated \cap Live(e)
              /\ marks' = marks \cup Marked(Covers(rec))
              /\ UNCHANGED <<dirty, purge, flushPending, asid, walks>>
  BY Zenon DEF CompileBlock
<1>2. Shrinks(cache, e) /\ e.index[IndexFor(va)][va] = None
  BY EvictedInv
<1>. HIDE DEF e
<1>. DEFINE g == IF full THEN FlushAll(e) ELSE e
<1>3. PICK frame2 \in SecondHalf(va, last) :
          LET rec    == [va |-> va, last |-> last, frame |-> f, frame2 |-> frame2,
                         owner |-> IndexFor(va)]
              placed == Place(g, rec)
              b      == placed.top
          IN  /\ \E src \in {None} \cup Predecessors(placed, b),
                    branch \in BranchTargets(va), next \in FallThrough(va, last) :
                   LET linked  == LinkPredecessor(placed, b, src)
                       chained == EmitChainToBlock(linked, <<b, 1>>, branch)
                   IN  cache' = JumpCacheInsert(
                                  EmitChainToBlock(chained, <<b, 2>>, next), va, b)
              /\ outdated' = IF full THEN {} ELSE outdated \cap Live(e)
              /\ marks' = marks \cup Marked(Covers(rec))
  BY <1>1
<1>. DEFINE rec == [va |-> va, last |-> last, frame |-> f, frame2 |-> frame2,
                    owner |-> IndexFor(va)]
            placed == Place(g, rec)
            b      == placed.top
<1>5. PICK src \in {None} \cup Predecessors(placed, b),
           branch \in BranchTargets(va), next \in FallThrough(va, last) :
        cache' = JumpCacheInsert(
                   EmitChainToBlock(EmitChainToBlock(LinkPredecessor(placed, b, src),
                                                     <<b, 1>>, branch),
                                    <<b, 2>>, next), va, b)
  BY <1>3
<1>6. /\ outdated' = IF full THEN {} ELSE outdated \cap Live(e)
      /\ marks' = marks \cup Marked(Covers(rec))
  BY <1>3
<1>7. frame2 \in Frames \cup {None}
  <2>1. Page(va) + 1 \in Pages => walks[Page(va) + 1] \subseteq Frames
    BY DEF IInv, TypeOK, Translations
  <2>. QED  BY <2>1 DEF SecondHalf
<1>8. IndexFor(va) \in Owners
  BY DEF IndexFor, Owners, IInv, TypeOK
<1>9. /\ rec \in BlockRecord /\ rec.owner = IndexFor(va) /\ rec.va = va
      /\ rec.frame = f /\ rec.last = last
  BY <1>7, <1>8 DEF BlockRecord
<1>10. f # None
  BY PageFacts
<1>11. Shrinks(cache, g) /\ g.top < Slots /\ g.index[IndexFor(va)][va] = None
  <2>1. CacheInv(e) /\ e.top \in 0 .. Slots
    BY <1>2 DEF Shrinks, CacheInv, BlockInv, CacheType
  <2>2. CASE full
    <3>1. g = FlushAll(e)
      BY <2>2
    <3>. HIDE DEF g
    <3>2. Shrinks(cache, g) /\ g.top = 0 /\ g.index[IndexFor(va)][va] = None
      BY <1>8, <2>1, <3>1, ShrinksFlush, FlushAllInv
    <3>. QED  BY <3>2, ConstantsAssumption
  <2>3. CASE ~full
    <3>1. g = e
      BY <2>3
    <3>2. e.top # Slots
      BY <2>3 DEF DoesNotFit
    <3>. QED  BY <1>2, <2>1, <3>1, <3>2, ConstantsAssumption
  <2>. QED  BY <2>2, <2>3
<1>12. CacheInv(g)
  BY <1>11 DEF Shrinks
<1>13. outdated' \subseteq outdated \cap Live(g)
  BY <1>6
<1>. HIDE DEF g
<1>14. Compiled(g, cache', b, rec)
  <2>. DEFINE linked  == LinkPredecessor(placed, b, src)
              chained == EmitChainToBlock(linked, <<b, 1>>, branch)
  <2>1. placed = Place(g, rec) /\ b = placed.top /\ linked = LinkPredecessor(placed, b, src)
    OBVIOUS
  <2>2. chained = EmitChainToBlock(linked, <<b, 1>>, branch)
    OBVIOUS
  <2>3. cache' = JumpCacheInsert(EmitChainToBlock(chained, <<b, 2>>, next), rec.va, b)
    BY <1>5, <1>9
  <2>4. branch \in BranchTargets(rec.va) /\ next \in FallThrough(rec.va, rec.last)
    BY <1>9
  <2>5. /\ rec \in BlockRecord /\ rec.owner \in Owners /\ rec.frame # None
        /\ g.index[rec.owner][rec.va] = None
    BY <1>8, <1>9, <1>10, <1>11
  <2>. HIDE DEF linked, chained, b, placed, rec
  <2>. QED  BY <1>5, <1>11, <1>12, <2>1, <2>2, <2>3, <2>4, <2>5, CompiledInv
<1>15. last \in Words
  OBVIOUS
<1>16. g \in CacheType /\ b \in Blocks
  <2>. HIDE DEF b
  <2>. QED  BY <1>12, <1>14 DEF CacheInv, BlockInv, Compiled
<1>. HIDE DEF b, placed
<1>. QED  BY <1>6, <1>7, <1>11, <1>13, <1>14, <1>15, <1>16

-----------------------------------------------------------------------------
(* The steps *)

(* What a step has to show that adds no block and no entry. *)
LEMMA ShrinkStep ==
    ASSUME IInv, Shrinks(cache, cache'),
           asid' \in Asids, walks' \in Translations, flushPending' \in BOOLEAN,
           dirty' \subseteq Window, purge' \subseteq Window, marks' \subseteq Window \X Words,
           outdated' \subseteq Live(cache'), PurgeInv',
           \A i \in JcSlots : cache'.jc[i].blk # None =>
               asid' = asid /\ walks[Page(cache'.jc[i].va)] \subseteq walks'[Page(cache'.jc[i].va)],
           \A b \in Live(cache') : Marked(Covers(cache.blk[b])) \subseteq marks',
           \A b \in outdated' :
               {cache.blk[b].frame, cache.blk[b].frame2} \cap (dirty' \cup purge') # {}
    PROVE  IInv'
<1>1. CacheInv(cache') /\ cache' \in CacheType
  BY DEF Shrinks, CacheInv, BlockInv
<1>2. \A b \in Live(cache') : cache'.blk[b] = cache.blk[b]
  BY DEF Shrinks
<1>3. TypeOK'
  <2>1. Live(cache') \subseteq 1 .. cache'.top
    BY <1>1 DEF CacheInv, BlockInv, PlaceInv, CacheType, Live, Blocks
  <2>. QED  BY <1>1, <2>1 DEF TypeOK
<1>4. MarkInv'
  BY <1>2 DEF MarkInv
<1>5. StoredCodeIsDirty'
  BY <1>2 DEF StoredCodeIsDirty
<1>6. JumpCacheFresh'
  <2>1. DOMAIN cache'.jc = JcSlots /\ DOMAIN cache.jc = JcSlots
    BY <1>1 DEF CacheType, IInv, TypeOK
  <2>2. ASSUME NEW i \in JcSlots, cache'.jc[i].blk # None
        PROVE  /\ JcIndex(cache'.jc[i].va) = i
               /\ cache'.blk[cache'.jc[i].blk].va = cache'.jc[i].va
               /\ cache'.blk[cache'.jc[i].blk].owner \in {Global, asid'}
               /\ cache'.blk[cache'.jc[i].blk].frame \in walks'[Page(cache'.jc[i].va)]
    <3>1. cache'.jc[i] = cache.jc[i] /\ cache'.jc[i].blk \in Live(cache')
      BY <2>2 DEF Shrinks
    <3>2. cache'.blk[cache'.jc[i].blk] = cache.blk[cache.jc[i].blk]
      BY <1>2, <3>1
    <3>3. /\ JcIndex(cache.jc[i].va) = i
          /\ cache.blk[cache.jc[i].blk].va = cache.jc[i].va
          /\ cache.blk[cache.jc[i].blk].owner \in {Global, asid}
          /\ cache.blk[cache.jc[i].blk].frame \in walks[Page(cache.jc[i].va)]
      BY <2>1, <2>2, <3>1 DEF IInv, JumpCacheFresh
    <3>4. asid' = asid /\ walks[Page(cache'.jc[i].va)] \subseteq walks'[Page(cache'.jc[i].va)]
      BY <2>2
    <3>. QED  BY <3>1, <3>2, <3>3, <3>4
  <2>. QED  BY <2>1, <2>2 DEF JumpCacheFresh
<1>. QED  BY <1>1, <1>3, <1>4, <1>5, <1>6 DEF IInv

(* Marks that only grow still cover the blocks that are left. *)
LEMMA MarksGrow ==
    ASSUME IInv, Shrinks(cache, cache'), marks \subseteq marks'
    PROVE  \A b \in Live(cache') : Marked(Covers(cache.blk[b])) \subseteq marks'
BY DEF IInv, MarkInv, Shrinks

LEMMA FlushStep ==
    ASSUME IInv, RunTop \/ FlushTranslationCache
    PROVE  IInv'
<1>1. Shrinks(cache, cache') /\ \A i \in JcSlots : cache'.jc[i].blk = None
  BY FlushAllInv, ShrinksFlush DEF RunTop, FlushTranslationCache, IInv
<1>2. /\ asid' \in Asids /\ walks' \in Translations /\ flushPending' \in BOOLEAN
      /\ dirty' \subseteq Window /\ purge' \subseteq Window /\ marks' \subseteq Window \X Words
      /\ outdated' = {} /\ marks' = marks /\ PurgeInv'
  BY DEF RunTop, FlushTranslationCache, IInv, TypeOK, PurgeInv
<1>. QED  BY <1>1, <1>2, MarksGrow, ShrinkStep

LEMMA CompileFindsBlockStep ==
    ASSUME IInv, NEW va \in Va, NEW f \in Frames, CompileFindsBlock(va, f)
    PROVE  IInv'
<1>. DEFINE b == Exact(va)
<1>1. /\ f \in walks[Page(va)] /\ b # None /\ cache.blk[b].frame = f
      /\ cache' = JumpCacheInsert(cache, va, b)
      /\ marks' = marks \cup Marked({<<f, Word(va)>>})
      /\ UNCHANGED <<dirty, outdated, purge, flushPending, asid, walks>>
  BY DEF CompileFindsBlock, Compiling, Reusable
<1>2. /\ b \in Live(cache) /\ cache.blk[b].va = va
      /\ cache.blk[b].owner \in {Global, asid}
  BY <1>1, ExactLive DEF IndexFor
<1>. HIDE DEF b
<1>3. b \in Blocks
  BY <1>2 DEF Live
<1>4. /\ CacheInv(cache') /\ KeepsBlocks(cache, cache')
      /\ \A i \in JcSlots : cache'.jc[i] = IF i = JcIndex(va) THEN [va |-> va, blk |-> b]
                                                              ELSE cache.jc[i]
  BY <1>1, <1>3, JumpCacheInsertInv DEF IInv
<1>5. cache'.blk = cache.blk /\ Live(cache') = Live(cache) /\ cache'.top = cache.top
  BY <1>4 DEF KeepsBlocks, Live
<1>6. TypeOK'
  <2>1. Marked({<<f, Word(va)>>}) \subseteq Window \X Words
    BY PageOfVa DEF Marked
  <2>2. cache' \in CacheType
    BY <1>4 DEF CacheInv, BlockInv
  <2>. QED  BY <1>1, <1>5, <2>1, <2>2 DEF IInv, TypeOK
<1>7. MarkInv' /\ StoredCodeIsDirty' /\ PurgeInv'
  BY <1>1, <1>5 DEF IInv, MarkInv, StoredCodeIsDirty, PurgeInv
<1>8. JumpCacheFresh'
  <2>1. DOMAIN cache'.jc = JcSlots /\ DOMAIN cache.jc = JcSlots
    BY <1>6 DEF CacheType, IInv, TypeOK
  <2>2. ASSUME NEW i \in JcSlots, cache'.jc[i].blk # None
        PROVE  /\ JcIndex(cache'.jc[i].va) = i
               /\ cache'.blk[cache'.jc[i].blk].va = cache'.jc[i].va
               /\ cache'.blk[cache'.jc[i].blk].owner \in {Global, asid'}
               /\ cache'.blk[cache'.jc[i].blk].frame \in walks'[Page(cache'.jc[i].va)]
    <3>1. CASE i = JcIndex(va)
      <4>1. cache'.jc[i].va = va /\ cache'.jc[i].blk = b
        BY <1>4, <3>1
      <4>. QED  BY <1>1, <1>2, <1>5, <3>1, <4>1
    <3>2. CASE i # JcIndex(va)
      <4>1. cache'.jc[i] = cache.jc[i]
        BY <1>4, <3>2
      <4>. QED  BY <1>1, <1>5, <2>1, <2>2, <4>1 DEF IInv, JumpCacheFresh
    <3>. QED  BY <3>1, <3>2
  <2>. QED  BY <2>1, <2>2 DEF JumpCacheFresh
<1>. QED  BY <1>4, <1>6, <1>7, <1>8 DEF IInv

LEMMA CompileFaultsStep ==
    ASSUME IInv, NEW va \in Va, NEW f \in Frames, CompileFaults(va, f)
    PROVE  IInv'
<1>1. /\ cache' = Evicted(va) /\ outdated' = outdated \cap Live(cache')
      /\ marks' = marks \cup Marked({<<f, Word(va)>>})
      /\ UNCHANGED <<dirty, purge, flushPending, asid, walks>>
  BY DEF CompileFaults
<1>2. Shrinks(cache, cache')
  BY <1>1, EvictedInv
<1>3. Marked({<<f, Word(va)>>}) \subseteq Window \X Words
  BY PageOfVa DEF Marked
<1>4. /\ asid' \in Asids /\ walks' \in Translations /\ flushPending' \in BOOLEAN
      /\ dirty' \subseteq Window /\ purge' \subseteq Window /\ marks' \subseteq Window \X Words
      /\ outdated' \subseteq Live(cache') /\ marks \subseteq marks'
      /\ asid' = asid /\ walks' = walks /\ PurgeInv'
  BY <1>1, <1>3 DEF IInv, TypeOK, PurgeInv
<1>5. \A b \in outdated' :
         {cache.blk[b].frame, cache.blk[b].frame2} \cap (dirty' \cup purge') # {}
  BY <1>1 DEF IInv, StoredCodeIsDirty
<1>. QED  BY <1>2, <1>4, <1>5, MarksGrow, ShrinkStep

LEMMA CompileBlockStep ==
    ASSUME IInv, NEW va \in Va, NEW f \in Frames, CompileBlock(va, f)
    PROVE  IInv'
<1>1. /\ f \in walks[Page(va)]
      /\ UNCHANGED <<dirty, purge, flushPending, asid, walks>>
  BY DEF CompileBlock, Compiling
<1>2. PICK last \in Words, frame2 \in Frames \cup {None}, g \in CacheType, b \in Blocks :
        LET rec == [va |-> va, last |-> last, frame |-> f, frame2 |-> frame2,
                    owner |-> IndexFor(va)]
        IN  /\ Shrinks(cache, g) /\ Compiled(g, cache', b, rec)
            /\ outdated' \subseteq outdated \cap Live(g)
            /\ marks' = marks \cup Marked(Covers(rec))
  BY CompileBlockCache
<1>. DEFINE rec == [va |-> va, last |-> last, frame |-> f, frame2 |-> frame2,
                    owner |-> IndexFor(va)]
<1>3. /\ Shrinks(cache, g) /\ Compiled(g, cache', b, rec)
      /\ outdated' \subseteq outdated \cap Live(g)
      /\ marks' = marks \cup Marked(Covers(rec))
  BY <1>2
<1>4. rec.va = va /\ rec.last = last /\ rec.frame = f /\ rec.frame2 = frame2
      /\ rec.owner \in {Global, asid}
  BY DEF IndexFor
<1>. HIDE DEF rec
<1>5. /\ CacheInv(cache') /\ cache' \in CacheType
      /\ b \in Blocks /\ b \notin Live(g) /\ Live(cache') = Live(g) \cup {b}
      /\ cache'.blk[b] = rec
      /\ \A x \in Live(g) : x \in Live(cache) /\ cache'.blk[x] = cache.blk[x]
      /\ \A i \in JcSlots : cache'.jc[i] = IF i = JcIndex(va) THEN [va |-> va, blk |-> b]
                                                              ELSE g.jc[i]
  <2>1. \A x \in Live(g) : x \in Blocks /\ x \in Live(cache) /\ g.blk[x] = cache.blk[x]
    BY <1>3 DEF Shrinks, Live
  <2>2. CacheInv(cache') /\ cache' \in CacheType
    BY <1>3 DEF Compiled, CacheInv, BlockInv
  <2>. QED  BY <1>3, <1>4, <2>1, <2>2 DEF Compiled
<1>6. TypeOK'
  <2>1. Live(cache') \subseteq 1 .. cache'.top
    BY <1>5 DEF CacheInv, BlockInv, PlaceInv, CacheType, Live, Blocks
  <2>2. Marked(Covers(rec)) \subseteq Window \X Words
    <3>1. \A w \in Word(va) .. last : w \in Words
      <4>1. Word(va) \in Words
        BY PageOfVa
      <4>. HIDE DEF Word
      <4>. QED  BY <4>1, ConstantsAssumption DEF Words
    <3>. QED  BY <1>4, <3>1, SmallFacts DEF Marked, Covers
  <2>3. marks' \subseteq Window \X Words
    BY <1>3, <2>2 DEF IInv, TypeOK
  <2>4. outdated' \subseteq Live(cache')
    BY <1>3, <1>5
  <2>. QED  BY <1>1, <1>5, <2>1, <2>3, <2>4 DEF IInv, TypeOK
<1>7. MarkInv'
  <2>1. ASSUME NEW x \in Live(cache') PROVE Marked(Covers(cache'.blk[x])) \subseteq marks'
    <3>1. CASE x = b
      BY <1>3, <1>5, <3>1
    <3>2. CASE x # b
      <4>1. x \in Live(cache) /\ cache'.blk[x] = cache.blk[x]
        BY <1>5, <3>2
      <4>. QED  BY <1>3, <4>1 DEF IInv, MarkInv
    <3>. QED  BY <3>1, <3>2
  <2>. QED  BY <2>1 DEF MarkInv
<1>8. StoredCodeIsDirty' /\ PurgeInv'
  <2>1. \A x \in outdated' : x \in outdated /\ cache'.blk[x] = cache.blk[x]
    BY <1>3, <1>5
  <2>. QED  BY <1>1, <2>1 DEF IInv, StoredCodeIsDirty, PurgeInv
<1>9. JumpCacheFresh'
  <2>1. DOMAIN cache'.jc = JcSlots /\ DOMAIN cache.jc = JcSlots
    BY <1>5 DEF CacheType, IInv, TypeOK
  <2>2. ASSUME NEW i \in JcSlots, cache'.jc[i].blk # None
        PROVE  /\ JcIndex(cache'.jc[i].va) = i
               /\ cache'.blk[cache'.jc[i].blk].va = cache'.jc[i].va
               /\ cache'.blk[cache'.jc[i].blk].owner \in {Global, asid'}
               /\ cache'.blk[cache'.jc[i].blk].frame \in walks'[Page(cache'.jc[i].va)]
    <3>1. CASE i = JcIndex(va)
      <4>1. cache'.jc[i].va = va /\ cache'.jc[i].blk = b
        BY <1>5, <3>1
      <4>. QED  BY <1>1, <1>4, <1>5, <3>1, <4>1
    <3>2. CASE i # JcIndex(va)
      <4>1. cache'.jc[i] = g.jc[i]
        BY <1>5, <3>2
      <4>2. cache'.jc[i] = cache.jc[i] /\ cache.jc[i].blk \in Live(g)
        BY <1>3, <2>2, <4>1 DEF Shrinks
      <4>3. cache'.blk[cache'.jc[i].blk] = cache.blk[cache.jc[i].blk]
        BY <1>5, <4>2
      <4>. QED  BY <1>1, <2>1, <2>2, <4>2, <4>3 DEF IInv, JumpCacheFresh
    <3>. QED  BY <3>1, <3>2
  <2>. QED  BY <2>1, <2>2 DEF JumpCacheFresh
<1>. QED  BY <1>5, <1>6, <1>7, <1>8, <1>9 DEF IInv

LEMMA StoreStep ==
    ASSUME IInv, NEW f \in Window, NEW w \in Words, NEW k \in 1 .. StoreWords,
           purge = {}, Store(f, w, k)
    PROVE  IInv'
<1>0. /\ Overwritten(f, w, k) \subseteq Live(cache)
      /\ \A b \in Overwritten(f, w, k) : f \in {cache.blk[b].frame, cache.blk[b].frame2}
  <2>1. ASSUME NEW b \in Overwritten(f, w, k)
        PROVE  b \in Live(cache) /\ \E v : <<f, v>> \in Covers(cache.blk[b])
    BY <2>1 DEF Overwritten
  <2>. QED  BY <2>1 DEF Covers
<1>1. /\ dirty' = IF <<f, w>> \in marks THEN dirty \cup {f} ELSE dirty
      /\ outdated' = IF Overwritten(f, w, 1) = {} THEN outdated
                     ELSE outdated \cup Overwritten(f, w, k)
      /\ UNCHANGED <<cache, marks, purge, flushPending, asid, walks>>
  BY DEF Store
<1>2. Shrinks(cache, cache')
  BY <1>1, ShrinksSame
<1>3. /\ asid' \in Asids /\ walks' \in Translations /\ flushPending' \in BOOLEAN
      /\ dirty' \subseteq Window /\ purge' \subseteq Window /\ marks' \subseteq Window \X Words
      /\ outdated' \subseteq Live(cache') /\ marks \subseteq marks'
      /\ asid' = asid /\ walks' = walks /\ PurgeInv'
  BY <1>0, <1>1 DEF IInv, TypeOK, PurgeInv
<1>4. ASSUME NEW b \in outdated'
      PROVE  {cache.blk[b].frame, cache.blk[b].frame2} \cap (dirty' \cup purge') # {}
  <2>1. CASE b \in outdated
    BY <1>1, <2>1 DEF IInv, StoredCodeIsDirty
  <2>2. CASE Overwritten(f, w, 1) # {} /\ b \in Overwritten(f, w, k)
    <3>1. PICK first \in Overwritten(f, w, 1) : TRUE
      BY <2>2
    <3>2. first \in Live(cache) /\ <<f, w>> \in Covers(cache.blk[first])
      <4>1. w .. w + 1 - 1 = {w}
        BY DEF Words
      <4>. QED  BY <3>1, <4>1 DEF Overwritten
    <3>3. <<f, w>> \in marks
      BY <3>2 DEF IInv, MarkInv, Marked
    <3>. QED  BY <1>0, <1>1, <2>2, <3>3
  <2>. QED  BY <1>1, <2>1, <2>2
<1>. QED  BY <1>2, <1>3, <1>4, MarksGrow, ShrinkStep

(* A page that is cleaned has no block left, stored to or not. *)
LEMMA InvalidateStep ==
    ASSUME IInv, NEW f \in Window, PurgeBlock(f) \/ PurgePage(f)
    PROVE  IInv'
<1>1. /\ f \in Unclean
      /\ cache' = IF cache.heads[f] = None THEN cache ELSE RemoveFirst(cache, f)
      /\ outdated' = outdated \cap Live(cache') /\ dirty' = {}
      /\ UNCHANGED <<flushPending, asid, walks>>
  BY DEF PurgeBlock, PurgePage, RemoveRange
<1>2. Shrinks(cache, cache')
  <2>1. CASE cache.heads[f] = None
    BY <1>1, <2>1, ShrinksSame
  <2>2. CASE cache.heads[f] # None
    <3>1. cache' = RemoveFirst(cache, f)
      BY <1>1, <2>2
    <3>2. cache.heads[f] \in OnPage(cache, f) /\ Removed(cache, cache', cache.heads[f])
      BY <2>2, <3>1, RemoveFirstInv DEF IInv
    <3>3. cache.heads[f] \in Live(cache)
      BY <3>2, OnPageLive DEF IInv, CacheInv
    <3>. QED  BY <3>2, <3>3, ShrinksRemoved
  <2>. QED  BY <2>1, <2>2
<1>3. CacheInv(cache') /\ \A b \in Live(cache') : b \in Live(cache) /\ cache'.blk[b] = cache.blk[b]
  BY <1>2 DEF Shrinks
<1>4. Unclean \subseteq Window /\ dirty \cup purge \subseteq Window
  BY DEF IInv, TypeOK, Unclean
<1>5. /\ asid' \in Asids /\ walks' \in Translations /\ flushPending' \in BOOLEAN
      /\ asid' = asid /\ walks' = walks
      /\ dirty' \subseteq Window /\ outdated' \subseteq Live(cache')
  BY <1>1 DEF IInv, TypeOK
<1>6. \A b \in outdated' : {cache.blk[b].frame, cache.blk[b].frame2} \cap Unclean # {}
  BY <1>1 DEF IInv, StoredCodeIsDirty, PurgeInv, Unclean
<1>7. PurgeInv'
  BY <1>1 DEF PurgeInv
<1>8. CASE PurgeBlock(f)
  <2>1. purge' = Unclean /\ marks' = marks
    BY <1>8 DEF PurgeBlock
  <2>2. purge' \subseteq Window /\ marks' \subseteq Window \X Words
    BY <1>4, <2>1 DEF IInv, TypeOK
  <2>3. \A b \in outdated' :
           {cache.blk[b].frame, cache.blk[b].frame2} \cap (dirty' \cup purge') # {}
    BY <1>6, <2>1
  <2>. QED  BY <1>2, <1>5, <1>7, <2>1, <2>2, <2>3, MarksGrow, ShrinkStep
<1>9. CASE PurgePage(f)
  <2>1. /\ cache'.heads[f] = None /\ purge' = Unclean \ {f}
        /\ marks' = {m \in marks : m[1] # f}
    BY <1>9 DEF PurgePage
  <2>2. \A b \in Live(cache') : f # cache.blk[b].frame /\ f # cache.blk[b].frame2
    <3>1. OnPage(cache', f) = {}
      <4>1. Highest(None, OnPage(cache', f), Blocks, BlockRank)
        BY <1>3, <2>1, PageFacts DEF CacheInv, PageInv, Sorted
      <4>2. OnPage(cache', f) \subseteq Blocks /\ None \notin Blocks
        BY SmallFacts DEF OnPage
      <4>. QED  BY <4>1, <4>2 DEF Highest
    <3>2. \A b \in Live(cache') : b \in Blocks
      BY DEF Live
    <3>. QED  BY <1>3, <3>1, <3>2 DEF OnPage
  <2>3. \A b \in Live(cache') : Marked(Covers(cache.blk[b])) \subseteq marks'
    <3>. SUFFICES ASSUME NEW b \in Live(cache'), NEW m \in Marked(Covers(cache.blk[b]))
                  PROVE  m \in marks'
      OBVIOUS
    <3>1. m \in marks
      BY <1>3 DEF IInv, MarkInv
    <3>2. m[1] = cache.blk[b].frame \/ m[1] = cache.blk[b].frame2
      BY DEF Marked, Covers
    <3>. QED  BY <2>1, <2>2, <3>1, <3>2
  <2>4. \A b \in outdated' :
           {cache.blk[b].frame, cache.blk[b].frame2} \cap (dirty' \cup purge') # {}
    BY <1>5, <1>6, <2>1, <2>2
  <2>5. purge' \subseteq Window /\ marks' \subseteq Window \X Words
    BY <1>4, <2>1 DEF IInv, TypeOK
  <2>. QED  BY <1>2, <1>5, <1>7, <2>1, <2>3, <2>4, <2>5, ShrinkStep
<1>. QED  BY <1>8, <1>9

(* What a guest's instruction does that leaves the blocks alone. *)
LEMMA AnswersStep ==
    ASSUME IInv, NEW tags, cache' = ClearEntries(cache, tags),
           asid' \in Asids, walks' \in Translations,
           UNCHANGED <<marks, dirty, outdated, purge, flushPending>>,
           \A va \in Va \ tags :
               asid' = asid /\ walks[Page(va)] \subseteq walks'[Page(va)]
    PROVE  IInv'
<1>1. /\ Shrinks(cache, cache') /\ Live(cache') = Live(cache) /\ cache'.blk = cache.blk
      /\ \A i \in JcSlots : cache'.jc[i].blk # None => cache'.jc[i].va \notin tags
  BY ShrinksClear
<1>2. \A i \in JcSlots : cache'.jc[i].blk # None =>
          asid' = asid /\ walks[Page(cache'.jc[i].va)] \subseteq walks'[Page(cache'.jc[i].va)]
  BY <1>1, AnswersLive DEF Shrinks
<1>3. /\ flushPending' \in BOOLEAN
      /\ dirty' \subseteq Window /\ purge' \subseteq Window /\ marks' \subseteq Window \X Words
      /\ outdated' \subseteq Live(cache') /\ marks \subseteq marks' /\ PurgeInv'
  BY <1>1 DEF IInv, TypeOK, PurgeInv
<1>4. \A b \in outdated' :
         {cache.blk[b].frame, cache.blk[b].frame2} \cap (dirty' \cup purge') # {}
  BY DEF IInv, StoredCodeIsDirty
<1>. QED  BY <1>1, <1>2, <1>3, <1>4, MarksGrow, ShrinkStep

LEMMA TlbInvalidateMvaStep ==
    ASSUME IInv, NEW pg \in Pages, TlbInvalidateMva(pg)
    PROVE  IInv'
<1>. DEFINE tags == {va \in Va : Page(va) = pg}
<1>1. /\ cache' = ClearEntries(cache, tags)
      /\ walks' \in Translations /\ TlbFlush({pg}) /\ asid' = asid
      /\ UNCHANGED <<marks, dirty, outdated, purge, flushPending>>
  BY DEF TlbInvalidateMva, JumpCacheClearPage
<1>2. \A va \in Va \ tags : walks[Page(va)] \subseteq walks'[Page(va)]
  BY <1>1, PageOfVa DEF TlbFlush
<1>3. asid' \in Asids
  BY <1>1 DEF IInv, TypeOK
<1>. HIDE DEF tags
<1>. QED  BY <1>1, <1>2, <1>3, AnswersStep

LEMMA TlbInvalidateAllStep ==
    ASSUME IInv, TlbInvalidateAll
    PROVE  IInv'
<1>1. /\ cache' = ClearEntries(cache, Va) /\ walks' \in Translations /\ asid' \in Asids
      /\ UNCHANGED <<marks, dirty, outdated, purge, flushPending>>
  BY DEF TlbInvalidateAll, JumpCacheFlush, IInv, TypeOK
<1>2. \A va \in Va \ Va : asid' = asid /\ walks[Page(va)] \subseteq walks'[Page(va)]
  OBVIOUS
<1>. QED  BY <1>1, <1>2, AnswersStep

LEMMA ContextSwitchStep ==
    ASSUME IInv, NEW a \in Asids, ContextSwitch(a)
    PROVE  IInv'
<1>1. /\ cache' = ClearEntries(cache, Va) /\ walks' \in Translations /\ asid' \in Asids
      /\ UNCHANGED <<marks, dirty, outdated, purge, flushPending>>
  BY DEF ContextSwitch, JumpCacheFlush
<1>2. \A va \in Va \ Va : asid' = asid /\ walks[Page(va)] \subseteq walks'[Page(va)]
  OBVIOUS
<1>. QED  BY <1>1, <1>2, AnswersStep

LEMMA SameCacheStep ==
    ASSUME IInv, UNCHANGED <<cache, marks, dirty, outdated, purge, asid>>,
           flushPending' \in BOOLEAN, walks' \in Translations,
           \A pg \in Pages : walks[pg] \subseteq walks'[pg]
    PROVE  IInv'
<1>1. Shrinks(cache, cache')
  BY ShrinksSame
<1>2. \A i \in JcSlots : cache'.jc[i].blk # None =>
          asid' = asid /\ walks[Page(cache'.jc[i].va)] \subseteq walks'[Page(cache'.jc[i].va)]
  BY AnswersLive, PageOfVa
<1>3. /\ asid' \in Asids
      /\ dirty' \subseteq Window /\ purge' \subseteq Window /\ marks' \subseteq Window \X Words
      /\ outdated' \subseteq Live(cache') /\ marks \subseteq marks' /\ PurgeInv'
  BY DEF IInv, TypeOK, PurgeInv
<1>4. \A b \in outdated' :
         {cache.blk[b].frame, cache.blk[b].frame2} \cap (dirty' \cup purge') # {}
  BY DEF IInv, StoredCodeIsDirty
<1>. QED  BY <1>1, <1>2, <1>3, <1>4, MarksGrow, ShrinkStep

LEMMA RemapStep ==
    ASSUME IInv, NEW pg \in Pages, NEW f \in MapsTo[pg], Remap(pg, f)
    PROVE  IInv'
<1>1. /\ walks' = [walks EXCEPT ![pg] = @ \cup {f}]
      /\ UNCHANGED <<cache, marks, dirty, outdated, purge, asid>>
      /\ flushPending' \in BOOLEAN
  BY DEF Remap, IInv, TypeOK
<1>2. /\ walks \in [Pages -> (SUBSET Frames) \ {{}}]
      /\ \A p \in Pages : walks[p] \subseteq MapsTo[p]
  BY DEF IInv, TypeOK, Translations
<1>3. f \in Frames
  BY ConstantsAssumption
<1>4. walks' \in [Pages -> (SUBSET Frames) \ {{}}]
  BY <1>1, <1>2, <1>3
<1>5. \A p \in Pages : walks'[p] \subseteq MapsTo[p] /\ walks[p] \subseteq walks'[p]
  BY <1>1, <1>2
<1>6. walks' \in Translations
  BY <1>4, <1>5 DEF Translations
<1>. QED  BY <1>1, <1>5, <1>6, SameCacheStep

-----------------------------------------------------------------------------
(* The invariant *)

LEMMA InitInv == Init => IInv
<1>. SUFFICES ASSUME Init PROVE IInv
  OBVIOUS
<1>1. /\ cache = EmptyCache /\ marks = {} /\ dirty = {} /\ outdated = {} /\ purge = {}
      /\ flushPending = FALSE /\ asid \in Asids /\ walks \in Translations
  BY DEF Init
<1>2. CacheInv(cache) /\ Live(cache) = {} /\ cache \in CacheType
  BY <1>1, EmptyInv, EmptyType
<1>3. DOMAIN cache.jc = JcSlots /\ \A i \in JcSlots : cache.jc[i].blk = None
  BY <1>1 DEF EmptyCache
<1>4. TypeOK /\ MarkInv /\ StoredCodeIsDirty /\ PurgeInv
  BY <1>1, <1>2 DEF TypeOK, MarkInv, StoredCodeIsDirty, PurgeInv
<1>5. JumpCacheFresh
  BY <1>3 DEF JumpCacheFresh
<1>. QED  BY <1>2, <1>4, <1>5 DEF IInv

LEMMA EntriesAreAddresses == Entries \subseteq Va
BY ConstantsAssumption DEF Entries

LEMMA StepInv == IInv /\ [Next]_vars => IInv'
<1>. SUFFICES ASSUME IInv, [Next]_vars PROVE IInv'
  OBVIOUS
<1>1. CASE RunTop \/ FlushTranslationCache
  BY <1>1, FlushStep
<1>2. ASSUME NEW va \in Entries, NEW f \in Frames, CompileFindsBlock(va, f) PROVE IInv'
  BY <1>2, EntriesAreAddresses, CompileFindsBlockStep
<1>3. ASSUME NEW va \in Entries, NEW f \in Frames, CompileFaults(va, f) PROVE IInv'
  BY <1>3, EntriesAreAddresses, CompileFaultsStep
<1>4. ASSUME NEW va \in Entries, NEW f \in Frames, CompileBlock(va, f) PROVE IInv'
  BY <1>4, EntriesAreAddresses, CompileBlockStep
<1>5. ASSUME NEW f \in Window, NEW w \in Words, NEW k \in 1 .. StoreWords,
             purge = {}, Store(f, w, k)
      PROVE  IInv'
  BY <1>5, StoreStep
<1>6. ASSUME NEW pg \in Pages, TlbInvalidateMva(pg) PROVE IInv'
  BY <1>6, TlbInvalidateMvaStep
<1>7. ASSUME NEW a \in Asids, ContextSwitch(a) PROVE IInv'
  BY <1>7, ContextSwitchStep
<1>8. ASSUME NEW pg \in Pages, NEW f \in MapsTo[pg], Remap(pg, f) PROVE IInv'
  BY <1>8, RemapStep
<1>9. CASE TlbInvalidateAll
  BY <1>9, TlbInvalidateAllStep
<1>10. CASE SctlrWrite \/ UNCHANGED vars
  <2>1. /\ UNCHANGED <<cache, marks, dirty, outdated, purge, asid>> /\ walks' = walks
        /\ flushPending' \in BOOLEAN /\ walks' \in Translations
    BY <1>10 DEF SctlrWrite, vars, IInv, TypeOK
  <2>. QED  BY <2>1, SameCacheStep
<1>11. ASSUME NEW f \in Window, PurgeBlock(f) \/ PurgePage(f) PROVE IInv'
  BY <1>11, InvalidateStep
<1>. QED
  BY <1>1, <1>2, <1>3, <1>4, <1>5, <1>6, <1>7, <1>8, <1>9, <1>10, <1>11
  DEF Next, Dispatch, Guest, Maintenance, InvalidateDirtyCodePages

THEOREM Invariance == Spec => []IInv
<1>1. Init => IInv
  BY InitInv
<1>2. IInv /\ [Next]_vars => IInv'
  BY StepInv
<1>. QED  BY <1>1, <1>2, PTL DEF Spec

-----------------------------------------------------------------------------
(* What it implies *)

(* Every value the cache, the marks, the dirty pages and the translations   *)
(* take is of its type, and only records below the arena's cursor are used. *)
THEOREM TypeCorrect == Spec => []TypeOK
BY Invariance, PTL DEF IInv

(* A removed block cannot be reached from another block: no patched jump,   *)
(* not even one of a block removed while it runs, and no entry of the jump  *)
(* cache leads to it (JitBlockIndex::UnlinkChains, RemoveNode, FlushAll).   *)
THEOREM RemovedUnreachable == Spec => []NoJumpToRemoved
<1>1. IInv => NoJumpToRemoved
  <2>. SUFFICES ASSUME IInv PROVE NoJumpToRemoved
    OBVIOUS
  <2>1. \A n \in Nodes : cache.site[n] \in Live(cache) \cup {None}
    BY DEF IInv, CacheInv, BlockInv, ChainInv, JumpInv
  <2>2. \A i \in JcSlots : cache.jc[i].blk \in Live(cache) \cup {None}
    BY AnswersLive
  <2>3. DOMAIN cache.jc = JcSlots
    BY DEF IInv, TypeOK, CacheType
  <2>. QED  BY <2>1, <2>2, <2>3 DEF NoJumpToRemoved
<1>. QED  BY <1>1, Invariance, PTL

(* The jump cache, probed by emitted code without a lookup of the           *)
(* translation, answers only what a translation could answer now.           *)
THEOREM JumpCacheCoherent == Spec => []JumpCacheFresh
BY Invariance, PTL DEF IInv

(* The jumps patched to lead to a block are all on the list that its        *)
(* removal walks, once each, and each stays in one page of one frame.       *)
THEOREM JumpsRecorded == Spec => []ChainsSound
<1>1. IInv => ChainsSound
  <2>. SUFFICES ASSUME IInv, NEW b \in Live(cache)
                PROVE  /\ WalkEnds(cache.head[b], cache.next)
                       /\ Sources(cache, b) = {n \in Nodes : cache.site[n] = b}
                       /\ \A n \in Sources(cache, b) :
                            /\ cache.target[n] = b /\ cache.want[n] = cache.blk[b].va
                            /\ cache.blk[n[1]].owner = cache.blk[b].owner
                            /\ cache.blk[n[1]].frame = cache.blk[b].frame
                            /\ Page(cache.blk[n[1]].va) = Page(cache.blk[b].va)
    BY DEF ChainsSound
  <2>1. CacheInv(cache) /\ BlockInv(cache) /\ cache \in CacheType
    BY DEF IInv, CacheInv, BlockInv
  <2>2. b \in Blocks /\ b # None /\ cache.blk[b].va \in Va /\ cache.blk[b].va # NoVa
    BY <2>1, LiveFacts, SmallFacts
  <2>3. Sources(cache, b) = JumpsTo(cache, b) /\ WalkEnds(cache.head[b], cache.next)
    BY <2>1, <2>2, SourcesAreJumpsTo DEF BlockInv
  <2>4. JumpsTo(cache, b) = {n \in Nodes : cache.site[n] = b}
    BY <2>1 DEF BlockInv, ChainInv, JumpsTo
  <2>5. ASSUME NEW n \in Nodes, cache.target[n] = b
        PROVE  /\ cache.want[n] = cache.blk[b].va
               /\ cache.blk[n[1]].owner = cache.blk[b].owner
               /\ cache.blk[n[1]].frame = cache.blk[b].frame
               /\ Page(cache.blk[n[1]].va) = Page(cache.blk[b].va)
    <3>1. /\ n[1] \in Live(cache) /\ cache.want[n] = cache.blk[b].va
          /\ cache.blk[n[1]].owner = cache.blk[b].owner
          /\ cache.blk[n[1]].frame = cache.blk[b].frame
      BY <2>1, <2>2, <2>5 DEF BlockInv, JumpInv
    <3>2. Page(cache.want[n]) = Page(cache.blk[n[1]].va)
      BY <2>1, <2>2, <3>1 DEF BlockInv, WantInv
    <3>. QED  BY <3>1, <3>2
  <2>. QED  BY <2>3, <2>4, <2>5 DEF JumpsTo
<1>. QED  BY <1>1, Invariance, PTL

(* The indexes hold exactly the live blocks, and a page's list exactly      *)
(* those with code on the page, so that cleaning it removes all of them.    *)
THEOREM BlocksReachable == Spec => []BlocksListed
<1>1. IInv => BlocksListed
  <2>. SUFFICES ASSUME IInv PROVE BlocksListed
    OBVIOUS
  <2>1. BlockInv(cache) /\ PageInv(cache)
    BY DEF IInv, CacheInv
  <2>2. ASSUME NEW f \in Window
        PROVE  /\ WalkEnds(cache.heads[f], PageNext(cache, f))
               /\ PageList(cache, f) =
                    {b \in Live(cache) : f \in {cache.blk[b].frame, cache.blk[b].frame2}}
    <3>. DEFINE M == [g \in Window |-> OnPage(cache, g)]
    <3>1. PageLists(cache, M)
      BY <2>1 DEF PageLists, PageInv
    <3>2. M[f] = OnPage(cache, f)
      OBVIOUS
    <3>. HIDE DEF M
    <3>3. PageList(cache, f) = OnPage(cache, f) /\ WalkEnds(cache.heads[f], PageNext(cache, f))
      BY <3>1, <3>2, PageListIs
    <3>4. OnPage(cache, f) =
            {b \in Live(cache) : f \in {cache.blk[b].frame, cache.blk[b].frame2}}
      BY <2>1, OnPageLive DEF OnPage, Live
    <3>. QED  BY <3>3, <3>4
  <2>. QED  BY <2>1, <2>2 DEF BlockInv, IndexInv, BlocksListed
<1>. QED  BY <1>1, Invariance, PTL

(* A block whose code was overwritten, by a store of any length that began  *)
(* at a word of some block's code, is on a page that is dirty or being      *)
(* cleaned, so that the guest's next I-cache invalidate takes it.  A store  *)
(* that began elsewhere is not noticed: CodeStores, StaleCodeIsDirty.       *)
THEOREM OverwrittenCodeDirty == Spec => []StoredCodeIsDirty
BY Invariance, PTL DEF IInv

(* An I-cache invalidate is complete for the stores the code notices: the   *)
(* step that ends it leaves no block overwritten by a store, of any length, *)
(* that began at a word of translated code, however many pages were dirty.  *)
THEOREM InvalidateComplete ==
  Spec => [][InvalidateDirtyCodePages /\ purge' = {} => outdated' = {}]_vars
<1>1. ASSUME IInv', InvalidateDirtyCodePages, purge' = {}
      PROVE  outdated' = {}
  <2>1. dirty' = {}
    BY <1>1 DEF InvalidateDirtyCodePages, PurgeBlock, PurgePage, RemoveRange
  <2>. QED  BY <1>1, <2>1 DEF IInv, StoredCodeIsDirty
<1>. QED  BY <1>1, Invariance, PTL

=============================================================================
