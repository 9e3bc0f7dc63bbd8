--------------------------- MODULE TranslationCache ---------------------------
(***************************************************************************)
(* The ARM engine's translated code: ArmTranslationCache, the IsaBlockSpace *)
(* of one instruction set, the compiler's block placement and chaining, and *)
(* the dispatcher and emitted probes that choose the block to run.          *)
(*                                                                         *)
(* A block is a record in the arena.  It is reached through its index (one *)
(* for global pages, one per ASID), through the jump cache, through the    *)
(* jumps other blocks were patched with, and through the lists of the      *)
(* physical pages its code came from; every operation has to keep the four *)
(* in step, whichever of them it starts from.  Which block runs is not kept: *)
(* a chained jump, the inline probe of the jump cache and a dispatch that    *)
(* hits it change nothing, they follow what the properties below speak of.   *)
(*                                                                         *)
(* The unit of memory is one instruction: a page holds PageWords of them.  *)
(* The index is the map JitBlockIndex implements (module BlockMap).        *)
(***************************************************************************)
EXTENDS Naturals, FiniteSets

CONSTANTS
  NumPages,      \* virtual pages 0 .. NumPages - 1
  PageWords,     \* instructions in a page
  Frames,        \* physical pages
  Window,        \* those in the board's cached DRAM: page_base, page_count
  GlobalPages,   \* virtual pages whose entries have nG = 0
  MapsTo,        \* the frames the guest may map a page to
  Asids,
  Runs,          \* the guest's straight-line runs: first address, last word
  Slots,         \* blocks that fit the arena
  JumpCacheSize,
  StoreWords     \* the most words written after one test of the first

None    == 0
NoNode  == <<None, 1>>
NoOwner == "none"
Global  == "global"

Pages  == 0 .. NumPages - 1
Words  == 0 .. PageWords - 1
NoVa   == NumPages * PageWords
Va     == 0 .. NoVa - 1
Entries == {run[1] : run \in Runs}
Blocks  == 1 .. Slots
Owners  == Asids \cup {Global}
Nodes   == Blocks \X {1, 2}   \* a block's two jumps, or its two page links
JcSlots == 0 .. JumpCacheSize - 1

VARIABLES
  cache,         \* the arena's blocks and everything that leads to them
  marks,         \* code_xlat_bitmap: the physical words code was read from
  dirty,         \* code_page_dirty
  outdated,      \* blocks with a word stored to since it was translated, by a
                 \* store that began at a word of translated code
  purge,         \* InvalidateDirtyCodePages: the pages it has still to clean
  flushPending,  \* flush_pending_, and kChainExitFlush with it
  asid,          \* CONTEXTIDR
  walks          \* the frames the guest has to reckon with for a page of the
                 \* current address space: the page table's entry, and older
                 \* ones until the guest's own TLB maintenance.  A write of
                 \* DACR flushes the emulated TLB and nothing else: to the
                 \* guest it is no maintenance, so it has no action

vars == <<cache, marks, dirty, outdated, purge, flushPending, asid, walks>>

-----------------------------------------------------------------------------
(* Addresses *)

Page(va)   == va \div PageWords
Word(va)   == va % PageWords
JcIndex(va) == va % JumpCacheSize

ASSUME ConstantsAssumption ==
  /\ NumPages \in Nat \ {0} /\ PageWords \in Nat \ {0}
  /\ Slots \in Nat \ {0} /\ JumpCacheSize \in Nat \ {0} /\ StoreWords \in Nat \ {0}
  /\ Frames \subseteq Nat /\ Window \subseteq Frames /\ GlobalPages \subseteq Pages
  /\ Asids \cap {Global, NoOwner} = {} /\ None \notin Frames
  /\ \A run \in Runs : run[1] \in Va /\ run[2] \in Word(run[1]) .. PageWords - 1
  /\ MapsTo \in [Pages -> (SUBSET Frames) \ {{}}]

Unplaced == [va |-> 0, last |-> 0, frame |-> None, frame2 |-> None,
             owner |-> NoOwner]

EmptyCache == [blk       |-> [b \in Blocks |-> Unplaced],
               top       |-> 0,
               want      |-> [n \in Nodes |-> NoVa],
               site      |-> [n \in Nodes |-> None],
               target    |-> [n \in Nodes |-> None],
               next      |-> [n \in Nodes |-> NoNode],
               head      |-> [b \in Blocks |-> NoNode],
               pageNext  |-> [n \in Nodes |-> None],
               heads     |-> [f \in Frames |-> None],
               index     |-> [o \in Owners |-> [va \in Va |-> None]],
               populated |-> {},
               jc        |-> [i \in JcSlots |-> [va |-> 0, blk |-> None]]]

\* The physical words a block was translated from.  `last' is the last word of
\* its own page; a split block also holds the first word of frame2.
Covers(blk) ==
  (IF blk.owner = NoOwner THEN {}
   ELSE {<<blk.frame, w>> : w \in Word(blk.va) .. blk.last})
  \cup (IF blk.frame2 = None THEN {} ELSE {<<blk.frame2, 0>>})

Live(c) == {b \in Blocks : c.blk[b].owner # NoOwner}

-----------------------------------------------------------------------------
(* Linked lists: a first node and the next one of each, any value that is   *)
(* not a node for none.                                                     *)

Closed(S, first, next) ==
  /\ first \in DOMAIN next => first \in S
  /\ \A n \in S : next[n] \in DOMAIN next => next[n] \in S

\* The nodes a walk from the first one comes to.
OnList(first, next) ==
  {n \in DOMAIN next :
     \A S \in SUBSET DOMAIN next : Closed(S, first, next) => n \in S}

\* The walk comes to an end; then it meets no node twice.
WalkEnds(first, next) ==
  first \in DOMAIN next => \E n \in OnList(first, next) : next[n] \notin DOMAIN next

-----------------------------------------------------------------------------
(* The jumps between blocks: site is the jump in the native code, the other *)
(* fields the record of it, <<block, slot>> a node of the list of the jumps *)
(* that lead to a block.                                                    *)

Sources(c, dest) == OnList(c.head[dest], c.next)

LinkChain(c, n, dest) ==
  [c EXCEPT !.site[n]    = dest,
            !.target[n]  = dest,
            !.next[n]    = c.head[dest],
            !.head[dest] = n]

\* Mutant: the record is cleared, the jump in the native code stays.
UnchainedRecordOnly(c, nodes) ==
  [c EXCEPT !.target = [n \in Nodes |-> IF n \in nodes THEN None ELSE @[n]],
            !.next   = [n \in Nodes |-> IF n \in nodes THEN NoNode ELSE @[n]]]

\* RestoreFallbackJump, and the fields both callers clear with it.
Unchained(c, nodes) ==
  [c EXCEPT !.site   = [n \in Nodes |-> IF n \in nodes THEN None ELSE @[n]],
            !.target = [n \in Nodes |-> IF n \in nodes THEN None ELSE @[n]],
            !.next   = [n \in Nodes |-> IF n \in nodes THEN NoNode ELSE @[n]]]

\* The walk from dest's head to the node before n, which then skips it.
SkipNode(c, n, dest) ==
  IF c.head[dest] = n
  THEN [c EXCEPT !.head[dest] = c.next[n]]
  ELSE [c EXCEPT !.next = [m \in Nodes |->
          IF m \in Sources(c, dest) /\ c.next[m] = n THEN c.next[n] ELSE @[m]]]

DetachFromDest(c, n) ==
  LET dest == c.target[n]
  IN  IF dest = None THEN c ELSE Unchained(SkipNode(c, n, dest), {n})

UnlinkChains(c, b) ==
  LET detached == DetachFromDest(DetachFromDest(c, <<b, 1>>), <<b, 2>>)
  IN  [Unchained(detached, Sources(detached, b)) EXCEPT !.head[b] = NoNode]

-----------------------------------------------------------------------------
(* The jump cache and the page lists of IsaBlockSpace *)

JumpCacheLookup(c, va) ==
  IF c.jc[JcIndex(va)].va = va THEN c.jc[JcIndex(va)].blk ELSE None

JumpCacheInsert(c, va, b) ==
  [c EXCEPT !.jc[JcIndex(va)] = [va |-> va, blk |-> b]]

ClearEntries(c, tags) ==
  [c EXCEPT !.jc = [i \in JcSlots |->
     IF @[i].va \in tags THEN [va |-> 0, blk |-> None] ELSE @[i]]]

ClearJcSlot(c, va)        == ClearEntries(c, {va})
JumpCacheClearPage(c, pg) == ClearEntries(c, {va \in Va : Page(va) = pg})
JumpCacheFlush(c)         == ClearEntries(c, Va)

LinkSlot(blk, f) == IF blk.frame = f THEN 1 ELSE 2
PageOf(blk, slot) == IF slot = 1 THEN blk.frame ELSE blk.frame2
TwoPages(blk) == blk.frame2 # None /\ blk.frame2 # blk.frame

LinkIntoPage(c, b, slot) ==
  LET f == PageOf(c.blk[b], slot)
  IN  IF f \notin Window THEN c
      ELSE [c EXCEPT !.pageNext[<<b, slot>>] = c.heads[f], !.heads[f] = b]

IndexInsert(c, b) ==
  LET first == LinkIntoPage(c, b, 1)
  IN  IF TwoPages(c.blk[b]) THEN LinkIntoPage(first, b, 2) ELSE first

\* page_next in the records of a page's list: a block may be on two of them.
PageLink(c, b, f)   == <<b, LinkSlot(c.blk[b], f)>>
PageNext(c, f)      == [b \in Blocks |-> c.pageNext[PageLink(c, b, f)]]
PageList(c, f)      == OnList(c.heads[f], PageNext(c, f))

\* Mutant: the walk follows the removed block's slot in every record.
SkipBlockBySlot(c, b, f, after) ==
  IF c.heads[f] = b
  THEN [c EXCEPT !.heads[f] = after]
  ELSE [c EXCEPT !.pageNext = [n \in Nodes |->
          IF n[1] \in PageList(c, f) /\ n = PageLink(c, b, f) /\ @[n] = b
          THEN after ELSE @[n]]]

\* The walk along a page's list to the link that leads to b.
SkipBlock(c, b, f, after) ==
  IF c.heads[f] = b
  THEN [c EXCEPT !.heads[f] = after]
  ELSE [c EXCEPT !.pageNext = [n \in Nodes |->
          IF n[1] \in PageList(c, f) /\ n = PageLink(c, n[1], f) /\ @[n] = b
          THEN after ELSE @[n]]]

UnlinkFromPage(c, b, slot) ==
  LET f == PageOf(c.blk[b], slot)
  IN  IF (slot = 2 /\ ~TwoPages(c.blk[b])) \/ f \notin Window THEN c
      ELSE SkipBlock(c, b, f, c.pageNext[<<b, slot>>])

\* The record stays in the arena with its native code, jumps included, until
\* the arena is flushed: it may be the block in execution.
RemoveNode(c, b) ==
  LET rec == c.blk[b]
      cut == ClearJcSlot(UnlinkChains(c, b), rec.va)
  IN  [cut EXCEPT !.index[rec.owner][rec.va] = None,
                  !.blk[b] = Unplaced]

RemoveBlock(c, b) ==
  RemoveNode(UnlinkFromPage(UnlinkFromPage(c, b, 1), b, 2), b)

\* RemoveRange over a whole page, which every block on its list intersects:
\* what it does to the first of them.
RemoveFirst(c, f) ==
  LET b == c.heads[f]
      popped == [c EXCEPT !.heads[f] = c.pageNext[PageLink(c, b, f)]]
  IN  RemoveNode(UnlinkFromPage(popped, b, 3 - LinkSlot(c.blk[b], f)), b)

\* Mutant: the arena is reclaimed, the indexes, lists and jump cache stay.
FlushArenaOnly(c) == [c EXCEPT !.top = 0]

FlushAll(c) ==
  [EmptyCache EXCEPT !.index =
     [o \in Owners |-> IF o = Global \/ o \in c.populated
                       THEN [va \in Va |-> None] ELSE c.index[o]]]

-----------------------------------------------------------------------------
(* The dispatcher (ArmJit::Run) and the compiler *)

\* TranslateExecute marks the words it fetches; a page is global by its entry.
Translations == {t \in [Pages -> (SUBSET Frames) \ {{}}] :
                   \A pg \in Pages : t[pg] \subseteq MapsTo[pg]}
Marked(fetched) == {m \in fetched : m[1] \in Window}
IndexFor(va)    == IF Page(va) \in GlobalPages THEN Global ELSE asid

Init ==
  /\ cache = EmptyCache
  /\ marks = {} /\ dirty = {} /\ outdated = {} /\ purge = {}
  /\ flushPending = FALSE
  /\ asid \in Asids
  /\ walks \in Translations /\ \A pg \in Pages : Cardinality(walks[pg]) = 1

\* The TLB no longer answers with anything but the page tables' own entries.
TlbFlush(pages) ==
  /\ \A pg \in Pages : walks'[pg] \subseteq walks[pg]
  /\ \A pg \in Pages : IF pg \in pages THEN Cardinality(walks'[pg]) = 1
                       ELSE walks'[pg] = walks[pg]

\* SynchronizeSctlr at the top of Run, where the written control register takes
\* effect and with it another translation regime, and the flush Lookup performs.
RunTop ==
  /\ flushPending
  /\ walks' \in {t \in Translations : \A pg \in Pages : Cardinality(t[pg]) = 1}
  /\ cache' = FlushAll(cache) /\ outdated' = {}
  /\ flushPending' = FALSE
  /\ UNCHANGED <<marks, dirty, purge, asid>>

\* Compile is called for va, whose page the fetch resolved to frame f.
Compiling(va, f) ==
  /\ ~flushPending
  /\ JumpCacheLookup(cache, va) = None
  /\ f \in walks[Page(va)]

Exact(va) == cache.index[IndexFor(va)][va]
Reusable(va, f) == Exact(va) # None /\ cache.blk[Exact(va)].frame = f

CompileFindsBlock(va, f) ==
  /\ Compiling(va, f) /\ Reusable(va, f)
  /\ cache' = JumpCacheInsert(cache, va, Exact(va))
  /\ marks' = marks \cup Marked({<<f, Word(va)>>})
  /\ UNCHANGED <<dirty, outdated, purge, flushPending, asid, walks>>

\* A block of that address from another frame is removed before the decode.
Evicted(va) == IF Exact(va) = None THEN cache ELSE RemoveBlock(cache, Exact(va))

\* The second half of a wide instruction cannot be fetched: prefetch abort.
CompileFaults(va, f) ==
  /\ Compiling(va, f) /\ ~Reusable(va, f)
  /\ Word(va) = PageWords - 1
  /\ cache' = Evicted(va)
  /\ outdated' = outdated \cap Live(cache')
  /\ marks' = marks \cup Marked({<<f, Word(va)>>})
  /\ UNCHANGED <<dirty, purge, flushPending, asid, walks>>

\* PlaceOuterAt and IndexInsert at the arena's cursor.
Place(c, rec) ==
  LET b == c.top + 1
      placed == [c EXCEPT !.blk[b] = rec, !.top = b,
                          !.index[rec.owner][rec.va] = b,
                          !.populated = @ \cup ({rec.owner} \ {Global})]
  IN  IndexInsert(placed, b)

\* The block that ran last, where it left a jump to this one open: it is looked
\* up by its address alone, so it may also be another block of that address.
Predecessors(c, b) ==
  LET rec == c.blk[b]
  IN  {src \in Live(c) \ {b} :
         /\ c.blk[src].owner = rec.owner /\ c.blk[src].frame = rec.frame
         /\ \E s \in 1 .. 2 : c.want[<<src, s>>] = rec.va}

LinkJump(c, n, b) ==
  IF c.target[n] = None /\ c.want[n] = c.blk[b].va THEN LinkChain(c, n, b) ELSE c

LinkPredecessor(c, b, src) ==
  IF src = None THEN c ELSE LinkJump(LinkJump(c, <<src, 1>>, b), <<src, 2>>, b)

\* Mutant: the destination is chained to without comparing its frame.
EmitChainUnchecked(c, n, target) ==
  LET dest   == c.index[c.blk[n[1]].owner][target]
      wanted == [c EXCEPT !.want[n] = target]
  IN  IF target \in {NoVa, c.blk[n[1]].va} THEN c
      ELSE IF dest = None THEN wanted ELSE LinkChain(wanted, n, dest)

\* A direct branch to `target' in this block's page, NoVa for any other end.  A
\* jump of a block to its own start is neither recorded nor ever cut.
EmitChainToBlock(c, n, target) ==
  LET rec    == c.blk[n[1]]
      dest   == c.index[rec.owner][target]
      wanted == [c EXCEPT !.want[n] = target]
  IN  IF target \in {NoVa, rec.va} THEN c
      ELSE IF dest = None \/ c.blk[dest].frame # rec.frame THEN wanted
      ELSE LinkChain(wanted, n, dest)

BranchTargets(va) == {t \in Entries : Page(t) = Page(va)} \cup {NoVa}
FallThrough(va, last) ==
  {NoVa} \cup IF last = PageWords - 1 THEN {}
              ELSE {Page(va) * PageWords + last + 1}

\* The frames of the second half of a wide instruction at the end of the page.
SecondHalf(va, last) ==
  {None} \cup IF Word(va) # PageWords - 1 \/ Page(va) + 1 \notin Pages THEN {}
              ELSE walks[Page(va) + 1]

\* The slab is too small for the block: the cache is flushed and the block
\* compiled again, after RemoveBlock took the unfinished one out.
DoesNotFit(c) == IF c.top = Slots THEN {TRUE}
                 ELSE IF c.top = Slots - 1 THEN BOOLEAN ELSE {FALSE}

CompileBlock(va, f) ==
  /\ Compiling(va, f) /\ ~Reusable(va, f)
  /\ \E last \in {l \in Words : <<va, l>> \in Runs}, full \in DoesNotFit(Evicted(va)) :
     \E frame2 \in SecondHalf(va, last) :
       LET evicted == Evicted(va)
           rec    == [va |-> va, last |-> last, frame |-> f, frame2 |-> frame2,
                      owner |-> IndexFor(va)]
           placed == Place(IF full THEN FlushAll(evicted) ELSE evicted, rec)
           b      == placed.top
       IN  /\ \E src \in {None} \cup Predecessors(placed, b),
                 branch \in BranchTargets(va), next \in FallThrough(va, last) :
                LET linked  == LinkPredecessor(placed, b, src)
                    chained == EmitChainToBlock(linked, <<b, 1>>, branch)
                IN  cache' = JumpCacheInsert(
                               EmitChainToBlock(chained, <<b, 2>>, next), va, b)
           /\ outdated' = IF full THEN {} ELSE outdated \cap Live(evicted)
           /\ marks' = marks \cup Marked(Covers(rec))
           /\ UNCHANGED <<dirty, purge, flushPending, asid, walks>>

\* A reset, a restored state or a cold boot, with the JIT thread in the
\* dispatcher or parked.
FlushTranslationCache ==
  /\ cache' = FlushAll(cache) /\ outdated' = {}
  /\ UNCHANGED <<marks, dirty, purge, flushPending, asid, walks>>

-----------------------------------------------------------------------------
(* What emitted code calls *)

\* The blocks a store of n words overwrites code of.
Overwritten(f, w, n) ==
  LET written == {<<f, v>> : v \in w .. w + n - 1}
  IN  {b \in Live(cache) : Covers(cache.blk[b]) \cap written # {}}

\* ArmNoteCodeTracking of a write, and its emitted twin: the first word is
\* tested, whether a word is written after it or all AccessPaged copies.
Store(f, w, n) ==
  /\ w + n <= PageWords
  /\ dirty' = IF <<f, w>> \in marks THEN dirty \cup {f} ELSE dirty
  /\ outdated' = IF Overwritten(f, w, 1) = {} THEN outdated
                 ELSE outdated \cup Overwritten(f, w, n)
  /\ UNCHANGED <<cache, marks, purge, flushPending, asid, walks>>

\* An I-cache invalidate of any kind drops the blocks of every dirty page and
\* unmarks the page.  A step is a block, the last one of a page with its end.
Unclean == IF purge = {} THEN dirty ELSE purge

RemoveRange(f) ==
  /\ f \in Unclean /\ \A g \in Unclean : f <= g
  /\ cache' = IF cache.heads[f] = None THEN cache ELSE RemoveFirst(cache, f)
  /\ outdated' = outdated \cap Live(cache')
  /\ dirty' = {}
  /\ UNCHANGED <<flushPending, asid, walks>>

PurgeBlock(f) ==
  /\ RemoveRange(f) /\ cache'.heads[f] # None
  /\ purge' = Unclean
  /\ UNCHANGED marks

\* Mutant: the whole bitmap is cleared, not the page's part.
PurgeUnmarksAll(f) ==
  /\ RemoveRange(f) /\ cache'.heads[f] = None
  /\ purge' = Unclean \ {f}
  /\ marks' = {}

PurgePage(f) ==
  /\ RemoveRange(f) /\ cache'.heads[f] = None
  /\ purge' = Unclean \ {f}
  /\ marks' = {m \in marks : m[1] # f}

\* UtlbInvalidateMvaHelper and ItlbInvalidateMvaHelper: every ASID's entry.
TlbInvalidateMva(pg) ==
  /\ walks' \in Translations /\ TlbFlush({pg})
  /\ cache' = JumpCacheClearPage(cache, pg)
  /\ UNCHANGED <<marks, dirty, outdated, purge, flushPending, asid>>

TlbInvalidateAll ==
  /\ walks' \in Translations /\ TlbFlush(Pages)
  /\ cache' = JumpCacheFlush(cache)
  /\ UNCHANGED <<marks, dirty, outdated, purge, flushPending, asid>>

\* Mutant: the jump cache is kept over a change of address space.
ContextSwitchUnflushed(a) ==
  /\ a # asid
  /\ asid' = a
  /\ walks' \in {t \in Translations :
                 \A pg \in GlobalPages : t[pg] = walks[pg]}
  /\ UNCHANGED <<cache, marks, dirty, outdated, purge, flushPending>>

\* A write of CONTEXTIDR that changes it.  What the new address space maps its
\* own pages to may have changed while another one was current.
ContextSwitch(a) ==
  /\ a # asid
  /\ asid' = a
  /\ walks' \in {t \in Translations :
                 \A pg \in GlobalPages : t[pg] = walks[pg]}
  /\ cache' = JumpCacheFlush(cache)
  /\ UNCHANGED <<marks, dirty, outdated, purge, flushPending>>

\* The guest rewrites a page table entry of the current address space.
Remap(pg, f) ==
  /\ f \notin walks[pg]
  /\ walks' = [walks EXCEPT ![pg] = @ \cup {f}]
  /\ UNCHANGED <<cache, marks, dirty, outdated, purge, flushPending, asid>>

\* SctlrWriteHelper: the calling block goes on, so the flush is pended.
SctlrWrite ==
  /\ flushPending' = TRUE
  /\ UNCHANGED <<cache, marks, dirty, outdated, purge, asid, walks>>

Dispatch ==
  \/ RunTop \/ FlushTranslationCache
  \/ \E va \in Entries, f \in Frames :
       CompileFindsBlock(va, f) \/ CompileFaults(va, f) \/ CompileBlock(va, f)

Maintenance ==
  \/ \E pg \in Pages : TlbInvalidateMva(pg)
  \/ \E a \in Asids : ContextSwitch(a)
  \/ \E pg \in Pages : \E f \in MapsTo[pg] : Remap(pg, f)
  \/ TlbInvalidateAll \/ SctlrWrite

Guest ==
  \/ Maintenance
  \/ \E f \in Window, w \in Words, n \in 1 .. StoreWords : Store(f, w, n)

InvalidateDirtyCodePages == \E f \in Window : PurgeBlock(f) \/ PurgePage(f)

\* One thread does all of it; an invalidation ends before anything else.
Next == (purge = {} /\ (Dispatch \/ Guest)) \/ InvalidateDirtyCodePages
Spec == Init /\ [][Next]_vars

-----------------------------------------------------------------------------
(* Properties *)

BlockRecord ==
  [va : Va, last : Words, frame : Frames \cup {None},
   frame2 : Frames \cup {None}, owner : Owners \cup {NoOwner}]

CacheType ==
  [blk : [Blocks -> BlockRecord], top : 0 .. Slots,
   want : [Nodes -> Va \cup {NoVa}],
   site : [Nodes -> 0 .. Slots], target : [Nodes -> 0 .. Slots],
   next : [Nodes -> Nodes \cup {NoNode}],
   head : [Blocks -> Nodes \cup {NoNode}],
   pageNext : [Nodes -> 0 .. Slots], heads : [Frames -> 0 .. Slots],
   index : [Owners -> [Va -> 0 .. Slots]], populated : SUBSET Asids,
   jc : [JcSlots -> [va : Va, blk : 0 .. Slots]]]

\* Types of the state.  A block record is well formed, and only records below
\* the arena's cursor are in use.
TypeOK ==
  /\ cache \in CacheType /\ Live(cache) \subseteq 1 .. cache.top
  /\ marks \subseteq Window \X Words
  /\ dirty \subseteq Window /\ purge \subseteq Window
  /\ outdated \subseteq Live(cache)
  /\ flushPending \in BOOLEAN /\ asid \in Asids
  /\ walks \in Translations

\* No block's code leads to another block that was removed: not a chained jump
\* of a block that is live, nor one of a block removed while it runs; and no
\* entry of the jump cache does.  (A block that jumps to its own start goes on
\* doing so when it is removed, until the poll at that jump leaves it.)
NoJumpToRemoved ==
  /\ \A n \in Nodes : cache.site[n] \in Live(cache) \cup {None}
  /\ \A i \in DOMAIN cache.jc : cache.jc[i].blk \in Live(cache) \cup {None}

\* What the jump cache answers is what a translation of that address could
\* answer now: a block of that address, of the current address space, from a
\* frame the page tables or a TLB entry not yet invalidated map it to.
JumpCacheFresh ==
  \A i \in DOMAIN cache.jc :
    LET e == cache.jc[i]
        b == cache.blk[e.blk]
    IN  e.blk # None => /\ JcIndex(e.va) = i
                        /\ b.va = e.va /\ b.owner \in {Global, asid}
                        /\ b.frame \in walks[Page(e.va)]

\* A chained jump stays in one page of one address space of one frame, so that
\* it needs no check of its own when the mapping changes; and it is recorded
\* exactly once in the list its destination cuts when it is removed.
ChainsSound ==
  \A b \in Live(cache) :
    LET list == Sources(cache, b)
    IN  /\ WalkEnds(cache.head[b], cache.next)
        /\ list = {n \in Nodes : cache.site[n] = b}
        /\ \A n \in list :
             LET src == cache.blk[n[1]]
             IN  /\ cache.target[n] = b /\ cache.want[n] = cache.blk[b].va
                 /\ src.owner = cache.blk[b].owner
                 /\ src.frame = cache.blk[b].frame
                 /\ Page(src.va) = Page(cache.blk[b].va)

\* The index names exactly the live blocks, each under its own address, so
\* that RemoveNode never meets its fatal exit; and the list of a page holds
\* exactly the live blocks with code on it, once each, so that a dirty page
\* loses all of them.
BlocksListed ==
  /\ \A o \in Owners, va \in Va :
       LET b == cache.index[o][va]
       IN  b # None => cache.blk[b].owner = o /\ cache.blk[b].va = va
  /\ \A b \in Live(cache) : cache.index[cache.blk[b].owner][cache.blk[b].va] = b
  /\ \A f \in Window :
       /\ WalkEnds(cache.heads[f], PageNext(cache, f))
       /\ PageList(cache, f) =
            {b \in Live(cache) : f \in {cache.blk[b].frame, cache.blk[b].frame2}}

\* A block whose code was stored to, by a store that began at a word of some
\* block's code, is on a dirty page, so that the guest's next I-cache invalidate
\* removes it, or on a page that is being cleaned.  (CodeStores looks at the
\* stores that begin at another word.)
StoredCodeIsDirty ==
  \A b \in outdated : {cache.blk[b].frame, cache.blk[b].frame2} \cap (dirty \cup purge) # {}

\* "blocks are phys-keyed so they survive an address-space change"
\* (emit_cp15_register_transfer.cpp:17-18): both halves of a block the jump
\* cache answers come from the frames its two pages are mapped to.
SplitBlocksFresh ==
  \A i \in DOMAIN cache.jc :
    LET b == cache.blk[cache.jc[i].blk]
    IN  cache.jc[i].blk # None /\ b.frame2 # None
          => b.frame2 \in walks[Page(b.va) + 1]

=============================================================================
