------------------------------ MODULE CodeStores ------------------------------
(***************************************************************************)
(* TranslationCache with a history of every store to translated code.      *)
(*                                                                         *)
(* A store tests its first word.  Most write no other; AccessPaged, behind  *)
(* the D registers of VSTR and VSTM and the elements of a NEON store, copies *)
(* all it was given after one test, so a store of several words may begin   *)
(* before the code it overwrites.  TranslationCache's `outdated' leaves     *)
(* these stores out; `stale' has them all.                                  *)
(***************************************************************************)
EXTENDS TranslationCache

VARIABLE stale   \* blocks with a word stored to since they were translated

StaleInit == Init /\ stale = {}

StoreRecorded(f, w, n) ==
  /\ Store(f, w, n)
  /\ stale' = stale \cup Overwritten(f, w, n)

\* A block of the same record was there before: a removed one has no record,
\* and one that is found again is not compiled.
OtherStep ==
  /\ (purge = {} /\ (Dispatch \/ Maintenance)) \/ InvalidateDirtyCodePages
  /\ stale' = {b \in stale : cache'.blk[b] = cache.blk[b]}

StaleNext ==
  \/ /\ purge = {}
     /\ \E f \in Window, w \in Words, n \in 1 .. StoreWords : StoreRecorded(f, w, n)
  \/ OtherStep

StaleSpec == StaleInit /\ [][StaleNext]_<<vars, stale>>

\* "if PA is a marked code word, set its page's code_page_dirty bit so the next
\* I-cache invalidate evicts the block" (emit_tlb_fast_path.cpp:70-72): a block
\* with a word stored to, by whatever store, is on a page that is dirty or being
\* cleaned.
StaleCodeIsDirty ==
  \A b \in stale : {cache.blk[b].frame, cache.blk[b].frame2} \cap (dirty \cup purge) # {}

-----------------------------------------------------------------------------
(* The instance: one page of two instructions, whose second is a block.     *)

WideRuns   == {<<0, 0>>, <<1, 1>>}
WideMapsTo == [pg \in Pages |-> Frames]
=============================================================================
