------------------------- MODULE MCTranslationCache -------------------------
(***************************************************************************)
(* Two virtual pages of two instructions: page 0 is global, page 1 is a     *)
(* process's own.  Two frames, two ASIDs, an arena of two blocks, and a     *)
(* jump cache in which the two pages collide.  Page 0 holds a block that    *)
(* ends in the middle, at a branch or falling through to the second one,    *)
(* and an instruction that may straddle into page 1; its two blocks chain   *)
(* to each other.                                                           *)
(***************************************************************************)
EXTENDS TranslationCache, TLC

MCRuns == {<<0, 0>>, <<1, 1>>, <<2, 1>>}

\* Page 1 stays where it is in the full search; both pages may move in the run
\* that looks at straddling instructions.
MCMapsTo    == [pg \in Pages |-> IF pg = 0 THEN Frames ELSE {2}]
MCMapsToAny == [pg \in Pages |-> Frames]

Symmetry == Permutations(Asids)
=============================================================================
