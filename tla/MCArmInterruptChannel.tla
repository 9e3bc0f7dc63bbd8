------------------------ MODULE MCArmInterruptChannel ------------------------
(* One device thread beside the JIT thread, and two sources, so that one   *)
(* can go down while the other keeps the line up.  The sources differ in   *)
(* nothing.                                                                *)
EXTENDS ArmInterruptChannel, TLC
Symmetric == Permutations(Source)
=============================================================================
