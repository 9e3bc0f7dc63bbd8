------------------------------- MODULE BlockMap -------------------------------
(***************************************************************************)
(* What the block compilers rely on of a JitBlockIndex: a set of guest     *)
(* addresses that changes by the one address a call names, or is emptied.  *)
(***************************************************************************)
CONSTANT Key
VARIABLE keys

Init == keys = {}

Insert == \E k \in Key \ keys : keys' = keys \cup {k}
Remove == \E k \in keys : keys' = keys \ {k}
Flush  == keys' = {}

Next == Insert \/ Remove \/ Flush
Spec == Init /\ [][Next]_keys

=============================================================================
