-------------------------- MODULE MCStateOperations --------------------------
(* One peripheral worker, the UI thread, Hibernation's worker and the main *)
(* thread around one JIT thread.                                           *)
EXTENDS StateOperations

=============================================================================
