---------------------------- MODULE MCJitBlockIndex ----------------------------
(* Five keys in a table that starts with four slots, under every hash.     *)
EXTENDS JitBlockIndex, TLC

(* The top bits of a hash of three bits, as Bucket() shifts it. *)
MCHashes == {[k \in Key |-> [n \in Sizes |-> (f[k] * n) \div 8]] :
                 f \in [Key -> 0..7]}

Symmetry == Permutations(Key)

=============================================================================
