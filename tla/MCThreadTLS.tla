---------------------------- MODULE MCThreadTLS -----------------------------
(* Instances of ThreadTLS for TLC.                                         *)
EXTENDS ThreadTLS, TLC

(* Threads, keys and addresses are interchangeable. *)
Symmetry == Permutations(Threads) \cup Permutations(Keys) \cup Permutations(Blocks)
=============================================================================
