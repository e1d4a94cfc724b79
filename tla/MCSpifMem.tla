------------------------------ MODULE MCSpifMem -----------------------------
(* Instances of SpifMem for TLC.                                           *)
EXTENDS SpifMem

(* Addresses are interchangeable. *)
Symmetry == Permutations(Addr)
=============================================================================
