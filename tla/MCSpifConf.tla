----------------------------- MODULE MCSpifConf -----------------------------
(* Instances of SpifConf for TLC.                                          *)
EXTENDS SpifConf, TLC

(* Streams and contexts are interchangeable. *)
Symmetry == Permutations(FD) \cup Permutations(Ctx)
=============================================================================
