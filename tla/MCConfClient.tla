---------------------------- MODULE MCConfClient ----------------------------
(* Instances of ConfClient for TLC.                                        *)
EXTENDS ConfClient, TLC

(* Streams, contexts and objects are interchangeable. *)
Symmetry == Permutations(FD) \cup Permutations(Ctx) \cup Permutations(State)
=============================================================================
