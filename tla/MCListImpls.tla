----------------------------- MODULE MCListImpls ----------------------------
(* Instances of ListImpls for TLC.                                         *)
EXTENDS ListImpls, TLC

(* Nodes are interchangeable. *)
Symmetry == Permutations(Node)
=============================================================================
