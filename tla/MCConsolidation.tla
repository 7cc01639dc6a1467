--------------------------- MODULE MCConsolidation ---------------------------
(* Instances of Consolidation. *)
EXTENDS Consolidation, TLC

IdSymmetry == Permutations(Raw) \cup Permutations(Derived) \cup Permutations(Pass)
=============================================================================
