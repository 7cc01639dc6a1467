---------------------------- MODULE MCFactHistory ----------------------------
(* An instance of FactHistory: a store, a copy of it, and three images no     *)
(* property tells apart.                                                      *)
EXTENDS FactHistory

CONSTANTS x, y, z

Images == {x, y, z}
ImageSymmetry == Permutations(Images)
=============================================================================
