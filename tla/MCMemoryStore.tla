---------------------------- MODULE MCMemoryStore ----------------------------
(***************************************************************************)
(* Instances of MemoryStore: one around what rests on what, with facts and *)
(* their history only, and one around the rows that belong to a fact, with *)
(* exports and imports.                                                    *)
(***************************************************************************)
EXTENDS MemoryStore

CONSTANTS a, b, c, l1

\* Facts without an end that rest on nothing, on one fact, or on two; facts that
\* have ended, and a conclusion that ends later.
CitingImages ==
  {[validTo |-> Null, sources |-> S, retracted |-> FALSE, label |-> l1] : S \in {{}, {a}, {b}, {a, b}}}
  \cup {[validTo |-> 0, sources |-> S, retracted |-> FALSE, label |-> l1] : S \in {{}, {a}}}
  \cup {[validTo |-> 1, sources |-> {a}, retracted |-> FALSE, label |-> l1]}

\* Two states a fact may be in: resting on nothing, and on whatever there is.
TwoImages == {[validTo |-> Null, sources |-> S, retracted |-> FALSE, label |-> l1] : S \in {{}, Id}}

\* No image tells one id from another.
IdSymmetry == Permutations(Id)
=============================================================================
