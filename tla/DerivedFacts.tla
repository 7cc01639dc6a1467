---------------------------- MODULE DerivedFacts ----------------------------
(***************************************************************************)
(* Which facts rest on which (src/src/derived.ts), as plain mathematics.   *)
(*                                                                         *)
(* A conclusion names the facts it was drawn from in                       *)
(* contextualMetadata.derivedFrom.  A graph g maps every stored fact to    *)
(* the ids it names; an id may name a fact that is not (or no longer)      *)
(* stored, and conclusions may rest on one another in a circle.            *)
(* DerivedSearch holds the worklist loops of derived.ts and proves that    *)
(* they compute these sets; MemoryStore uses the sets.                     *)
(***************************************************************************)

\* S is closed under drawing conclusions: a fact that names a member of S as
\* a source is in S.
Closed(g, S) == \A n \in DOMAIN g : g[n] \cap S # {} => n \in S

\* Every fact of g in each closed set around the root, and not the root: the
\* facts that rest on the root, directly or through another conclusion.
DependentsOf(g, root) ==
  {n \in DOMAIN g \ {root} :
     \A S \in SUBSET (DOMAIN g \cup {root}) : root \in S /\ Closed(g, S) => n \in S}

\* The graph in which only conclusions of `live` rest on anything: a fact
\* outside it is not retracted, and nothing is reached through it.
Among(g, live) == [n \in DOMAIN g |-> IF n \in live THEN g[n] ELSE {}]

\* The conclusions to retract when `source` stops being true: those still in
\* force that are reached from it through conclusions still in force.
RetractionsFor(g, live, source) == DependentsOf(Among(g, live), source)
=============================================================================
