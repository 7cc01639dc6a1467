------------------------- MODULE Consolidation_proofs -------------------------
(***************************************************************************)
(* What holds of consolidation passes and their undo (Consolidation) for   *)
(* any number of facts, passes running beside one another and proposals.   *)
(***************************************************************************)
EXTENDS Consolidation, TLAPS

FactsOK ==
  /\ facts = [n \in Stored |-> facts[n]]
  /\ \A n \in Stored : facts[n] \in IF n \in Raw THEN RawFact ELSE Conclusion

\* Replacing one fact by another of its kind.
LEMMA PutOK ==
  ASSUME FactsOK, NEW d \in Stored, NEW fact \in IF d \in Raw THEN RawFact ELSE Conclusion,
         facts' = [facts EXCEPT ![d] = fact]
  PROVE  /\ FactsOK' /\ Stored' = Stored
         /\ facts'[d] = fact
         /\ \A n \in Stored \ {d} : facts'[n] = facts[n]
  BY DEF FactsOK, Stored

\* A pass that moves on leaves the others where they are.
LEMMA MoveOK ==
  ASSUME pass \in [Pass -> PassState], NEW p \in Pass, NEW to \in PassState, NEW from, Moves(p, from, to)
  PROVE  /\ pass' \in [Pass -> PassState]
         /\ pass'[p] = to
         /\ \A q \in Pass \ {p} : pass'[q] = pass[q]
  BY DEF Moves

\* A stored fact is told or observed, or a conclusion, and not both.
LEMMA KindsOK ==
  ASSUME TypeOK
  PROVE  /\ \A d \in Conclusions : d \in Stored /\ d \notin Raw /\ facts[d] \in Conclusion
         /\ \A n \in Stored \cap Raw : n \notin Derived /\ facts[n] \in RawFact
         /\ \A n \in Stored : n \in Conclusions \/ n \in Raw
  BY IdsAssumption DEF TypeOK, Conclusions

LEMMA InitTypeOK == Init => TypeOK
  <1> SUFFICES ASSUME Init PROVE TypeOK
    OBVIOUS
  <1> USE IdsAssumption
  <1>1. Stored = Raw
    BY DEF Init, Stored
  <1>2. Unstarted \in PassState
    BY DEF Unstarted, PassState, NoCopy
  <1>3. FactsOK
    BY <1>1 DEF Init, FactsOK, RawFact
  <1>4. \A p \in Pass : pass[p].saved = Nil
    BY DEF Init, Unstarted
  <1>5. NoUndo \in [run : Pass \cup {Nil}, todo : SUBSET Derived, over : BOOLEAN]
    BY DEF NoUndo
  <1>6. QED
    BY <1>1, <1>2, <1>3, <1>4, <1>5 DEF Init, TypeOK, FactsOK

\* Only conclusions in force are withdrawn with a fact.
LEMMA WithdrawnAreLive ==
  ASSUME NEW live \in SUBSET Stored, NEW n \in Stored
  PROVE  RetractionsFor(Graph, live, n) \subseteq live \ {n}
  <1> DEFINE S == {n} \cup live
  <1>1. Closed(Among(Graph, live), S)
    BY DEF Closed, Among, Graph
  <1>2. DOMAIN Among(Graph, live) = Stored /\ S \in SUBSET (Stored \cup {n})
    BY DEF Among, Graph
  <1>3. QED
    BY <1>1, <1>2 DEF RetractionsFor, DependentsOf

LEMMA MovesTypeOK ==
  ASSUME TypeOK, NEW p \in Pass, NEW from, NEW to \in PassState, Moves(p, from, to),
         UNCHANGED <<edges, minted, undo>>, FactsOK', Stored' = Stored,
         to.saved \in minted \cup {Nil}, together' \subseteq Running'
  PROVE  TypeOK'
  <1>1. /\ pass' \in [Pass -> PassState]
        /\ pass'[p] = to
        /\ \A q \in Pass \ {p} : pass'[q] = pass[q]
    BY MoveOK DEF TypeOK
  <1>2. \A q \in Pass : pass'[q].saved \in minted' \cup {Nil}
    BY <1>1 DEF TypeOK
  <1>3. Conclusions' = Conclusions
    BY DEF Conclusions
  <1>4. QED
    BY <1>1, <1>2, <1>3 DEF TypeOK, FactsOK

\* A pass that moves within its run is still under way.
LEMMA StillRunning ==
  ASSUME TypeOK, NEW p \in Pass, NEW from, NEW to \in PassState, Moves(p, from, to),
         to.step \in {"thinking", "writing", "linking"}
  PROVE  Running' = Running \cup {p}
  BY MoveOK DEF TypeOK, Running

LEMMA StepsTypeOK ==
  ASSUME TypeOK, NEW p \in Pass,
         \/ \E read \in SUBSET Raw : Start(p, read)
         \/ \E proposals \in SUBSET SUBSET Raw : Answer(p, proposals)
         \/ \E source \in Raw : Link(p, source)
         \/ StandUp(p) \/ Fails(p)
         \/ \E sources \in SUBSET Raw : Refused(p, sources)
         \/ \E n \in Raw : Look(p, n)
         \/ Mark(p) \/ End(p) \/ Cut(p)
  PROVE  TypeOK'
  <1> USE IdsAssumption
  <1>0. pass[p] \in PassState /\ FactsOK
    BY DEF TypeOK, FactsOK
  <1>1. ASSUME NEW read \in SUBSET Raw, Start(p, read) PROVE TypeOK'
    <2> DEFINE to == [Unstarted EXCEPT !.step = "thinking", !.read = read]
    <2>1. to \in PassState /\ to.saved = Nil /\ to.step = "thinking"
      BY DEF PassState, Unstarted, NoCopy
    <2>2. Moves(p, "unstarted", to) /\ FactsOK' /\ Stored' = Stored
      BY <1>0, <1>1 DEF Start, FactsOK, Stored
    <2> HIDE DEF to
    <2>3. Running' = Running \cup {p}
      BY <2>1, <2>2, StillRunning
    <2>4. together' \subseteq Running'
      BY <1>1, <2>3 DEF Start, TypeOK
    <2>5. QED
      BY <1>1, <2>1, <2>2, <2>4, MovesTypeOK DEF Start
  <1>2. ASSUME NEW proposals \in SUBSET SUBSET Raw, Answer(p, proposals) PROVE TypeOK'
    <2> DEFINE to == [pass[p] EXCEPT !.step = "writing", !.todo = proposals,
             !.answered = {n \in pass[p].read \cap Stored : facts[n].receipt}]
    <2>1. to \in PassState /\ to.saved = pass[p].saved /\ to.step = "writing"
      BY <1>0 DEF PassState
    <2>2. Moves(p, "thinking", to)
      BY <1>2 DEF Answer
    <2> HIDE DEF to
    <2>0. facts' = facts
      BY <1>2 DEF Answer
    <2>3. FactsOK' /\ Stored' = Stored
      BY <1>0, <2>0 DEF FactsOK, Stored
    <2>4. Running' = Running \cup {p}
      BY <2>1, <2>2, StillRunning
    <2>5. QED
      BY <1>2, <2>1, <2>2, <2>3, <2>4, MovesTypeOK DEF Answer, TypeOK
  <1>3. ASSUME NEW source \in Raw, Link(p, source) PROVE TypeOK'
    <2> DEFINE to == [pass[p] EXCEPT !.links = @ \ {source}]
    <2>1. to \in PassState /\ to.saved = pass[p].saved /\ to.step = pass[p].step
      BY <1>0 DEF PassState
    <2>2. Moves(p, "linking", to) /\ FactsOK' /\ Stored' = Stored /\ pass[p].step = "linking"
      BY <1>0, <1>3 DEF Link, FactsOK, Stored, Moves
    <2> HIDE DEF to
    <2>3. Running' = Running \cup {p}
      BY <2>1, <2>2, StillRunning
    <2>4. pass[p].saved \in Conclusions
      BY <1>0, <1>3 DEF Link, PassState, Conclusions, Stored, TypeOK
    <2>5. /\ pass' \in [Pass -> PassState]
          /\ \A q \in Pass : pass'[q].saved = pass[q].saved
      BY <2>1, <2>2, MoveOK DEF TypeOK
    <2>6. edges' \subseteq Conclusions' \X (Stored' \cap Raw)
      BY <1>3, <2>4 DEF Link, TypeOK, Conclusions, Stored
    <2>7. facts' = facts /\ minted' = minted /\ undo' = undo /\ together' = together
      BY <1>3 DEF Link
    <2>8. QED
      BY <2>2, <2>3, <2>5, <2>6, <2>7 DEF TypeOK
  <1>4. CASE StandUp(p)
    <2> DEFINE to == [pass[p] EXCEPT !.step = "writing", !.saved = Nil]
               d == pass[p].saved
    <2>1. to \in PassState /\ to.saved = Nil /\ to.step = "writing"
      BY <1>0 DEF PassState
    <2>2. Moves(p, "linking", to)
      BY <1>4 DEF StandUp
    <2>3. d \in Stored /\ d \in Derived
      BY <1>0, <1>4 DEF StandUp, PassState, TypeOK
    <2>4. Stood(facts[d]) \in Conclusion /\ d \notin Raw
      <3>1. facts[d] \in Conclusion /\ d \notin Raw
        BY <2>3, KindsOK DEF Conclusions
      <3> HIDE DEF d
      <3>2. QED
        BY <3>1 DEF Stood, Conclusion
    <2>5. facts' = [facts EXCEPT ![d] = Stood(facts[d])]
      BY <1>4 DEF StandUp
    <2> HIDE DEF to
    <2>6. FactsOK' /\ Stored' = Stored
      BY <1>0, <2>3, <2>4, <2>5, PutOK
    <2>7. Running' = Running \cup {p}
      BY <2>1, <2>2, StillRunning
    <2>8. QED
      BY <1>4, <2>1, <2>2, <2>6, <2>7, MovesTypeOK DEF StandUp, TypeOK
  <1>5. CASE Fails(p)
    <2> DEFINE to == [pass[p] EXCEPT !.step = "writing", !.saved = Nil, !.links = {}]
               d == pass[p].saved
               fact == [facts[d] EXCEPT !.ended = TRUE, !.why = "unrecorded"]
    <2>1. to \in PassState /\ to.saved = Nil /\ to.step = "writing"
      BY <1>0 DEF PassState
    <2>2. Moves(p, "linking", to)
      BY <1>5 DEF Fails
    <2>3. ASSUME d \in Stored, facts' = [facts EXCEPT ![d] = [@ EXCEPT !.ended = TRUE, !.why = "unrecorded"]]
          PROVE  FactsOK' /\ Stored' = Stored
      <3>1. d \in Derived
        BY <1>0, <2>3 DEF PassState, TypeOK
      <3>2. fact \in Conclusion /\ d \notin Raw
        <4>1. facts[d] \in Conclusion /\ d \notin Raw
          BY <2>3, <3>1, KindsOK DEF Conclusions
        <4> HIDE DEF d
        <4>2. QED
          BY <4>1 DEF Conclusion
      <3>3. facts' = [facts EXCEPT ![d] = fact]
        BY <2>3
      <3> HIDE DEF fact
      <3>4. QED
        BY <1>0, <2>3, <3>1, <3>2, <3>3, PutOK
    <2>4. FactsOK' /\ Stored' = Stored
      <3>1. CASE UNCHANGED facts
        BY <1>0, <3>1 DEF FactsOK, Stored
      <3>2. QED
        BY <1>5, <2>3, <3>1 DEF Fails
    <2> HIDE DEF to
    <2>5. Running' = Running \cup {p}
      BY <2>1, <2>2, StillRunning
    <2>6. QED
      BY <1>5, <2>1, <2>2, <2>4, <2>5, MovesTypeOK DEF Fails, TypeOK
  <1>6. ASSUME NEW sources \in SUBSET Raw, Refused(p, sources) PROVE TypeOK'
    <2> DEFINE to == [pass[p] EXCEPT !.todo = @ \ {sources}]
    <2>1. to \in PassState /\ to.saved = pass[p].saved /\ to.step = pass[p].step
      BY <1>0 DEF PassState
    <2>2. Moves(p, "writing", to) /\ FactsOK' /\ Stored' = Stored /\ pass[p].step = "writing"
      BY <1>0, <1>6 DEF Refused, FactsOK, Stored, Moves
    <2> HIDE DEF to
    <2>3. Running' = Running \cup {p}
      BY <2>1, <2>2, StillRunning
    <2>4. QED
      BY <1>6, <2>1, <2>2, <2>3, MovesTypeOK DEF Refused, TypeOK
  <1>7. ASSUME NEW n \in Raw, Look(p, n) PROVE TypeOK'
    <2> DEFINE copy == IF n \in Stored THEN FreshCopy(p, n) ELSE NoCopy
               to == [pass[p] EXCEPT !.read = @ \ {n}, !.fresh = copy]
    <2>1. copy \in [id : Raw \cup {Nil}, receipt : BOOLEAN]
      BY DEF FreshCopy, NoCopy, TypeOK, RawFact
    <2>2. Moves(p, "writing", to) /\ FactsOK' /\ Stored' = Stored /\ pass[p].step = "writing"
      BY <1>0, <1>7 DEF Look, FactsOK, Stored, Moves
    <2> HIDE DEF copy
    <2>3. to \in PassState /\ to.saved = pass[p].saved /\ to.step = pass[p].step
      BY <1>0, <2>1 DEF PassState
    <2> HIDE DEF to
    <2>4. Running' = Running \cup {p}
      BY <2>2, <2>3, StillRunning
    <2>5. QED
      BY <1>7, <2>2, <2>3, <2>4, MovesTypeOK DEF Look, TypeOK
  <1>8. CASE Mark(p)
    <2> DEFINE copy == pass[p].fresh
               to == [pass[p] EXCEPT !.fresh = NoCopy]
               fact == [facts[copy.id] EXCEPT !.marked = TRUE, !.receipt = copy.receipt]
    <2>1. to \in PassState /\ to.saved = pass[p].saved /\ to.step = pass[p].step
      BY <1>0 DEF PassState, NoCopy
    <2>2. Moves(p, "writing", to) /\ pass[p].step = "writing"
      BY <1>8 DEF Mark, Moves
    <2>3. copy.id \in Stored /\ copy.id \in Raw /\ copy.receipt \in BOOLEAN
      BY <1>0, <1>8 DEF Mark, PassState, TypeOK
    <2>4. fact \in RawFact
      <3>1. facts[copy.id] \in RawFact
        BY <2>3, KindsOK
      <3> HIDE DEF copy
      <3>2. QED
        BY <2>3, <3>1 DEF RawFact
    <2>5. facts' = [facts EXCEPT ![copy.id] = fact]
      BY <1>8 DEF Mark
    <2> HIDE DEF to, fact
    <2>6. FactsOK' /\ Stored' = Stored
      BY <1>0, <2>3, <2>4, <2>5, PutOK
    <2>7. Running' = Running \cup {p}
      BY <2>1, <2>2, StillRunning
    <2>8. QED
      BY <1>8, <2>1, <2>2, <2>6, <2>7, MovesTypeOK DEF Mark, TypeOK
  <1>9. CASE End(p) \/ Cut(p)
    <2>1. PICK step \in {"over", "cut"}, from \in {"thinking", "writing", "linking"} :
            Moves(p, from, [Unstarted EXCEPT !.step = step])
      BY <1>9 DEF End, Cut, Moves, Running
    <2> DEFINE to == [Unstarted EXCEPT !.step = step]
    <2>2. to \in PassState /\ to.saved = Nil
      BY DEF PassState, Unstarted, NoCopy
    <2>3. Moves(p, from, to) /\ FactsOK' /\ Stored' = Stored
      BY <1>0, <1>9, <2>1 DEF End, Cut, FactsOK, Stored
    <2> HIDE DEF to
    <2>4. \A q \in Pass \ {p} : pass'[q] = pass[q]
      BY <2>2, <2>3, MoveOK DEF TypeOK
    <2>5. together' \subseteq Running'
      BY <1>9, <2>4 DEF End, Cut, Running, TypeOK
    <2>6. QED
      BY <1>9, <2>2, <2>3, <2>5, MovesTypeOK DEF End, Cut
  <1>10. QED
    BY <1>1, <1>2, <1>3, <1>4, <1>5, <1>6, <1>7, <1>8, <1>9

LEMMA OthersTypeOK ==
  ASSUME TypeOK,
         \/ \E p \in Pass, d \in Derived, sources \in SUBSET Raw : AddPending(p, d, sources)
         \/ \E p \in Pass : StartUndo(p)
         \/ \E d \in Derived : Withdraw(d)
         \/ EndUndo
         \/ \E n \in Raw, live \in SUBSET Derived : Invalidate(n, live)
         \/ \E d \in Derived : Archive(d)
         \/ \E n \in Raw \cup Derived : Erase(n)
  PROVE  TypeOK'
  <1> USE IdsAssumption
  <1>0. FactsOK
    BY DEF TypeOK, FactsOK
  <1>1. ASSUME NEW p \in Pass, NEW d \in Derived, NEW sources \in SUBSET Raw, AddPending(p, d, sources) PROVE TypeOK'
    <2> DEFINE to == [pass[p] EXCEPT !.step = "linking", !.saved = d, !.links = sources, !.todo = @ \ {sources}]
    <2>0. pass[p] \in PassState
      BY DEF TypeOK
    <2>1. to \in PassState /\ to.saved = d /\ to.step = "linking"
      BY <2>0 DEF PassState
    <2>2. Moves(p, "writing", to)
      BY <1>1 DEF AddPending
    <2> HIDE DEF to
    <2>3. /\ pass' \in [Pass -> PassState] /\ pass'[p] = to
          /\ \A q \in Pass \ {p} : pass'[q] = pass[q]
      BY <2>1, <2>2, MoveOK DEF TypeOK
    <2>4. Written(p, sources) \in Conclusion /\ d \notin Raw /\ d \notin Stored
      BY <1>1 DEF Written, Conclusion, AddPending, TypeOK
    <2>5. facts' = [n \in Stored \cup {d} |-> IF n = d THEN Written(p, sources) ELSE facts[n]]
      BY <1>1 DEF AddPending
    <2>6. FactsOK' /\ Stored' = Stored \cup {d}
      BY <1>0, <2>4, <2>5 DEF FactsOK, Stored
    <2>7. minted' = minted \cup {d} /\ edges' = edges /\ undo' = undo /\ together' = together
      BY <1>1 DEF AddPending
    <2>8. Running' = Running \cup {p}
      BY <2>1, <2>2, StillRunning
    <2>9. Conclusions \subseteq Conclusions' /\ Stored \subseteq Stored'
      BY <2>6 DEF Conclusions
    <2>10. \A q \in Pass : pass'[q].saved \in minted' \cup {Nil}
      BY <2>1, <2>3, <2>7 DEF TypeOK
    <2>11. QED
      BY <2>3, <2>6, <2>7, <2>8, <2>9, <2>10 DEF TypeOK, FactsOK
  <1>2. ASSUME NEW p \in Pass, StartUndo(p) PROVE TypeOK'
    <2>1. undo' \in [run : Pass \cup {Nil}, todo : SUBSET Derived, over : BOOLEAN]
      BY <1>2 DEF StartUndo, Standing, Conclusions
    <2>2. QED
      BY <1>2, <2>1 DEF StartUndo, TypeOK, Stored, Conclusions, Running
  <1>3. ASSUME NEW d \in Derived, Withdraw(d) PROVE TypeOK'
    <2> DEFINE fact == [facts[d] EXCEPT !.ended = TRUE, !.why = "undo"]
    <2>1. d \in Stored /\ facts' = [facts EXCEPT ![d] = fact]
      BY <1>3 DEF Withdraw
    <2>2. fact \in Conclusion /\ d \notin Raw
      BY <2>1, KindsOK DEF Conclusions, Conclusion
    <2> HIDE DEF fact
    <2>3. FactsOK' /\ Stored' = Stored
      BY <1>0, <2>1, <2>2, PutOK
    <2>4. undo' \in [run : Pass \cup {Nil}, todo : SUBSET Derived, over : BOOLEAN]
      BY <1>3 DEF Withdraw, TypeOK
    <2>5. QED
      BY <1>3, <2>3, <2>4 DEF Withdraw, TypeOK, FactsOK, Conclusions, Running
  <1>4. CASE EndUndo
    BY <1>4 DEF EndUndo, NoUndo, TypeOK, Stored, Conclusions, Running
  <1>5. ASSUME NEW n \in Raw, NEW live \in SUBSET Derived, Invalidate(n, live) PROVE TypeOK'
    <2> DEFINE withdrawn == RetractionsFor(Graph, live, n)
    <2>1. facts' = [m \in Stored |-> IF m = n THEN [facts[m] EXCEPT !.ended = TRUE, !.receipt = TRUE]
                                    ELSE IF m \in withdrawn THEN [facts[m] EXCEPT !.ended = TRUE, !.why = "source"]
                                    ELSE facts[m]]
      BY <1>5 DEF Invalidate
    <2>2. n \in Stored /\ live \subseteq Conclusions
      BY <1>5 DEF Invalidate
    <2>3. withdrawn \subseteq live
      BY <2>2, WithdrawnAreLive DEF Conclusions
    <2> HIDE DEF withdrawn
    <2>4. [facts[n] EXCEPT !.ended = TRUE, !.receipt = TRUE] \in RawFact
      BY <2>2, KindsOK DEF RawFact
    <2>5. \A d \in withdrawn : [facts[d] EXCEPT !.ended = TRUE, !.why = "source"] \in Conclusion /\ d \notin Raw
      <3>1. \A d \in withdrawn : facts[d] \in Conclusion /\ d \notin Raw
        BY <2>2, <2>3, KindsOK
      <3>2. QED
        BY <3>1 DEF Conclusion
    <2>6. FactsOK' /\ Stored' = Stored
      BY <1>0, <2>1, <2>2, <2>4, <2>5 DEF FactsOK, Stored
    <2>7. QED
      BY <1>5, <2>6 DEF Invalidate, TypeOK, FactsOK, Conclusions, Running
  <1>6. ASSUME NEW d \in Derived, Archive(d) PROVE TypeOK'
    <2> DEFINE fact == [facts[d] EXCEPT !.hidden = TRUE]
    <2>1. d \in Stored /\ facts' = [facts EXCEPT ![d] = fact]
      BY <1>6 DEF Archive, Standing, Conclusions
    <2>2. fact \in Conclusion /\ d \notin Raw
      BY <2>1, KindsOK DEF Conclusions, Conclusion
    <2> HIDE DEF fact
    <2>3. FactsOK' /\ Stored' = Stored
      BY <1>0, <2>1, <2>2, PutOK
    <2>4. QED
      BY <1>6, <2>3 DEF Archive, TypeOK, FactsOK, Conclusions, Running
  <1>7. ASSUME NEW n \in Raw \cup Derived, Erase(n) PROVE TypeOK'
    <2>1. /\ facts' = [m \in Stored \ Gone(n) |-> facts[m]]
          /\ edges' = {e \in edges : e[1] \notin Gone(n) /\ e[2] \notin Gone(n)}
      BY <1>7 DEF Erase
    <2>2. FactsOK' /\ Stored' = Stored \ Gone(n)
      BY <1>0, <2>1 DEF FactsOK, Stored
    <2>3. edges' \subseteq Conclusions' \X (Stored' \cap Raw)
      BY <2>1, <2>2 DEF TypeOK, Conclusions
    <2>4. QED
      BY <1>7, <2>2, <2>3 DEF Erase, TypeOK, FactsOK, Running
  <1>8. QED
    BY <1>1, <1>2, <1>3, <1>4, <1>5, <1>6, <1>7

LEMMA NextTypeOK == TypeOK /\ [Next]_vars => TypeOK'
  <1> SUFFICES ASSUME TypeOK, [Next]_vars PROVE TypeOK'
    OBVIOUS
  <1>1. CASE Next
    BY <1>1, StepsTypeOK, OthersTypeOK DEF Next
  <1>2. CASE UNCHANGED vars
    BY <1>2 DEF vars, TypeOK, Stored, Conclusions, Running
  <1>3. QED
    BY <1>1, <1>2

\* Every fact stays of its kind and every pass in one of its steps; a pass counted
\* as running beside another is under way.
THEOREM ConsolidationTypeOK == Spec => []TypeOK
  <1>1. QED
    BY InitTypeOK, NextTypeOK, PTL DEF Spec

-----------------------------------------------------------------------------
(* What a step can change.                                                 *)

Kept(d) == d \in Conclusions /\ facts'[d].sources = facts[d].sources /\ facts'[d].run = facts[d].run
Unmoved(d) == facts'[d].ended = facts[d].ended /\ facts'[d].why = facts[d].why
EndedAs(d, why) == facts'[d].ended = TRUE /\ facts'[d].why = why

\* A conclusion is written, or stays drawn from what it was, and stands as before, is
\* stood up by its pass, or is withdrawn in one of three ways.
Changed(d) ==
  \/ \E p \in Pass, sources \in SUBSET Raw :
       AddPending(p, d, sources) /\ d \notin minted /\ facts'[d] = Written(p, sources)
  \/ /\ Kept(d)
     /\ \/ Unmoved(d)
        \/ \E p \in Pass : StandUp(p) /\ d = pass[p].saved /\ facts'[d].ended = FALSE /\ facts'[d].why = "none"
        \/ \E p \in Pass : Fails(p) /\ d = pass[p].saved /\ EndedAs(d, "unrecorded")
        \/ d \in undo.todo /\ EndedAs(d, "undo")
        \/ (\E n \in Raw, live \in SUBSET Derived : Invalidate(n, live)) /\ EndedAs(d, "source")

LEMMA ConclusionsChange ==
  ASSUME TypeOK, Next, NEW d \in Conclusions'
  PROVE  Changed(d)
  <1> USE IdsAssumption
  <1>0. FactsOK /\ d \in Derived /\ d \in Stored'
    BY DEF TypeOK, FactsOK, Conclusions
  <1>1. ASSUME facts' = facts PROVE Changed(d)
    BY <1>0, <1>1 DEF Changed, Kept, Unmoved, Stored, Conclusions
  <1>2. ASSUME NEW m \in Stored, NEW fact, facts' = [facts EXCEPT ![m] = fact], d # m PROVE Changed(d)
    <2>1. d \in Stored /\ facts'[d] = facts[d]
      BY <1>0, <1>2 DEF FactsOK, Stored
    <2>2. QED
      BY <1>0, <2>1 DEF Changed, Kept, Unmoved, Conclusions
  <1>3. ASSUME d \in Stored PROVE d \in Conclusions /\ facts[d] \in Conclusion
    BY <1>0, <1>3, KindsOK DEF Conclusions
  <1>4. ASSUME NEW p \in Pass, NEW c \in Derived, NEW sources \in SUBSET Raw, AddPending(p, c, sources) PROVE Changed(d)
    <2>1. facts' = [n \in Stored \cup {c} |-> IF n = c THEN Written(p, sources) ELSE facts[n]] /\ c \notin minted
      BY <1>4 DEF AddPending
    <2>2. CASE d = c
      <3>1. facts'[d] = Written(p, sources)
        BY <2>1, <2>2
      <3>2. QED
        BY <1>4, <2>1, <2>2, <3>1 DEF Changed
    <2>3. CASE d # c
      <3>1. d \in Stored /\ facts'[d] = facts[d]
        BY <1>0, <2>1, <2>3 DEF Stored
      <3>2. QED
        BY <1>3, <3>1 DEF Changed, Kept, Unmoved
    <2>4. QED
      BY <2>2, <2>3
  <1>5. ASSUME NEW p \in Pass, StandUp(p) PROVE Changed(d)
    <2>1. pass[p].saved \in Stored /\ facts' = [facts EXCEPT ![pass[p].saved] = Stood(@)]
      BY <1>5 DEF StandUp
    <2>2. CASE d = pass[p].saved
      <3>1. facts'[d] = Stood(facts[d]) /\ d \in Stored
        BY <1>0, <2>1, <2>2 DEF FactsOK, Stored
      <3>2. /\ facts'[d].sources = facts[d].sources /\ facts'[d].run = facts[d].run
            /\ facts'[d].ended = FALSE /\ facts'[d].why = "none"
        BY <1>3, <3>1 DEF Stood, Conclusion
      <3>3. QED
        BY <1>3, <1>5, <2>2, <3>1, <3>2 DEF Changed, Kept
    <2>3. QED
      BY <1>2, <2>1, <2>2
  <1>6. ASSUME NEW p \in Pass, Fails(p) PROVE Changed(d)
    <2> DEFINE c == pass[p].saved
    <2>1. CASE c \in Stored /\ facts' = [facts EXCEPT ![c] = [@ EXCEPT !.ended = TRUE, !.why = "unrecorded"]]
      <3>1. CASE d = c
        <4>1. facts'[d] = [facts[d] EXCEPT !.ended = TRUE, !.why = "unrecorded"] /\ d \in Stored
          BY <1>0, <2>1, <3>1 DEF FactsOK, Stored
        <4>2. facts'[d].sources = facts[d].sources /\ facts'[d].run = facts[d].run /\ EndedAs(d, "unrecorded")
          BY <1>3, <4>1 DEF EndedAs, Conclusion
        <4>3. QED
          BY <1>3, <1>6, <3>1, <4>1, <4>2 DEF Changed, Kept
      <3>2. QED
        BY <1>2, <2>1, <3>1
    <2>2. QED
      BY <1>1, <1>6, <2>1 DEF Fails
  <1>7. ASSUME NEW p \in Pass, Mark(p) PROVE Changed(d)
    <2> DEFINE copy == pass[p].fresh
    <2>1. copy.id \in Stored /\ facts' = [facts EXCEPT ![copy.id] = [@ EXCEPT !.marked = TRUE, !.receipt = copy.receipt]]
      BY <1>7 DEF Mark
    <2>2. copy.id \in Raw
      BY <2>1 DEF TypeOK, PassState
    <2>3. QED
      BY <1>0, <1>2, <2>1, <2>2
  <1>8. ASSUME NEW c \in Derived, Withdraw(c) PROVE Changed(d)
    <2>1. c \in Stored /\ c \in undo.todo /\ facts' = [facts EXCEPT ![c] = [@ EXCEPT !.ended = TRUE, !.why = "undo"]]
      BY <1>8 DEF Withdraw
    <2>2. CASE d = c
      <3>1. facts'[d] = [facts[d] EXCEPT !.ended = TRUE, !.why = "undo"] /\ d \in Stored
        BY <1>0, <2>1, <2>2 DEF FactsOK, Stored
      <3>2. facts'[d].sources = facts[d].sources /\ facts'[d].run = facts[d].run /\ EndedAs(d, "undo")
        BY <1>3, <3>1 DEF EndedAs, Conclusion
      <3>3. QED
        BY <1>3, <2>1, <2>2, <3>1, <3>2 DEF Changed, Kept
    <2>3. QED
      BY <1>2, <2>1, <2>2
  <1>9. ASSUME NEW n \in Raw, NEW live \in SUBSET Derived, Invalidate(n, live) PROVE Changed(d)
    <2> DEFINE withdrawn == RetractionsFor(Graph, live, n)
    <2>1. facts' = [m \in Stored |-> IF m = n THEN [facts[m] EXCEPT !.ended = TRUE, !.receipt = TRUE]
                                    ELSE IF m \in withdrawn THEN [facts[m] EXCEPT !.ended = TRUE, !.why = "source"]
                                    ELSE facts[m]]
      BY <1>9 DEF Invalidate
    <2> HIDE DEF withdrawn
    <2>2. d \in Stored /\ d # n
      BY <1>0, <2>1 DEF Stored
    <2>3. CASE d \in withdrawn
      <3>1. facts'[d] = [facts[d] EXCEPT !.ended = TRUE, !.why = "source"]
        BY <2>1, <2>2, <2>3
      <3>2. facts'[d].sources = facts[d].sources /\ facts'[d].run = facts[d].run /\ EndedAs(d, "source")
        BY <1>3, <2>2, <3>1 DEF EndedAs, Conclusion
      <3>3. QED
        BY <1>3, <1>9, <2>2, <3>2 DEF Changed, Kept
    <2>4. CASE d \notin withdrawn
      <3>1. facts'[d] = facts[d]
        BY <2>1, <2>2, <2>4
      <3>2. QED
        BY <1>3, <2>2, <3>1 DEF Changed, Kept, Unmoved
    <2>5. QED
      BY <2>3, <2>4
  <1>10. ASSUME NEW c \in Derived, Archive(c) PROVE Changed(d)
    <2>1. c \in Stored /\ facts' = [facts EXCEPT ![c] = [@ EXCEPT !.hidden = TRUE]]
      BY <1>10 DEF Archive, Standing, Conclusions
    <2>2. CASE d = c
      <3>1. facts'[d] = [facts[d] EXCEPT !.hidden = TRUE] /\ d \in Stored
        BY <1>0, <2>1, <2>2 DEF FactsOK, Stored
      <3>2. facts'[d].sources = facts[d].sources /\ facts'[d].run = facts[d].run /\ Unmoved(d)
        BY <1>3, <3>1 DEF Unmoved, Conclusion
      <3>3. QED
        BY <1>3, <3>1, <3>2 DEF Changed, Kept
    <2>3. QED
      BY <1>2, <2>1, <2>2
  <1>11. ASSUME NEW n \in Raw \cup Derived, Erase(n) PROVE Changed(d)
    <2>1. d \in Stored /\ facts'[d] = facts[d]
      BY <1>0, <1>11 DEF Erase, Stored
    <2>2. QED
      BY <1>3, <2>1 DEF Changed, Kept, Unmoved
  <1>12. ASSUME \/ \E p \in Pass : \/ \E read \in SUBSET Raw : Start(p, read)
                                   \/ \E proposals \in SUBSET SUBSET Raw : Answer(p, proposals)
                                   \/ \E source \in Raw : Link(p, source)
                                   \/ \E sources \in SUBSET Raw : Refused(p, sources)
                                   \/ \E n \in Raw : Look(p, n)
                                   \/ End(p) \/ Cut(p) \/ StartUndo(p)
                \/ EndUndo
         PROVE  facts' = facts
    BY <1>12 DEF Start, Answer, Link, Refused, Look, End, Cut, StartUndo, EndUndo
  <1>13. QED
    BY <1>1, <1>4, <1>5, <1>6, <1>7, <1>8, <1>9, <1>10, <1>11, <1>12 DEF Next

\* A conclusion that has ended says why, and one that stands says nothing of a
\* withdrawal, for any number of passes, undos and invalidations overlapping.
THEOREM ConsolidationSaysWhy == Spec => []WithdrawalsSayWhy
  <1>1. Init => WithdrawalsSayWhy
    BY IdsAssumption DEF Init, WithdrawalsSayWhy, Conclusions, Stored
  <1>2. TypeOK /\ WithdrawalsSayWhy /\ [Next]_vars => WithdrawalsSayWhy'
    <2>1. ASSUME TypeOK, WithdrawalsSayWhy, Next, NEW d \in Conclusions'
          PROVE  facts'[d].ended <=> facts'[d].why # "none"
      <3>1. Changed(d)
        BY <2>1, ConclusionsChange
      <3>2. d \in Conclusions => (facts[d].ended <=> facts[d].why # "none")
        BY <2>1 DEF WithdrawalsSayWhy
      <3>3. d \in Conclusions => facts[d].ended \in BOOLEAN
        BY <2>1, KindsOK DEF Conclusion
      <3>4. CASE \E p \in Pass, sources \in SUBSET Raw : facts'[d] = Written(p, sources)
        BY <3>4 DEF Written
      <3>5. CASE Kept(d) /\ Unmoved(d)
        BY <3>2, <3>5 DEF Kept, Unmoved
      <3>6. CASE facts'[d].ended = FALSE /\ facts'[d].why = "none"
        BY <3>6
      <3>7. CASE \E why \in {"unrecorded", "undo", "source"} : EndedAs(d, why)
        BY <3>7 DEF EndedAs
      <3>8. QED
        BY <3>1, <3>4, <3>5, <3>6, <3>7 DEF Changed
    <2>2. TypeOK /\ WithdrawalsSayWhy /\ Next => WithdrawalsSayWhy'
      BY <2>1 DEF WithdrawalsSayWhy
    <2>3. UNCHANGED vars /\ WithdrawalsSayWhy => WithdrawalsSayWhy'
      BY DEF vars, WithdrawalsSayWhy, Conclusions, Stored
    <2>4. QED
      BY <2>2, <2>3
  <1>3. QED
    BY <1>1, <1>2, ConsolidationTypeOK, PTL DEF Spec

-----------------------------------------------------------------------------

Reading(q) == pass'[q].read = pass[q].read /\ pass'[q].fresh = pass[q].fresh /\ pass'[q].answered = pass[q].answered
Linking(q) == pass'[q].saved = pass[q].saved /\ pass'[q].links = pass[q].links
Idle(q) == /\ pass'[q].read = {} /\ pass'[q].fresh = NoCopy /\ pass'[q].answered = {}
           /\ pass'[q].saved = Nil /\ pass'[q].links = {} /\ pass'[q].todo = {}

\* Where a pass goes in a step: nowhere, or by one of its own actions.
Went(q) ==
  \/ pass'[q] = pass[q]
  \/ \E read \in SUBSET Raw :
       /\ Start(q, read) /\ pass'[q].step = "thinking" /\ pass'[q].read = read
       /\ pass'[q].fresh = NoCopy /\ pass'[q].answered = {} /\ pass'[q].saved = Nil /\ pass'[q].todo = {}
  \/ \E proposals \in SUBSET SUBSET Raw :
       /\ Answer(q, proposals) /\ pass'[q].step = "writing" /\ Linking(q)
       /\ pass'[q].read = pass[q].read /\ pass'[q].fresh = pass[q].fresh
       /\ pass'[q].todo = proposals
       /\ pass'[q].answered = {n \in pass[q].read \cap Stored : facts[n].receipt}
  \/ \E d \in Derived, sources \in SUBSET Raw :
       /\ AddPending(q, d, sources) /\ pass'[q].step = "linking" /\ Reading(q)
       /\ pass'[q].saved = d /\ pass'[q].links = sources /\ pass'[q].todo = pass[q].todo \ {sources}
  \/ \E source \in Raw :
       /\ Link(q, source) /\ pass'[q].step = "linking" /\ Reading(q) /\ pass'[q].todo = pass[q].todo
       /\ pass'[q].saved = pass[q].saved /\ pass'[q].links = pass[q].links \ {source}
  \/ /\ StandUp(q) \/ Fails(q)
     /\ pass'[q].step = "writing" /\ Reading(q) /\ pass'[q].todo = pass[q].todo /\ pass'[q].saved = Nil
  \/ \E sources \in SUBSET Raw :
       /\ Refused(q, sources) /\ pass'[q].step = "writing" /\ Reading(q) /\ Linking(q)
       /\ pass'[q].todo = pass[q].todo \ {sources}
  \/ \E n \in Raw :
       /\ Look(q, n) /\ pass'[q].step = "writing" /\ Linking(q) /\ pass'[q].todo = pass[q].todo
       /\ pass'[q].answered = pass[q].answered /\ pass'[q].read = pass[q].read \ {n}
       /\ pass'[q].fresh = IF n \in Stored THEN FreshCopy(q, n) ELSE NoCopy
  \/ /\ Mark(q) /\ pass'[q].step = "writing" /\ Linking(q) /\ pass'[q].todo = pass[q].todo
     /\ pass'[q].answered = pass[q].answered /\ pass'[q].read = pass[q].read /\ pass'[q].fresh = NoCopy
  \/ End(q) /\ pass'[q].step = "over" /\ Idle(q)
  \/ Cut(q) /\ pass'[q].step = "cut" /\ Idle(q)

LEMMA PassesGo ==
  ASSUME TypeOK, Next, NEW q \in Pass
  PROVE  Went(q)
  <1>0. pass[q] \in PassState /\ pass = [p \in Pass |-> pass[p]]
    BY DEF TypeOK
  <1>1. ASSUME NEW p \in Pass, NEW from, NEW to, Moves(p, from, to), p # q PROVE Went(q)
    BY <1>1 DEF Moves, TypeOK, Went
  <1>2. ASSUME NEW from, NEW to, Moves(q, from, to) PROVE pass'[q] = to
    BY <1>2 DEF Moves, TypeOK
  <1>3. ASSUME NEW p \in Pass, NEW read \in SUBSET Raw, Start(p, read) PROVE Went(q)
    <2>1. Moves(p, "unstarted", [Unstarted EXCEPT !.step = "thinking", !.read = read])
      BY <1>3 DEF Start
    <2>2. CASE p = q
      <3>1. pass'[q] = [Unstarted EXCEPT !.step = "thinking", !.read = read]
        BY <1>2, <2>1, <2>2
      <3>2. /\ pass'[q].step = "thinking" /\ pass'[q].read = read /\ pass'[q].todo = {}
            /\ pass'[q].fresh = NoCopy /\ pass'[q].answered = {} /\ pass'[q].saved = Nil
        BY <3>1 DEF Unstarted
      <3>3. QED
        BY <1>3, <2>2, <3>2 DEF Went
    <2>3. QED
      BY <1>1, <2>1, <2>2
  <1>4. ASSUME NEW p \in Pass, NEW proposals \in SUBSET SUBSET Raw, Answer(p, proposals) PROVE Went(q)
    <2> DEFINE to == [pass[p] EXCEPT !.step = "writing", !.todo = proposals,
             !.answered = {n \in pass[p].read \cap Stored : facts[n].receipt}]
    <2>1. Moves(p, "thinking", to)
      BY <1>4 DEF Answer
    <2>2. CASE p = q
      <3>1. pass'[q] = to
        BY <1>2, <2>1, <2>2
      <3>2. /\ pass'[q].step = "writing" /\ Linking(q)
            /\ pass'[q].read = pass[q].read /\ pass'[q].fresh = pass[q].fresh
            /\ pass'[q].todo = proposals
            /\ pass'[q].answered = {n \in pass[q].read \cap Stored : facts[n].receipt}
        BY <1>0, <2>2, <3>1 DEF PassState, Linking
      <3>3. QED
        BY <1>4, <2>2, <3>2 DEF Went
    <2>3. QED
      BY <1>1, <2>1, <2>2
  <1>5. ASSUME NEW p \in Pass, NEW d \in Derived, NEW sources \in SUBSET Raw, AddPending(p, d, sources) PROVE Went(q)
    <2> DEFINE to == [pass[p] EXCEPT !.step = "linking", !.saved = d, !.links = sources, !.todo = @ \ {sources}]
    <2>1. Moves(p, "writing", to)
      BY <1>5 DEF AddPending
    <2>2. CASE p = q
      <3>1. pass'[q] = to
        BY <1>2, <2>1, <2>2
      <3>2. /\ pass'[q].step = "linking" /\ Reading(q)
            /\ pass'[q].saved = d /\ pass'[q].links = sources /\ pass'[q].todo = pass[q].todo \ {sources}
        BY <1>0, <2>2, <3>1 DEF PassState, Reading
      <3>3. QED
        BY <1>5, <2>2, <3>2 DEF Went
    <2>3. QED
      BY <1>1, <2>1, <2>2
  <1>6. ASSUME NEW p \in Pass, NEW source \in Raw, Link(p, source) PROVE Went(q)
    <2> DEFINE to == [pass[p] EXCEPT !.links = @ \ {source}]
    <2>1. Moves(p, "linking", to)
      BY <1>6 DEF Link
    <2>2. CASE p = q
      <3>1. pass'[q] = to /\ pass[q].step = "linking"
        BY <1>2, <2>1, <2>2 DEF Moves
      <3>2. /\ pass'[q].step = "linking" /\ Reading(q) /\ pass'[q].todo = pass[q].todo
            /\ pass'[q].saved = pass[q].saved /\ pass'[q].links = pass[q].links \ {source}
        BY <1>0, <2>2, <3>1 DEF PassState, Reading
      <3>3. QED
        BY <1>6, <2>2, <3>2 DEF Went
    <2>3. QED
      BY <1>1, <2>1, <2>2
  <1>7. ASSUME NEW p \in Pass, StandUp(p) \/ Fails(p) PROVE Went(q)
    <2>1. PICK to : /\ Moves(p, "linking", to)
                    /\ \/ to = [pass[p] EXCEPT !.step = "writing", !.saved = Nil]
                       \/ to = [pass[p] EXCEPT !.step = "writing", !.saved = Nil, !.links = {}]
      BY <1>7 DEF StandUp, Fails
    <2>2. CASE p = q
      <3>1. pass'[q] = to
        BY <1>2, <2>1, <2>2
      <3>2. pass'[q].step = "writing" /\ Reading(q) /\ pass'[q].todo = pass[q].todo /\ pass'[q].saved = Nil
        BY <1>0, <2>1, <2>2, <3>1 DEF PassState, Reading
      <3>3. QED
        BY <1>7, <2>2, <3>2 DEF Went
    <2>3. QED
      BY <1>1, <2>1, <2>2
  <1>8. ASSUME NEW p \in Pass, NEW sources \in SUBSET Raw, Refused(p, sources) PROVE Went(q)
    <2> DEFINE to == [pass[p] EXCEPT !.todo = @ \ {sources}]
    <2>1. Moves(p, "writing", to)
      BY <1>8 DEF Refused
    <2>2. CASE p = q
      <3>1. pass'[q] = to /\ pass[q].step = "writing"
        BY <1>2, <2>1, <2>2 DEF Moves
      <3>2. /\ pass'[q].step = "writing" /\ Reading(q) /\ Linking(q)
            /\ pass'[q].todo = pass[q].todo \ {sources}
        BY <1>0, <2>2, <3>1 DEF PassState, Reading, Linking
      <3>3. QED
        BY <1>8, <2>2, <3>2 DEF Went
    <2>3. QED
      BY <1>1, <2>1, <2>2
  <1>9. ASSUME NEW p \in Pass, NEW n \in Raw, Look(p, n) PROVE Went(q)
    <2> DEFINE copy == IF n \in Stored THEN FreshCopy(p, n) ELSE NoCopy
               to == [pass[p] EXCEPT !.read = @ \ {n}, !.fresh = copy]
    <2>1. Moves(p, "writing", to)
      BY <1>9 DEF Look
    <2>2. CASE p = q
      <3>1. pass'[q] = to /\ pass[q].step = "writing"
        BY <1>2, <2>1, <2>2 DEF Moves
      <3> HIDE DEF copy
      <3>2. /\ pass'[q].step = "writing" /\ Linking(q) /\ pass'[q].todo = pass[q].todo
            /\ pass'[q].answered = pass[q].answered /\ pass'[q].read = pass[q].read \ {n}
            /\ pass'[q].fresh = copy
        BY <1>0, <2>2, <3>1 DEF PassState, Linking
      <3>3. QED
        BY <1>9, <2>2, <3>2 DEF Went, copy, FreshCopy
    <2>3. QED
      BY <1>1, <2>1, <2>2
  <1>10. ASSUME NEW p \in Pass, Mark(p) PROVE Went(q)
    <2> DEFINE to == [pass[p] EXCEPT !.fresh = NoCopy]
    <2>1. Moves(p, "writing", to)
      BY <1>10 DEF Mark
    <2>2. CASE p = q
      <3>1. pass'[q] = to /\ pass[q].step = "writing"
        BY <1>2, <2>1, <2>2 DEF Moves
      <3>2. /\ pass'[q].step = "writing" /\ Linking(q) /\ pass'[q].todo = pass[q].todo
            /\ pass'[q].answered = pass[q].answered /\ pass'[q].read = pass[q].read /\ pass'[q].fresh = NoCopy
        BY <1>0, <2>2, <3>1 DEF PassState, Linking
      <3>3. QED
        BY <1>10, <2>2, <3>2 DEF Went
    <2>3. QED
      BY <1>1, <2>1, <2>2
  <1>11. ASSUME NEW p \in Pass, End(p) PROVE Went(q)
    <2>1. Moves(p, "writing", [Unstarted EXCEPT !.step = "over"])
      BY <1>11 DEF End
    <2>2. CASE p = q
      <3>1. pass'[q] = [Unstarted EXCEPT !.step = "over"]
        BY <1>2, <2>1, <2>2
      <3>2. pass'[q].step = "over" /\ Idle(q)
        BY <3>1 DEF Unstarted, Idle
      <3>3. QED
        BY <1>11, <2>2, <3>2 DEF Went
    <2>3. QED
      BY <1>1, <2>1, <2>2
  <1>12. ASSUME NEW p \in Pass, Cut(p) PROVE Went(q)
    <2>1. pass' = [pass EXCEPT ![p] = [Unstarted EXCEPT !.step = "cut"]]
      BY <1>12 DEF Cut
    <2>2. CASE p = q
      <3>1. pass'[q] = [Unstarted EXCEPT !.step = "cut"]
        BY <1>0, <2>1, <2>2
      <3>2. pass'[q].step = "cut" /\ Idle(q)
        BY <3>1 DEF Unstarted, Idle
      <3>3. QED
        BY <1>12, <2>2, <3>2 DEF Went
    <2>3. CASE p # q
      BY <1>0, <2>1, <2>3 DEF Went
    <2>4. QED
      BY <2>2, <2>3
  <1>13. ASSUME \/ \E p \in Pass : StartUndo(p)
                \/ \E d \in Derived : Withdraw(d) \/ Archive(d)
                \/ EndUndo
                \/ \E n \in Raw, live \in SUBSET Derived : Invalidate(n, live)
                \/ \E n \in Raw \cup Derived : Erase(n)
         PROVE  Went(q)
    BY <1>13 DEF StartUndo, Withdraw, Archive, EndUndo, Invalidate, Erase, Went
  <1>14. QED
    BY <1>3, <1>4, <1>5, <1>6, <1>7, <1>8, <1>9, <1>10, <1>11, <1>12, <1>13 DEF Next

\* Only an erasure takes facts and edges away.
LEMMA OthersTakeNothing ==
  ASSUME TypeOK, Next, ~ \E n \in Raw \cup Derived : Erase(n)
  PROVE  Stored \subseteq Stored' /\ edges \subseteq edges'
  <1>1. ASSUME NEW m, NEW fact, facts' = [facts EXCEPT ![m] = fact] PROVE Stored' = Stored
    BY <1>1 DEF Stored
  <1>2. CASE \E p \in Pass, d \in Derived, sources \in SUBSET Raw : AddPending(p, d, sources)
    BY <1>2 DEF AddPending, Stored
  <1>3. CASE \E p \in Pass : StandUp(p) \/ Fails(p) \/ Mark(p)
    BY <1>1, <1>3 DEF StandUp, Fails, Mark, Stored
  <1>4. CASE \E d \in Derived : Withdraw(d) \/ Archive(d)
    BY <1>1, <1>4 DEF Withdraw, Archive
  <1>5. CASE \E n \in Raw, live \in SUBSET Derived : Invalidate(n, live)
    BY <1>5 DEF Invalidate, Stored
  <1>6. CASE \E p \in Pass, source \in Raw : Link(p, source)
    BY <1>6 DEF Link, Stored
  <1>7. CASE \/ \E p \in Pass : \/ \E read \in SUBSET Raw : Start(p, read)
                                \/ \E proposals \in SUBSET SUBSET Raw : Answer(p, proposals)
                                \/ \E sources \in SUBSET Raw : Refused(p, sources)
                                \/ \E n \in Raw : Look(p, n)
                                \/ End(p) \/ Cut(p) \/ StartUndo(p)
             \/ EndUndo
    BY <1>7 DEF Start, Answer, Refused, Look, End, Cut, StartUndo, EndUndo, Stored
  <1>8. QED
    BY <1>2, <1>3, <1>4, <1>5, <1>6, <1>7 DEF Next

\* An erasure takes what is drawn from anything it takes.
LEMMA GoneIsClosed ==
  ASSUME NEW n \in Stored, NEW d \in Conclusions, NEW k \in facts[d].sources, k \in Gone(n)
  PROVE  d \in Gone(n)
  <1> SUFFICES ASSUME d # n, NEW S \in SUBSET (Stored \cup {n}), n \in S, Closed(Graph, S) PROVE d \in S
    BY DEF Gone, DependentsOf, Graph, Conclusions
  <1>1. k \in S
    BY DEF Gone, DependentsOf, Graph
  <1>2. d \in DOMAIN Graph /\ Graph[d] = facts[d].sources
    BY DEF Graph, Conclusions
  <1>3. QED
    BY <1>1, <1>2 DEF Closed

\* While a conclusion stays, so do the facts it was drawn from and its edges.
LEMMA EvidenceStays ==
  ASSUME TypeOK, Next, NEW d \in Conclusions, d \in Stored', NEW n \in facts[d].sources,
         n \in Stored, <<d, n>> \in edges
  PROVE  n \in Stored' /\ <<d, n>> \in edges'
  <1>1. CASE \E m \in Raw \cup Derived : Erase(m)
    <2>1. PICK m \in Stored : /\ facts' = [k \in Stored \ Gone(m) |-> facts[k]]
                              /\ edges' = {e \in edges : e[1] \notin Gone(m) /\ e[2] \notin Gone(m)}
      BY <1>1 DEF Erase
    <2>2. Stored' = Stored \ Gone(m)
      BY <2>1 DEF Stored
    <2>3. d \notin Gone(m) /\ n \notin Gone(m)
      BY <2>2, GoneIsClosed
    <2>4. QED
      BY <2>1, <2>2, <2>3
  <1>2. QED
    BY <1>1, OthersTakeNothing

\* The part of a conclusion's evidence that its pass has recorded is there, while the
\* conclusion waits for the rest.
LinkedSoFar ==
  \A p \in Pass : pass[p].saved \in Stored =>
    \A n \in facts[pass[p].saved].sources \ pass[p].links :
      n \in Stored /\ <<pass[p].saved, n>> \in edges

LEMMA NextLinkedSoFar == TypeOK /\ LinkedSoFar /\ Next => LinkedSoFar'
  <1> SUFFICES ASSUME TypeOK, LinkedSoFar, Next, NEW p \in Pass, pass'[p].saved \in Stored',
                      NEW n \in facts'[pass'[p].saved].sources \ pass'[p].links
               PROVE  n \in Stored' /\ <<pass'[p].saved, n>> \in edges'
    BY DEF LinkedSoFar
  <1> DEFINE d == pass'[p].saved
  <1>1. TypeOK'
    BY NextTypeOK
  <1>2. d \in Conclusions'
    BY <1>1, IdsAssumption DEF TypeOK, PassState, Conclusions
  <1>3. Changed(d)
    BY <1>2, ConclusionsChange
  <1>4. Went(p)
    BY PassesGo
  <1>5. d # Nil
    BY <1>2, IdsAssumption DEF Conclusions
  <1>6. CASE \E c \in Derived, sources \in SUBSET Raw : AddPending(p, c, sources) /\ d = c /\ pass'[p].links = sources
    <2>1. PICK sources \in SUBSET Raw : AddPending(p, d, sources) /\ pass'[p].links = sources
      BY <1>6
    <2>2. facts'[d] = Written(p, sources)
      BY <1>2, <2>1 DEF AddPending, Conclusions, Stored
    <2>3. QED
      BY <2>1, <2>2 DEF Written
  <1>7. CASE d = pass[p].saved
    <2>1. d \in minted
      BY <1>5, <1>7 DEF TypeOK
    <2>2. Kept(d)
      BY <1>3, <2>1 DEF Changed
    <2>3. d \in Conclusions /\ n \in facts[d].sources /\ d \in Stored
      BY <2>2 DEF Kept, Conclusions
    <2>4. CASE n \notin pass[p].links
      <3>1. n \in Stored /\ <<d, n>> \in edges
        BY <1>7, <2>3, <2>4 DEF LinkedSoFar
      <3>2. QED
        BY <2>3, <3>1, EvidenceStays
    <2>5. CASE Link(p, n)
      BY <1>7, <2>5 DEF Link, Stored
    <2>6. CASE n \in pass[p].links /\ ~ Link(p, n)
      <3>1. \E source \in Raw : Link(p, source) /\ pass'[p].links = pass[p].links \ {source}
        BY <1>4, <1>5, <1>7, <2>1, <2>6 DEF Went, Linking, Idle, AddPending
      <3>2. QED
        BY <2>6, <3>1
    <2>7. QED
      BY <2>4, <2>5, <2>6
  <1>8. QED
    BY <1>4, <1>5, <1>6, <1>7 DEF Went, Linking, Idle

\* However passes, erasures and failing writes interleave, and for any number of
\* facts and passes, a conclusion that stands has every fact it was drawn from and an
\* evidence edge to each.
THEOREM ConsolidationStandsOnEvidence == Spec => []StandsOnEvidence
  <1>1. Init => LinkedSoFar /\ StandsOnEvidence
    BY IdsAssumption DEF Init, LinkedSoFar, StandsOnEvidence, Standing, Conclusions, Stored, Unstarted
  <1>2. ASSUME TypeOK, LinkedSoFar, StandsOnEvidence, Next,
               NEW d \in Standing', NEW n \in facts'[d].sources
        PROVE  n \in Stored' /\ <<d, n>> \in edges'
    <2>1. d \in Conclusions' /\ d \in Stored' /\ facts'[d].ended = FALSE
      <3>1. facts'[d] \in Conclusion /\ d \in Conclusions' /\ ~ facts'[d].ended /\ d \in Stored'
        BY <1>2, NextTypeOK, IdsAssumption DEF TypeOK, Standing, Conclusions
      <3>2. QED
        BY <3>1 DEF Conclusion
    <2>2. Changed(d)
      BY <1>2, <2>1, ConclusionsChange
    <2>3. CASE \E p \in Pass, sources \in SUBSET Raw : facts'[d] = Written(p, sources)
      BY <2>1, <2>3 DEF Written
    <2>4. CASE \E why \in {"unrecorded", "undo", "source"} : EndedAs(d, why)
      BY <2>1, <2>4 DEF EndedAs
    <2>5. CASE Kept(d) /\ Unmoved(d)
      <3>1. d \in Conclusions /\ d \in Stored /\ n \in facts[d].sources /\ ~ facts[d].ended
        BY <2>1, <2>5 DEF Kept, Unmoved, Conclusions
      <3>2. n \in Stored /\ <<d, n>> \in edges
        BY <1>2, <3>1 DEF StandsOnEvidence, Standing
      <3>3. QED
        BY <1>2, <2>1, <3>1, <3>2, EvidenceStays
    <2>6. CASE Kept(d) /\ \E p \in Pass : StandUp(p) /\ d = pass[p].saved
      <3>1. PICK p \in Pass : d = pass[p].saved /\ pass[p].links = {}
        BY <2>6 DEF StandUp
      <3>2. d \in Conclusions /\ d \in Stored /\ n \in facts[d].sources
        BY <2>6 DEF Kept, Conclusions
      <3>3. n \in Stored /\ <<d, n>> \in edges
        BY <1>2, <3>1, <3>2 DEF LinkedSoFar
      <3>4. QED
        BY <1>2, <2>1, <3>2, <3>3, EvidenceStays
    <2>7. QED
      BY <2>2, <2>3, <2>4, <2>5, <2>6 DEF Changed
  <1>3. TypeOK /\ LinkedSoFar /\ StandsOnEvidence /\ [Next]_vars => (LinkedSoFar /\ StandsOnEvidence)'
    <2>1. TypeOK /\ LinkedSoFar /\ StandsOnEvidence /\ Next => StandsOnEvidence'
      BY <1>2 DEF StandsOnEvidence
    <2>2. UNCHANGED vars /\ LinkedSoFar /\ StandsOnEvidence => (LinkedSoFar /\ StandsOnEvidence)'
      BY DEF vars, LinkedSoFar, StandsOnEvidence, Standing, Conclusions, Stored
    <2>3. QED
      BY <2>1, <2>2, NextLinkedSoFar
  <1>4. QED
    BY <1>1, <1>3, ConsolidationTypeOK, PTL DEF Spec

-----------------------------------------------------------------------------

LEMMA UndoGoes ==
  ASSUME Next
  PROVE  \/ undo' = undo
         \/ undo' = NoUndo
         \/ \E p \in Pass :
              /\ StartUndo(p) /\ facts' = facts /\ pass' = pass
              /\ undo' = [run |-> p, todo |-> Found(p) \cap Standing, over |-> pass[p].step \in {"over", "cut"}]
         \/ \E d \in Derived :
              Withdraw(d) /\ d \in undo.todo /\ pass' = pass /\ undo' = [undo EXCEPT !.todo = @ \ {d}]
  <1>1. CASE \/ \E p \in Pass : \/ \E read \in SUBSET Raw : Start(p, read)
                                \/ \E proposals \in SUBSET SUBSET Raw : Answer(p, proposals)
                                \/ \E d \in Derived, sources \in SUBSET Raw : AddPending(p, d, sources)
                                \/ \E source \in Raw : Link(p, source)
                                \/ StandUp(p) \/ Fails(p)
             \/ \E d \in Derived : Archive(d)
             \/ \E n \in Raw, live \in SUBSET Derived : Invalidate(n, live)
             \/ \E n \in Raw \cup Derived : Erase(n)
    BY <1>1 DEF Start, Answer, AddPending, Link, StandUp, Fails, Archive, Invalidate, Erase
  <1>2. CASE \E p \in Pass : \/ \E sources \in SUBSET Raw : Refused(p, sources)
                             \/ \E n \in Raw : Look(p, n)
                             \/ Mark(p) \/ End(p) \/ Cut(p)
    BY <1>2 DEF Refused, Look, Mark, End, Cut
  <1>3. CASE (\E p \in Pass : StartUndo(p)) \/ (\E d \in Derived : Withdraw(d)) \/ EndUndo
    BY <1>3 DEF StartUndo, Withdraw, EndUndo
  <1>4. QED
    BY <1>1, <1>2, <1>3 DEF Next

\* A pass has the conclusion it is writing to itself: it is pending, or withdrawn with
\* a source; no undo is about to withdraw it; and it is of that pass.
PendingWhileSaved ==
  \A p \in Pass : pass[p].saved \in Stored =>
    /\ facts[pass[p].saved].why \in {"pending", "source"}
    /\ facts[pass[p].saved].run = p
    /\ pass[p].saved \notin undo.todo

UndoOfMinted == undo.todo \subseteq minted

SavedInv == PendingWhileSaved /\ UndoOfMinted

LEMMA NextUndoOfMinted == TypeOK /\ UndoOfMinted /\ Next => UndoOfMinted'
  <1> SUFFICES ASSUME TypeOK, UndoOfMinted, Next PROVE UndoOfMinted'
    OBVIOUS
  <1>1. minted \subseteq minted'
    <2>1. CASE \/ \E p \in Pass : \/ \E read \in SUBSET Raw : Start(p, read)
                                  \/ \E proposals \in SUBSET SUBSET Raw : Answer(p, proposals)
                                  \/ \E d \in Derived, sources \in SUBSET Raw : AddPending(p, d, sources)
                                  \/ \E source \in Raw : Link(p, source)
                                  \/ StandUp(p) \/ Fails(p)
               \/ \E d \in Derived : Archive(d)
               \/ \E n \in Raw, live \in SUBSET Derived : Invalidate(n, live)
               \/ \E n \in Raw \cup Derived : Erase(n)
      BY <2>1 DEF Start, Answer, AddPending, Link, StandUp, Fails, Archive, Invalidate, Erase
    <2>2. CASE \E p \in Pass : \/ \E sources \in SUBSET Raw : Refused(p, sources)
                               \/ \E n \in Raw : Look(p, n)
                               \/ Mark(p) \/ End(p) \/ Cut(p)
      BY <2>2 DEF Refused, Look, Mark, End, Cut
    <2>3. CASE (\E p \in Pass : StartUndo(p)) \/ (\E d \in Derived : Withdraw(d)) \/ EndUndo
      BY <2>3 DEF StartUndo, Withdraw, EndUndo
    <2>4. QED
      BY <2>1, <2>2, <2>3 DEF Next
  <1>2. undo'.todo \subseteq minted
    <2>1. Standing \subseteq minted
      BY DEF TypeOK, Standing, Conclusions
    <2>2. undo \in [run : Pass \cup {Nil}, todo : SUBSET Derived, over : BOOLEAN]
      BY DEF TypeOK
    <2>3. CASE \E p \in Pass : undo' = [run |-> p, todo |-> Found(p) \cap Standing, over |-> pass[p].step \in {"over", "cut"}]
      BY <2>1, <2>3
    <2>4. CASE \E d \in Derived : undo' = [undo EXCEPT !.todo = @ \ {d}]
      BY <2>2, <2>4 DEF UndoOfMinted
    <2>5. QED
      BY <2>3, <2>4, UndoGoes DEF UndoOfMinted, NoUndo
  <1>3. QED
    BY <1>1, <1>2 DEF UndoOfMinted

\* Nobody but its pass stands a conclusion up, and then the pass is done with it.
LEMMA StoodUpIsDone ==
  ASSUME TypeOK, PendingWhileSaved, NEW p \in Pass, NEW q \in Pass, StandUp(q) \/ Fails(q),
         pass[q].saved \in Stored, pass[p].saved = pass[q].saved
  PROVE  pass'[p].saved = Nil
  <1>1. p = q
    BY DEF PendingWhileSaved
  <1>2. PICK to : Moves(q, "linking", to) /\ to.saved = Nil
    <2>1. pass[q] \in PassState
      BY DEF TypeOK
    <2>2. /\ [pass[q] EXCEPT !.step = "writing", !.saved = Nil].saved = Nil
          /\ [pass[q] EXCEPT !.step = "writing", !.saved = Nil, !.links = {}].saved = Nil
      BY <2>1 DEF PassState
    <2>3. QED
      BY <2>2 DEF StandUp, Fails
  <1>3. QED
    BY <1>1, <1>2 DEF Moves, TypeOK

LEMMA NextPendingWhileSaved == TypeOK /\ WithdrawalsSayWhy /\ SavedInv /\ Next => PendingWhileSaved'
  <1> SUFFICES ASSUME TypeOK, WithdrawalsSayWhy, SavedInv, Next, NEW p \in Pass, pass'[p].saved \in Stored'
               PROVE  /\ facts'[pass'[p].saved].why \in {"pending", "source"}
                      /\ facts'[pass'[p].saved].run = p
                      /\ pass'[p].saved \notin undo'.todo
    BY DEF PendingWhileSaved
  <1> DEFINE d == pass'[p].saved
  <1>1. d \in Conclusions' /\ d # Nil /\ d \in Derived
    BY NextTypeOK, IdsAssumption DEF TypeOK, PassState, Conclusions
  <1>2. Changed(d) /\ Went(p)
    BY <1>1, ConclusionsChange, PassesGo
  <1>3. CASE \E sources \in SUBSET Raw : AddPending(p, d, sources)
    <2>1. PICK sources \in SUBSET Raw : AddPending(p, d, sources)
      BY <1>3
    <2>2. facts'[d] = Written(p, sources) /\ d \notin minted /\ undo' = undo
      BY <1>1, <2>1 DEF AddPending, Conclusions, Stored
    <2>3. QED
      BY <2>2 DEF Written, SavedInv, UndoOfMinted
  <1>4. CASE d = pass[p].saved
    <2>1. d \in minted
      BY <1>1, <1>4 DEF TypeOK
    <2>2. Kept(d) /\ d \in Conclusions /\ d \in Stored
      BY <1>2, <2>1 DEF Changed, Kept, Conclusions
    <2>3. facts[d].why \in {"pending", "source"} /\ facts[d].run = p /\ d \notin undo.todo
      BY <1>4, <2>2 DEF SavedInv, PendingWhileSaved
    <2>4. ~ \E q \in Pass : (StandUp(q) \/ Fails(q)) /\ d = pass[q].saved
      BY <1>1, <1>4, <2>2, StoodUpIsDone DEF SavedInv
    <2>5. facts'[d].why \in {"pending", "source"} /\ facts'[d].run = p
      BY <1>2, <2>1, <2>2, <2>3, <2>4 DEF Changed, Kept, Unmoved, EndedAs
    <2>6. d \notin Standing
      BY <2>2, <2>3 DEF WithdrawalsSayWhy, Standing
    <2>7. d \notin undo'.todo
      <3>1. undo \in [run : Pass \cup {Nil}, todo : SUBSET Derived, over : BOOLEAN]
        BY DEF TypeOK
      <3>2. CASE \E c \in Derived : undo' = [undo EXCEPT !.todo = @ \ {c}]
        BY <2>3, <3>1, <3>2
      <3>3. QED
        BY <2>3, <2>6, <3>2, UndoGoes DEF NoUndo
    <2>8. QED
      BY <2>5, <2>7
  <1>5. QED
    BY <1>1, <1>2, <1>3, <1>4 DEF Went, Linking, Idle

LEMMA SavedInvHolds == Spec => []SavedInv
  <1>1. Init => SavedInv
    BY IdsAssumption DEF Init, SavedInv, PendingWhileSaved, UndoOfMinted, NoUndo, Unstarted, Stored
  <1>2. TypeOK /\ WithdrawalsSayWhy /\ SavedInv /\ [Next]_vars => SavedInv'
    <2>1. UNCHANGED vars /\ SavedInv => SavedInv'
      BY DEF vars, SavedInv, PendingWhileSaved, UndoOfMinted, Stored
    <2>2. QED
      BY <2>1, NextUndoOfMinted, NextPendingWhileSaved DEF SavedInv
  <1>3. QED
    BY <1>1, <1>2, ConsolidationTypeOK, ConsolidationSaysWhy, PTL DEF Spec

\* However an undo, an invalidation and a pass that fails or goes on overlap: a
\* conclusion that was withdrawn does not stand again once its pass is done with it.
THEOREM ConsolidationNeverRevives == Spec => NeverRevived
  <1> DEFINE Gives ==
        \A d \in Conclusions :
          \/ facts[d].why \in {"unrecorded", "undo"}
          \/ facts[d].why = "source" /\ \A p \in Pass : pass[p].saved # d
          => d \notin Standing'
  <1>1. TypeOK /\ WithdrawalsSayWhy /\ SavedInv /\ Next => Gives
    <2> SUFFICES ASSUME TypeOK, WithdrawalsSayWhy, SavedInv, Next, NEW d \in Conclusions, d \in Standing'
                 PROVE  /\ facts[d].why \notin {"unrecorded", "undo"}
                        /\ facts[d].why = "source" => \E p \in Pass : pass[p].saved = d
      OBVIOUS
    <2>1. d \in Conclusions' /\ facts'[d].ended = FALSE
      <3>1. facts'[d] \in Conclusion /\ d \in Conclusions' /\ ~ facts'[d].ended
        BY NextTypeOK, IdsAssumption DEF TypeOK, Standing, Conclusions
      <3>2. QED
        BY <3>1 DEF Conclusion
    <2>2. Changed(d) /\ d \in minted /\ d \in Stored
      BY <2>1, ConclusionsChange DEF TypeOK, Conclusions
    <2>3. CASE Unmoved(d)
      <3>1. ~ facts[d].ended
        BY <2>1, <2>3 DEF Unmoved
      <3>2. facts[d].why = "none"
        BY <3>1 DEF WithdrawalsSayWhy
      <3>3. QED
        BY <3>2
    <2>4. CASE \E p \in Pass : StandUp(p) /\ d = pass[p].saved
      BY <2>2, <2>4 DEF SavedInv, PendingWhileSaved
    <2>5. QED
      BY <2>1, <2>2, <2>3, <2>4 DEF Changed, EndedAs
  <1> HIDE DEF Gives
  <1>2. Spec => [][Gives]_vars
    BY <1>1, ConsolidationTypeOK, ConsolidationSaysWhy, SavedInvHolds, PTL DEF Spec
  <1>3. QED
    BY <1>2 DEF NeverRevived, Gives

-----------------------------------------------------------------------------

\* A pass that is over, or was cut short, stays so.
LEMMA OverForGood ==
  ASSUME TypeOK, Next, NEW p \in Pass, pass[p].step \in {"over", "cut"}
  PROVE  pass'[p] = pass[p]
  BY PassesGo DEF Went, Start, Answer, AddPending, Link, StandUp, Fails, Refused, Look, Mark, End, Cut, Moves, Running

\* An undo of a pass that was over has still to withdraw whatever stands of it.
UndoHolds ==
  undo.over => /\ undo.run \in Pass
               /\ pass[undo.run].step \in {"over", "cut"}
               /\ \A d \in Standing : facts[d].run = undo.run => d \in undo.todo

LEMMA NextUndoHolds == TypeOK /\ SavedInv /\ UndoHolds /\ Next => UndoHolds'
  <1> SUFFICES ASSUME TypeOK, SavedInv, UndoHolds, Next, undo'.over PROVE UndoHolds'
    BY DEF UndoHolds
  <1>0. undo \in [run : Pass \cup {Nil}, todo : SUBSET Derived, over : BOOLEAN]
    BY DEF TypeOK
  <1>1. ASSUME NEW p \in Pass, facts' = facts, pass' = pass,
               undo' = [run |-> p, todo |-> Found(p) \cap Standing, over |-> pass[p].step \in {"over", "cut"}]
        PROVE  UndoHolds'
    BY <1>1 DEF UndoHolds, Standing, Conclusions, Stored, Found
  <1>2. ASSUME undo.over, undo'.run = undo.run,
               \A d \in Standing' \cap undo.todo : d \in undo'.todo
        PROVE  UndoHolds'
    <2>1. undo.run \in Pass /\ pass[undo.run].step \in {"over", "cut"} /\ pass'[undo.run] = pass[undo.run]
      BY <1>2, OverForGood DEF UndoHolds
    <2>2. ASSUME NEW d \in Standing', facts'[d].run = undo.run PROVE d \in undo.todo
      <3>1. d \in Conclusions' /\ facts'[d].ended = FALSE
        <4>1. facts'[d] \in Conclusion /\ d \in Conclusions' /\ ~ facts'[d].ended
          BY <2>2, NextTypeOK, IdsAssumption DEF TypeOK, Standing, Conclusions
        <4>2. QED
          BY <4>1 DEF Conclusion
      <3>2. Changed(d)
        BY <3>1, ConclusionsChange
      <3>3. ASSUME NEW p \in Pass, NEW sources \in SUBSET Raw, AddPending(p, d, sources), facts'[d] = Written(p, sources)
            PROVE  FALSE
        BY <2>1, <2>2, <3>3 DEF AddPending, Moves, Written
      <3>4. ASSUME NEW p \in Pass, StandUp(p), d = pass[p].saved, Kept(d) PROVE FALSE
        <4>1. facts[d].run = p
          BY <3>4 DEF SavedInv, PendingWhileSaved, StandUp
        <4>2. QED
          BY <2>1, <2>2, <3>4, <4>1 DEF StandUp, Moves, Kept
      <3>5. Kept(d) /\ Unmoved(d)
        BY <3>1, <3>2, <3>3, <3>4 DEF Changed, EndedAs
      <3>6. d \in Standing /\ facts[d].run = undo.run
        BY <2>2, <3>1, <3>5 DEF Kept, Unmoved, Standing
      <3>7. QED
        BY <1>2, <3>6 DEF UndoHolds
    <2>3. QED
      BY <1>2, <2>1, <2>2 DEF UndoHolds
  <1>3. ASSUME NEW c \in Derived, Withdraw(c), undo' = [undo EXCEPT !.todo = @ \ {c}] PROVE UndoHolds'
    <2>1. undo.over /\ undo'.run = undo.run /\ undo'.todo = undo.todo \ {c}
      BY <1>0, <1>3
    <2>2. c \notin Standing'
      <3>1. c \in Stored /\ facts' = [facts EXCEPT ![c] = [@ EXCEPT !.ended = TRUE, !.why = "undo"]]
        BY <1>3 DEF Withdraw
      <3>2. facts[c] \in Conclusion
        BY <1>3, <3>1, KindsOK DEF Conclusions
      <3>3. facts'[c].ended
        <4>1. facts'[c] = [facts[c] EXCEPT !.ended = TRUE, !.why = "undo"]
          BY <3>1 DEF Stored
        <4>2. facts'[c].ended = TRUE
          BY <3>2, <4>1 DEF Conclusion
        <4>3. QED
          BY <4>2
      <3>4. QED
        BY <3>3 DEF Standing
    <2>3. QED
      BY <1>2, <2>1, <2>2
  <1>4. CASE undo' = undo
    BY <1>2, <1>4
  <1>5. undo' # NoUndo
    BY DEF NoUndo
  <1>6. QED
    BY <1>1, <1>3, <1>4, <1>5, UndoGoes

\* The undo of a pass that was over misses nothing, whatever other passes write and
\* other hosts archive meanwhile.
THEOREM ConsolidationUndoneForGood == Spec => []UndoneForGood
  <1>1. Init => UndoHolds
    BY DEF Init, UndoHolds, NoUndo
  <1>2. TypeOK /\ SavedInv /\ UndoHolds /\ [Next]_vars => UndoHolds'
    <2>1. UNCHANGED vars /\ UndoHolds => UndoHolds'
      BY DEF vars, UndoHolds, Standing, Conclusions, Stored
    <2>2. QED
      BY <2>1, NextUndoHolds
  <1>3. UndoHolds => UndoneForGood
    BY DEF UndoHolds, UndoneForGood
  <1>4. QED
    BY <1>1, <1>2, <1>3, ConsolidationTypeOK, SavedInvHolds, PTL DEF Spec

-----------------------------------------------------------------------------

\* A raw fact's mark stays, and its receipt changes only as a mark is written over it,
\* or when it is noted.
LEMMA RawFactsChange ==
  ASSUME TypeOK, Next, NEW n \in Stored' \cap Raw
  PROVE  /\ n \in Stored
         /\ facts[n].marked => facts'[n].marked
         /\ \/ facts[n].receipt => facts'[n].receipt
            \/ \E p \in Pass : Mark(p) /\ pass[p].fresh.id = n /\ facts'[n].receipt = pass[p].fresh.receipt
         /\ \A p \in Pass : Mark(p) /\ pass[p].fresh.id = n => facts'[n].marked
  <1> DEFINE Goal == /\ n \in Stored
                     /\ facts[n].marked => facts'[n].marked
                     /\ \/ facts[n].receipt => facts'[n].receipt
                        \/ \E p \in Pass : Mark(p) /\ pass[p].fresh.id = n /\ facts'[n].receipt = pass[p].fresh.receipt
                     /\ \A p \in Pass : Mark(p) /\ pass[p].fresh.id = n => facts'[n].marked
  <1>0. n \in Raw /\ n \notin Derived /\ FactsOK
    BY IdsAssumption DEF TypeOK, FactsOK
  <1>1. ASSUME n \in Stored PROVE facts[n].marked \in BOOLEAN /\ facts[n].receipt \in BOOLEAN /\ facts[n] \in RawFact
    BY <1>0, <1>1, KindsOK DEF RawFact
  <1>2. facts'[n].marked \in BOOLEAN /\ facts'[n].receipt \in BOOLEAN
    BY <1>0, NextTypeOK DEF TypeOK, RawFact
  <1>3. ASSUME NEW p \in Pass, Mark(p) PROVE Goal
    <2> DEFINE copy == pass[p].fresh
               fact == [facts[copy.id] EXCEPT !.marked = TRUE, !.receipt = copy.receipt]
    <2>1. copy.id \in Stored /\ facts' = [facts EXCEPT ![copy.id] = fact] /\ Moves(p, "writing", [pass[p] EXCEPT !.fresh = NoCopy])
      BY <1>3 DEF Mark
    <2>2. n \in Stored
      BY <1>0, <2>1 DEF Stored
    <2>3. CASE n = copy.id
      <3>1. facts'[n] = fact
        BY <2>1, <2>2, <2>3 DEF Stored
      <3>2. facts'[n].marked = TRUE /\ facts'[n].receipt = copy.receipt
        BY <1>1, <2>2, <2>3, <3>1 DEF RawFact
      <3>3. QED
        BY <1>2, <1>3, <2>2, <2>3, <3>2
    <2>4. CASE n # copy.id
      <3>1. facts'[n] = facts[n]
        BY <2>1, <2>2, <2>4 DEF Stored
      <3>2. \A q \in Pass : Mark(q) /\ pass[q].fresh.id = n => q = p
        <4> SUFFICES ASSUME NEW q \in Pass, Mark(q), pass[q].fresh.id = n, q # p PROVE FALSE
          OBVIOUS
        <4>1. pass'[q] = pass[q] /\ pass[q].fresh # NoCopy
          BY <1>3 DEF Mark, Moves, TypeOK
        <4>2. pass'[q] = [pass[q] EXCEPT !.fresh = NoCopy] /\ pass[q] \in PassState
          BY DEF Mark, Moves, TypeOK
        <4>3. pass'[q].fresh = NoCopy
          BY <4>2 DEF PassState
        <4>4. QED
          BY <4>1, <4>3
      <3>3. QED
        BY <1>2, <2>2, <2>4, <3>1, <3>2
    <2>5. QED
      BY <2>3, <2>4
  <1>4. ASSUME n \in Stored, facts'[n] = facts[n], ~ \E p \in Pass : Mark(p) PROVE Goal
    BY <1>2, <1>4
  <1>5. ASSUME ~ \E p \in Pass : Mark(p),
               ~ \E live \in SUBSET Derived : Invalidate(n, live)
        PROVE  n \in Stored /\ facts'[n] = facts[n]
    <2>1. ASSUME NEW m \in Derived, NEW fact, facts' = [facts EXCEPT ![m] = fact]
          PROVE  n \in Stored /\ facts'[n] = facts[n]
      BY <1>0, <2>1 DEF Stored
    <2>2. CASE \E p \in Pass, d \in Derived, sources \in SUBSET Raw : AddPending(p, d, sources)
      BY <1>0, <2>2 DEF AddPending, Stored
    <2>3. CASE \E p \in Pass : StandUp(p) \/ Fails(p)
      <3>1. PICK p \in Pass : StandUp(p) \/ Fails(p)
        BY <2>3
      <3>2. pass[p].saved \in Derived \/ facts' = facts
        <4>1. pass[p].saved \in Stored => pass[p].saved \in Derived
          BY IdsAssumption DEF TypeOK, PassState
        <4>2. QED
          BY <3>1, <4>1 DEF StandUp, Fails
      <3>3. QED
        BY <2>1, <3>1, <3>2 DEF StandUp, Fails, Stored
    <2>4. CASE \E d \in Derived : Withdraw(d) \/ Archive(d)
      BY <2>1, <2>4 DEF Withdraw, Archive
    <2>5. CASE \E m \in Raw, live \in SUBSET Derived : Invalidate(m, live)
      <3>1. PICK m \in Raw, live \in SUBSET Derived : Invalidate(m, live)
        BY <2>5
      <3>2. m # n
        BY <1>5, <3>1
      <3>3. RetractionsFor(Graph, live, m) \subseteq live /\ m \in Stored
        BY <3>1, WithdrawnAreLive DEF Invalidate, Conclusions
      <3>4. n \notin RetractionsFor(Graph, live, m)
        BY <1>0, <3>1, <3>3
      <3>5. QED
        BY <3>1, <3>2, <3>4 DEF Invalidate, Stored
    <2>6. CASE \E m \in Raw \cup Derived : Erase(m)
      BY <2>6 DEF Erase, Stored
    <2>7. CASE \/ \E p \in Pass : \/ \E read \in SUBSET Raw : Start(p, read)
                                  \/ \E proposals \in SUBSET SUBSET Raw : Answer(p, proposals)
                                  \/ \E source \in Raw : Link(p, source)
                                  \/ \E sources \in SUBSET Raw : Refused(p, sources)
                                  \/ \E m \in Raw : Look(p, m)
                                  \/ End(p) \/ Cut(p) \/ StartUndo(p)
               \/ EndUndo
      BY <2>7 DEF Start, Answer, Link, Refused, Look, End, Cut, StartUndo, EndUndo, Stored
    <2>8. QED
      BY <1>5, <2>2, <2>3, <2>4, <2>5, <2>6, <2>7 DEF Next
  <1>6. ASSUME NEW live \in SUBSET Derived, Invalidate(n, live) PROVE Goal
    <2>1. n \in Stored /\ facts'[n] = [facts[n] EXCEPT !.ended = TRUE, !.receipt = TRUE]
      BY <1>6 DEF Invalidate
    <2>2. facts'[n].marked = facts[n].marked /\ facts'[n].receipt = TRUE
      BY <1>1, <2>1 DEF RawFact
    <2>3. pass' = pass
      BY <1>6 DEF Invalidate
    <2>4. ~ \E p \in Pass : Mark(p)
      <3> SUFFICES ASSUME NEW p \in Pass, Mark(p) PROVE FALSE
        OBVIOUS
      <3>1. pass'[p] = [pass[p] EXCEPT !.fresh = NoCopy] /\ pass[p] \in PassState /\ pass[p].fresh # NoCopy
        BY DEF Mark, Moves, TypeOK
      <3>2. pass'[p].fresh = NoCopy
        BY <3>1 DEF PassState
      <3>3. QED
        BY <2>3, <3>1, <3>2
    <2>5. QED
      BY <1>1, <1>2, <2>1, <2>2, <2>4
  <1>7. QED
    BY <1>3, <1>4, <1>5, <1>6

\* What is drawn from what a pass read is marked when the pass is over; until then it
\* waits to be marked.
Covered ==
  \A p \in Pass :
    /\ pass[p].step # "cut" =>
         \A d \in Conclusions : facts[d].run = p =>
           \A n \in facts[d].sources \cap Stored :
             facts[n].marked \/ n \in pass[p].read \/ pass[p].fresh.id = n
    /\ pass[p].step \in {"unstarted", "over"} => pass[p].read = {} /\ pass[p].fresh = NoCopy
    /\ pass[p].step = "thinking" => pass[p].fresh = NoCopy
    /\ \A sources \in pass[p].todo : sources \subseteq pass[p].read

LEMMA NextCovered == TypeOK /\ Covered /\ Next => Covered'
  <1> SUFFICES ASSUME TypeOK, Covered, Next, NEW p \in Pass
               PROVE  /\ pass'[p].step # "cut" =>
                           \A d \in Conclusions' : facts'[d].run = p =>
                             \A n \in facts'[d].sources \cap Stored' :
                               facts'[n].marked \/ n \in pass'[p].read \/ pass'[p].fresh.id = n
                      /\ pass'[p].step \in {"unstarted", "over"} => pass'[p].read = {} /\ pass'[p].fresh = NoCopy
                      /\ pass'[p].step = "thinking" => pass'[p].fresh = NoCopy
                      /\ \A sources \in pass'[p].todo : sources \subseteq pass'[p].read
    BY DEF Covered
  <1>0. Went(p)
    BY PassesGo
  <1>1. /\ pass[p].step \in {"unstarted", "over"} => pass[p].read = {} /\ pass[p].fresh = NoCopy
        /\ pass[p].step = "thinking" => pass[p].fresh = NoCopy
        /\ \A sources \in pass[p].todo : sources \subseteq pass[p].read
    BY DEF Covered
  <1>2. /\ pass'[p].step \in {"unstarted", "over"} => pass'[p].read = {} /\ pass'[p].fresh = NoCopy
        /\ pass'[p].step = "thinking" => pass'[p].fresh = NoCopy
    BY <1>0, <1>1 DEF Went, Idle, Answer, Moves
  <1>3. \A sources \in pass'[p].todo : sources \subseteq pass'[p].read
    BY <1>0, <1>1 DEF Went, Idle, Reading, Linking, Answer, Look
  <1>4. ASSUME pass'[p].step # "cut", NEW d \in Conclusions', facts'[d].run = p,
               NEW n \in facts'[d].sources, n \in Stored', ~ facts'[n].marked
        PROVE  n \in pass'[p].read \/ pass'[p].fresh.id = n
    <2>1. n \in Raw /\ n # Nil
      <3>1. d \in Stored' /\ d \notin Raw
        BY IdsAssumption DEF Conclusions
      <3>2. facts'[d] \in Conclusion
        BY <3>1, NextTypeOK DEF TypeOK
      <3>3. QED
        BY <1>4, <3>2, IdsAssumption DEF Conclusion
    <2>2. n \in Stored /\ ~ facts[n].marked /\ \A q \in Pass : Mark(q) => pass[q].fresh.id # n
      BY <1>4, <2>1, RawFactsChange
    <2>3. Changed(d)
      BY ConclusionsChange
    <2>4. CASE \E q \in Pass, sources \in SUBSET Raw : AddPending(q, d, sources) /\ facts'[d] = Written(q, sources)
      <3>1. PICK sources \in SUBSET Raw : AddPending(p, d, sources) /\ n \in sources
        BY <1>4, <2>4 DEF Written
      <3>2. n \in pass[p].read
        BY <1>1, <3>1 DEF AddPending
      <3>3. pass'[p].read = pass[p].read
        <4>1. pass[p] \in PassState
          BY DEF TypeOK
        <4>2. pass'[p] = [pass[p] EXCEPT !.step = "linking", !.saved = d, !.links = sources, !.todo = @ \ {sources}]
          BY <3>1 DEF AddPending, Moves, TypeOK
        <4>3. QED
          BY <4>1, <4>2 DEF PassState
      <3>4. QED
        BY <3>2, <3>3
    <2>5. CASE Kept(d)
      <3>1. d \in Conclusions /\ facts[d].run = p /\ n \in facts[d].sources
        BY <1>4, <2>5 DEF Kept
      <3>2. pass[p].step # "cut"
        BY <1>4, OverForGood
      <3>3. n \in pass[p].read \/ pass[p].fresh.id = n
        BY <2>2, <3>1, <3>2 DEF Covered
      <3>4. NoCopy.id # n
        BY <2>1 DEF NoCopy
      <3>5. CASE n \in pass[p].read
        <4>1. CASE \E m \in Raw : Look(p, m) /\ pass'[p].read = pass[p].read \ {m} /\ pass'[p].fresh = IF m \in Stored THEN FreshCopy(p, m) ELSE NoCopy
          BY <2>2, <3>5, <4>1 DEF FreshCopy
        <4>2. QED
          BY <1>0, <1>1, <1>4, <3>5, <4>1 DEF Went, Reading, Start, End, Moves
      <3>6. CASE pass[p].fresh.id = n
        <4>1. pass[p].fresh # NoCopy /\ ~ Mark(p)
          BY <2>2, <3>4, <3>6
        <4>2. QED
          BY <1>0, <1>1, <1>4, <3>6, <4>1 DEF Went, Reading, Start, Look, End, Moves
      <3>7. QED
        BY <3>3, <3>5, <3>6
    <2>6. QED
      BY <2>3, <2>4, <2>5 DEF Changed
  <1>5. QED
    BY <1>2, <1>3, <1>4

LEMMA CoveredHolds == Spec => []Covered
  <1>1. Init => Covered
    BY IdsAssumption DEF Init, Covered, Conclusions, Stored, Unstarted
  <1>2. TypeOK /\ Covered /\ [Next]_vars => Covered'
    <2>1. UNCHANGED vars /\ Covered => Covered'
      BY DEF vars, Covered, Conclusions, Stored
    <2>2. QED
      BY <2>1, NextCovered
  <1>3. QED
    BY <1>1, <1>2, ConsolidationTypeOK, PTL DEF Spec

\* For any number of passes beside and after one another: none is handed what one that
\* is over concluded from, also when its conclusions were undone.
THEOREM ConsolidationNotTwice == Spec => NotConcludedTwice
  <1> DEFINE Fresh ==
        \A p \in Pass :
          pass[p].step = "unstarted" /\ pass'[p].step = "thinking" =>
            \A d \in Conclusions :
              pass[facts[d].run].step = "over" => facts[d].sources \cap pass'[p].read = {}
  <1>1. TypeOK /\ Covered /\ Next => Fresh
    <2> SUFFICES ASSUME TypeOK, Covered, Next, NEW p \in Pass,
                        pass[p].step = "unstarted", pass'[p].step = "thinking",
                        NEW d \in Conclusions, pass[facts[d].run].step = "over",
                        NEW n \in facts[d].sources, n \in pass'[p].read
                 PROVE  FALSE
      OBVIOUS
    <2>1. PICK read \in SUBSET Raw : Start(p, read) /\ pass'[p].read = read
      BY PassesGo DEF Went, Answer, AddPending, Link, StandUp, Fails, Refused, Look, Mark, End, Moves
    <2>2. n \in Stored /\ n \in Raw /\ ~ facts[n].marked
      BY <2>1 DEF Start, Readable
    <2>3. facts[d].run \in Pass
      BY KindsOK DEF Conclusion
    <2>4. n \in pass[facts[d].run].read \/ pass[facts[d].run].fresh.id = n
      BY <2>2, <2>3 DEF Covered
    <2>5. pass[facts[d].run].read = {} /\ pass[facts[d].run].fresh = NoCopy
      BY <2>3 DEF Covered
    <2>6. QED
      BY <2>2, <2>4, <2>5, IdsAssumption DEF NoCopy
  <1> HIDE DEF Fresh
  <1>2. Spec => [][Fresh]_vars
    BY <1>1, CoveredHolds, ConsolidationTypeOK, PTL DEF Spec
  <1>3. QED
    BY <1>2 DEF NotConcludedTwice, Fresh

-----------------------------------------------------------------------------

\* A pass that has had no other beside it is the only one, and what it knows of what
\* was noted before the answer is still true.
AloneKnows ==
  \A p \in Running \ together :
    /\ Running = {p}
    /\ \A n \in pass[p].answered \cap Stored : facts[n].receipt
    /\ pass[p].fresh.id \in pass[p].answered => pass[p].fresh.receipt

\* Passes come to run only by starting, and leave by ending; those left are `together`
\* as before.
LEMMA RunningGoes ==
  ASSUME TypeOK, Next
  PROVE  \/ Running' = Running /\ together' = together
         \/ \E p \in Pass, read \in SUBSET Raw : /\ Start(p, read) /\ Running' = Running \cup {p}
                                                /\ together' = IF Running = {} THEN together ELSE together \cup Running \cup {p}
         \/ \E p \in Running : Running' = Running \ {p} /\ together' = together \ {p}
  <1>1. CASE \E p \in Pass, read \in SUBSET Raw : Start(p, read)
    <2>1. PICK p \in Pass, read \in SUBSET Raw : Start(p, read)
      BY <1>1
    <2>2. [Unstarted EXCEPT !.step = "thinking", !.read = read] \in PassState
      BY DEF PassState, Unstarted, NoCopy
    <2>3. [Unstarted EXCEPT !.step = "thinking", !.read = read].step = "thinking"
      BY DEF Unstarted
    <2>4. Running' = Running \cup {p}
      BY <2>1, <2>2, <2>3, StillRunning DEF Start
    <2>5. QED
      BY <2>1, <2>4 DEF Start
  <1>2. CASE \E p \in Pass : End(p) \/ Cut(p)
    <2>1. PICK p \in Pass : End(p) \/ Cut(p)
      BY <1>2
    <2>2. p \in Running /\ together' = together \ {p}
      BY <2>1 DEF End, Cut, Running, Moves
    <2>3. /\ pass'[p].step \in {"over", "cut"}
          /\ \A q \in Pass \ {p} : pass'[q] = pass[q]
      <3>1. PICK step \in {"over", "cut"} : pass' = [pass EXCEPT ![p] = [Unstarted EXCEPT !.step = step]]
        BY <2>1 DEF End, Cut, Moves
      <3>2. [Unstarted EXCEPT !.step = step].step = step
        BY DEF Unstarted
      <3>3. QED
        BY <3>1, <3>2 DEF TypeOK
    <2>4. Running' = Running \ {p}
      BY <2>3 DEF Running
    <2>5. QED
      BY <2>2, <2>4
  <1>3. CASE ~ \E p \in Pass : End(p) \/ Cut(p) \/ \E read \in SUBSET Raw : Start(p, read)
    <2>1. \A p \in Pass : p \in Running' <=> p \in Running
      <3> SUFFICES ASSUME NEW p \in Pass PROVE p \in Running' <=> p \in Running
        OBVIOUS
      <3>1. Went(p)
        BY PassesGo
      <3>2. QED
        BY <1>3, <3>1 DEF Went, Running, Answer, AddPending, Link, StandUp, Fails, Refused, Look, Mark, Moves
    <2>2. together' = together
      <3>1. CASE \E p \in Pass : \/ \E proposals \in SUBSET SUBSET Raw : Answer(p, proposals)
                                 \/ \E d \in Derived, sources \in SUBSET Raw : AddPending(p, d, sources)
                                 \/ \E source \in Raw : Link(p, source)
                                 \/ StandUp(p) \/ Fails(p)
        BY <3>1 DEF Answer, AddPending, Link, StandUp, Fails
      <3>2. CASE \E p \in Pass : \/ \E sources \in SUBSET Raw : Refused(p, sources)
                                 \/ \E n \in Raw : Look(p, n)
                                 \/ Mark(p)
        BY <3>2 DEF Refused, Look, Mark
      <3>3. CASE \/ \E p \in Pass : StartUndo(p)
                 \/ \E d \in Derived : Withdraw(d) \/ Archive(d)
                 \/ EndUndo
                 \/ \E n \in Raw, live \in SUBSET Derived : Invalidate(n, live)
                 \/ \E n \in Raw \cup Derived : Erase(n)
        BY <3>3 DEF StartUndo, Withdraw, Archive, EndUndo, Invalidate, Erase
      <3>4. QED
        BY <1>3, <3>1, <3>2, <3>3 DEF Next
    <2>3. Running' = Running
      BY <2>1 DEF Running
    <2>4. QED
      BY <2>2, <2>3
  <1>4. QED
    BY <1>1, <1>2, <1>3

LEMMA NextAloneKnows == TypeOK /\ Covered /\ AloneKnows /\ Next => AloneKnows'
  <1> SUFFICES ASSUME TypeOK, Covered, AloneKnows, Next, NEW p \in Running', p \notin together'
               PROVE  /\ Running' = {p}
                      /\ \A n \in pass'[p].answered \cap Stored' : facts'[n].receipt
                      /\ pass'[p].fresh.id \in pass'[p].answered => pass'[p].fresh.receipt
    BY DEF AloneKnows
  <1>0. p \in Pass /\ TypeOK' /\ Went(p)
    BY NextTypeOK, PassesGo DEF Running
  <1>1. Running' = {p} /\ (p \in Running => p \notin together /\ Running = {p})
    BY RunningGoes DEF AloneKnows
  <1>2. CASE p \notin Running
    <2>1. pass[p].step \notin {"thinking", "writing", "linking"} /\ pass'[p].step \in {"thinking", "writing", "linking"}
      BY <1>0, <1>2 DEF Running
    <2>2. pass'[p].answered = {}
      BY <1>0, <2>1 DEF Went, Answer, AddPending, Link, StandUp, Fails, Refused, Look, Mark, Moves, Idle
    <2>3. QED
      BY <1>1, <2>2
  <1>3. CASE p \in Running
    <2>1. /\ \A n \in pass[p].answered \cap Stored : facts[n].receipt
          /\ pass[p].fresh.id \in pass[p].answered => pass[p].fresh.receipt
      BY <1>1, <1>3 DEF AloneKnows
    <2>2. \A q \in Pass : Mark(q) => q = p
      BY <1>1, <1>3 DEF Mark, Moves, Running
    <2>3. ASSUME NEW n \in pass[p].answered, n \in Stored' PROVE facts'[n].receipt
      <3>1. n \in Raw
        BY <1>0, <2>3 DEF TypeOK, PassState
      <3>2. n \in Stored /\ facts[n].receipt
        BY <2>1, <2>3, <3>1, RawFactsChange
      <3>3. QED
        BY <2>1, <2>2, <2>3, <3>1, <3>2, RawFactsChange
    <2>4. CASE pass'[p].answered = pass[p].answered /\ pass'[p].fresh = pass[p].fresh
      BY <1>1, <2>1, <2>3, <2>4
    <2>5. NoCopy.id \notin Raw
      BY IdsAssumption DEF NoCopy
    <2>6. \A n \in pass'[p].answered : n \in Raw
      BY <1>0 DEF TypeOK, PassState
    <2>7. CASE pass'[p].answered = pass[p].answered /\ pass'[p].fresh = NoCopy
      BY <1>1, <2>3, <2>5, <2>6, <2>7
    <2>8. CASE pass'[p].answered = {}
      BY <1>1, <2>8
    <2>9. CASE \E n \in Raw : Look(p, n) /\ pass'[p].answered = pass[p].answered
                               /\ pass'[p].fresh = IF n \in Stored THEN FreshCopy(p, n) ELSE NoCopy
      <3>1. PICK n \in Raw : pass'[p].answered = pass[p].answered
                               /\ pass'[p].fresh = IF n \in Stored THEN FreshCopy(p, n) ELSE NoCopy
        BY <2>9
      <3>2. CASE n \in Stored
        <4>1. pass'[p].fresh.id = n /\ pass'[p].fresh.receipt = facts[n].receipt
          BY <3>1, <3>2 DEF FreshCopy
        <4>2. QED
          BY <1>1, <2>1, <2>3, <3>1, <3>2, <4>1
      <3>3. CASE n \notin Stored
        BY <2>7, <3>1, <3>3
      <3>4. QED
        BY <3>2, <3>3
    <2>10. CASE \E proposals \in SUBSET SUBSET Raw :
                  Answer(p, proposals) /\ pass'[p].fresh = pass[p].fresh
                  /\ pass'[p].answered = {n \in pass[p].read \cap Stored : facts[n].receipt}
      <3>1. facts' = facts
        BY <2>10 DEF Answer
      <3>2. pass[p].fresh = NoCopy
        BY <1>0, <2>10 DEF Answer, Moves, Covered
      <3>3. QED
        BY <1>1, <2>5, <2>6, <2>10, <3>1, <3>2 DEF Stored
    <2>11. QED
      BY <1>0, <2>4, <2>7, <2>8, <2>9, <2>10 DEF Went, Reading, Idle
  <1>4. QED
    BY <1>2, <1>3

\* A pass that ran alone takes nothing away, with its marks, that was noted on a fact
\* before the model answered, for any number of facts and passes.
THEOREM ConsolidationKeepsReceipts == Spec => MarksKeepReceipts
  <1> DEFINE Keeps ==
        \A n \in Stored \cap Stored' \cap Raw :
          facts[n].receipt /\ ~facts'[n].receipt =>
            \E p \in Pass : pass[p].fresh.id = n /\ (p \in together \/ n \notin pass[p].answered)
  <1>1. Init => AloneKnows
    BY DEF Init, AloneKnows, Running, Unstarted
  <1>2. TypeOK /\ Covered /\ AloneKnows /\ [Next]_vars => AloneKnows'
    <2>1. UNCHANGED vars /\ AloneKnows => AloneKnows'
      BY DEF vars, AloneKnows, Running, Stored
    <2>2. QED
      BY <2>1, NextAloneKnows
  <1>3. TypeOK /\ AloneKnows /\ Next => Keeps
    <2> SUFFICES ASSUME TypeOK, AloneKnows, Next, NEW n \in Stored \cap Stored' \cap Raw,
                        facts[n].receipt, ~ facts'[n].receipt
                 PROVE  \E p \in Pass : pass[p].fresh.id = n /\ (p \in together \/ n \notin pass[p].answered)
      OBVIOUS
    <2>1. PICK p \in Pass : Mark(p) /\ pass[p].fresh.id = n /\ facts'[n].receipt = pass[p].fresh.receipt
      BY RawFactsChange
    <2>2. p \in Running
      BY <2>1 DEF Mark, Moves, Running
    <2>3. p \notin together => n \notin pass[p].answered
      BY <2>1, <2>2 DEF AloneKnows
    <2>4. QED
      BY <2>1, <2>3
  <1> HIDE DEF Keeps
  <1>4. Spec => [][Keeps]_vars
    BY <1>1, <1>2, <1>3, CoveredHolds, ConsolidationTypeOK, PTL DEF Spec
  <1>5. QED
    BY <1>4 DEF MarksKeepReceipts, Keeps

\* Whatever fails between its writes, a conclusion that stands has its facts and
\* its edges, and one that does not says why.
THEOREM ConsolidationStandsOrSaysWhy == Spec => []StandsOrSaysWhy
  BY ConsolidationStandsOnEvidence, ConsolidationSaysWhy, PTL DEF StandsOrSaysWhy

\* What an undo, an invalidation or a failed pass withdrew stays withdrawn.
THEOREM ConsolidationWithdrawnForGood == Spec => WithdrawnForGood
  BY ConsolidationUndoneForGood, ConsolidationNeverRevives, PTL DEF WithdrawnForGood

\* No pass is handed again what an earlier one concluded from, and no mark takes
\* away another's receipt.
THEOREM ConsolidationConcludesOnce == Spec => ConcludedOnce
  BY ConsolidationNotTwice, ConsolidationKeepsReceipts, PTL DEF ConcludedOnce
=============================================================================
