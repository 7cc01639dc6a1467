---------------------------- MODULE Consolidation ----------------------------
(***************************************************************************)
(* A consolidation pass (src/src/consolidation.ts): read raw facts, let a  *)
(* model think about them, write what it concluded, mark what was read; and *)
(* undoConsolidation, which takes a pass back.  A pass holds no lock and has *)
(* no transaction: every await is a place where other passes, an undo, the *)
(* store's other users and the end of the process come in between.         *)
(*                                                                         *)
(* A proposal is the set of facts it cites.  That each is quoted with words *)
(* it contains (evidence.ts) is decided by the text, which never changes, so *)
(* it is left to the model's answer.  `since`, `maxRaw` and the classes the *)
(* caller opts into choose any part of the facts that may be read.  What   *)
(* the store does with a write is as in MemoryStore.                       *)
(***************************************************************************)
EXTENDS Naturals, FiniteSets, DerivedFacts

CONSTANTS Raw,           \* ids of facts that were told or observed
          Derived,       \* ids of conclusions
          Pass,          \* passes, named as they are by their instants
          MaxProposals   \* bound: proposals the model makes at once

Nil == "nil"

ASSUME IdsAssumption == Raw \cap Derived = {} /\ Nil \notin Raw \cup Derived \cup Pass
ASSUME BoundsAssumption == MaxProposals \in Nat

VARIABLES facts,    \* the stored facts
          edges,    \* the evidence edges
          minted,   \* every id handed out
          pass,     \* how far each pass is
          undo,     \* the undo under way, or NoUndo
          together  \* history variable: the passes under way that another ran beside

vars == <<facts, edges, minted, pass, undo, together>>

\* A raw fact: whether it has ended, whether its metadata says what ended it, and
\* whether a pass has read it.
RawFact == [ended : BOOLEAN, receipt : BOOLEAN, marked : BOOLEAN]

\* A conclusion: what it was drawn from and by which pass, whether it has ended
\* and why, and whether it is archived.
Conclusion == [sources : SUBSET Raw, run : Pass, ended : BOOLEAN,
               why : {"none", "pending", "unrecorded", "source", "undo"}, hidden : BOOLEAN]

\* A copy of a raw fact, as far as a mark needs it.
NoCopy == [id |-> Nil, receipt |-> FALSE]

Unstarted == [step |-> "unstarted", read |-> {}, answered |-> {}, todo |-> {}, saved |-> Nil, links |-> {}, fresh |-> NoCopy]
NoUndo == [run |-> Nil, todo |-> {}, over |-> FALSE]

Init ==
  /\ facts = [n \in Raw |-> [ended |-> FALSE, receipt |-> FALSE, marked |-> FALSE]]
  /\ edges = {}
  /\ minted = Raw
  /\ pass = [p \in Pass |-> Unstarted]
  /\ undo = NoUndo
  /\ together = {}

Stored == DOMAIN facts
Conclusions == Stored \cap Derived
Standing == {d \in Conclusions : ~facts[d].ended}
Graph == [n \in Stored |-> IF n \in Derived THEN facts[n].sources ELSE {}]

Running == {p \in Pass : pass[p].step \in {"thinking", "writing", "linking"}}

Moves(p, from, to) == pass[p].step = from /\ pass' = [pass EXCEPT ![p] = to]

-----------------------------------------------------------------------------
(* A pass.                                                                 *)

\* A variant that hands a pass what an earlier one has read.
ReadableTwice == Stored \cap Raw

\* Never conclusions, never what a pass has read.
Readable == {n \in Stored \cap Raw : ~facts[n].marked}

\* The read, and the model is asked.
Start(p, read) ==
  /\ read # {} /\ read \subseteq Readable
  /\ Moves(p, "unstarted", [Unstarted EXCEPT !.step = "thinking", !.read = read])
  /\ together' = IF Running = {} THEN together ELSE together \cup Running \cup {p}
  /\ UNCHANGED <<facts, edges, minted, undo>>

\* The model answers.  A proposal that cites nothing, or a fact it was not
\* shown, is refused.
Answer(p, proposals) ==
  /\ Cardinality(proposals) <= MaxProposals
  /\ \A sources \in proposals : sources # {} /\ sources \subseteq pass[p].read
  /\ Moves(p, "thinking", [pass[p] EXCEPT !.step = "writing", !.todo = proposals,
             !.answered = {n \in pass[p].read \cap Stored : facts[n].receipt}])
  /\ UNCHANGED <<facts, edges, minted, undo, together>>

\* A variant that writes a conclusion as one that stands.
WrittenStanding(p, sources) ==
  [sources |-> sources, run |-> p, ended |-> FALSE, why |-> "none", hidden |-> FALSE]

\* A conclusion is written withdrawn.
Written(p, sources) ==
  [sources |-> sources, run |-> p, ended |-> TRUE, why |-> "pending", hidden |-> FALSE]

AddPending(p, d, sources) ==
  /\ sources \in pass[p].todo
  /\ d \in Derived \ minted
  /\ Moves(p, "writing", [pass[p] EXCEPT !.step = "linking", !.saved = d, !.links = sources,
                                           !.todo = @ \ {sources}])
  /\ minted' = minted \cup {d}
  /\ facts' = [n \in Stored \cup {d} |-> IF n = d THEN Written(p, sources) ELSE facts[n]]
  /\ UNCHANGED <<edges, undo, together>>

\* The next of its evidence edges, between two facts that are there.
Link(p, source) ==
  LET d == pass[p].saved IN
  /\ source \in pass[p].links \cap Stored
  /\ d \in Stored
  /\ Moves(p, "linking", [pass[p] EXCEPT !.links = @ \ {source}])
  /\ edges' = edges \cup {<<d, source>>}
  /\ UNCHANGED <<facts, minted, undo, together>>

\* A variant that leaves the withdrawal's reason on it.
StoodWithReason(fact) == [fact EXCEPT !.ended = FALSE]

Stood(fact) == [fact EXCEPT !.ended = FALSE, !.why = "none"]

\* After its last edge the conclusion is stood up.
StandUp(p) ==
  LET d == pass[p].saved IN
  /\ pass[p].links = {}
  /\ d \in Stored
  /\ Moves(p, "linking", [pass[p] EXCEPT !.step = "writing", !.saved = Nil])
  /\ facts' = [facts EXCEPT ![d] = Stood(@)]
  /\ UNCHANGED <<edges, minted, undo, together>>

\* A variant that goes on with the conclusion after its failure.
FailsAndGoesOn(p) ==
  LET d == pass[p].saved IN
  /\ pass[p].step = "linking"
  /\ d \in Stored
  /\ facts' = [facts EXCEPT ![d] = [@ EXCEPT !.ended = TRUE, !.why = "unrecorded"]]
  /\ UNCHANGED <<edges, minted, pass, undo, together>>

\* One of these writes fails, before or after it took effect: the conclusion is
\* withdrawn again with the reason, if the store still takes that.
Fails(p) ==
  LET d == pass[p].saved IN
  /\ Moves(p, "linking", [pass[p] EXCEPT !.step = "writing", !.saved = Nil, !.links = {}])
  /\ \/ d \in Stored /\ facts' = [facts EXCEPT ![d] = [@ EXCEPT !.ended = TRUE, !.why = "unrecorded"]]
     \/ UNCHANGED facts
  /\ UNCHANGED <<edges, minted, undo, together>>

\* A proposal that could not be written at all.
Refused(p, sources) ==
  /\ sources \in pass[p].todo
  /\ Moves(p, "writing", [pass[p] EXCEPT !.todo = @ \ {sources}])
  /\ UNCHANGED <<facts, edges, minted, undo, together>>

\* A variant that merges the mark onto the copy read before the model thought.
CopyFromBefore(p, n) == [id |-> n, receipt |-> FALSE]

\* The copy a mark is merged onto.
FreshCopy(p, n) == [id |-> n, receipt |-> facts[n].receipt]

\* All proposals are dealt with, and what was read is marked, fact by fact.  A fact
\* that is gone is passed over; another is read again.
Look(p, n) ==
  /\ pass[p].todo = {}
  /\ n \in pass[p].read
  /\ pass[p].fresh = NoCopy
  /\ Moves(p, "writing", [pass[p] EXCEPT !.read = @ \ {n}, !.fresh = IF n \in Stored THEN FreshCopy(p, n) ELSE NoCopy])
  /\ UNCHANGED <<facts, edges, minted, undo, together>>

\* The mark is written, with the metadata of the copy.
Mark(p) ==
  LET copy == pass[p].fresh IN
  /\ copy # NoCopy
  /\ copy.id \in Stored
  /\ Moves(p, "writing", [pass[p] EXCEPT !.fresh = NoCopy])
  /\ facts' = [facts EXCEPT ![copy.id] = [@ EXCEPT !.marked = TRUE, !.receipt = copy.receipt]]
  /\ UNCHANGED <<edges, minted, undo, together>>

End(p) ==
  /\ pass[p].todo = {} /\ pass[p].read = {} /\ pass[p].fresh = NoCopy
  /\ Moves(p, "writing", [Unstarted EXCEPT !.step = "over"])
  /\ together' = together \ {p}
  /\ UNCHANGED <<facts, edges, minted, undo>>

\* The model gives no answer, a mark fails, or the process ends.
Cut(p) ==
  /\ p \in Running
  /\ pass' = [pass EXCEPT ![p] = [Unstarted EXCEPT !.step = "cut"]]
  /\ together' = together \ {p}
  /\ UNCHANGED <<facts, edges, minted, undo>>

-----------------------------------------------------------------------------
(* Undo.                                                                   *)

\* A variant that reads the active context only.
FoundActive(p) == {d \in Conclusions : facts[d].run = p /\ ~facts[d].hidden}

\* Every conclusion of the pass, archived ones included.
Found(p) == {d \in Conclusions : facts[d].run = p}

\* What was withdrawn already is left alone.
StartUndo(p) ==
  /\ undo = NoUndo
  /\ pass[p].step # "unstarted"
  /\ undo' = [run |-> p, todo |-> Found(p) \cap Standing, over |-> pass[p].step \in {"over", "cut"}]
  /\ UNCHANGED <<facts, edges, minted, pass, together>>

Withdraw(d) ==
  /\ d \in undo.todo
  /\ d \in Stored
  /\ undo' = [undo EXCEPT !.todo = @ \ {d}]
  /\ facts' = [facts EXCEPT ![d] = [@ EXCEPT !.ended = TRUE, !.why = "undo"]]
  /\ UNCHANGED <<edges, minted, pass, together>>

\* It is done; or a conclusion has gone since the read, a write fails, or the
\* process ends.
EndUndo ==
  /\ undo # NoUndo
  /\ undo' = NoUndo
  /\ UNCHANGED <<facts, edges, minted, pass, together>>

-----------------------------------------------------------------------------
(* The store's other users.                                                *)

\* A raw fact stops being true, and its metadata says what ended it: the
\* conclusions in force at that moment are withdrawn with it.  The moment may be
\* an earlier one, when some that have ended since, or are not stood up yet, count
\* as in force.
Invalidate(n, live) ==
  /\ n \in Stored \cap Raw
  /\ ~facts[n].ended
  /\ Standing \subseteq live /\ live \subseteq Conclusions
  /\ LET withdrawn == RetractionsFor(Graph, live, n) IN
       facts' = [m \in Stored |-> IF m = n THEN [facts[m] EXCEPT !.ended = TRUE, !.receipt = TRUE]
                                  ELSE IF m \in withdrawn THEN [facts[m] EXCEPT !.ended = TRUE, !.why = "source"]
                                  ELSE facts[m]]
  /\ UNCHANGED <<edges, minted, pass, undo, together>>

\* Another host archives a conclusion.  Bound: one that stands; nothing asks
\* whether a withdrawn one is archived.
Archive(d) ==
  /\ d \in Standing
  /\ ~facts[d].hidden
  /\ facts' = [facts EXCEPT ![d].hidden = TRUE]
  /\ UNCHANGED <<edges, minted, pass, undo, together>>

\* What an erasure takes.
Gone(n) == {n} \cup DependentsOf(Graph, n)

\* A variant that leaves the edges.
EraseFactsOnly(n) ==
  /\ n \in Stored
  /\ facts' = [m \in Stored \ Gone(n) |-> facts[m]]
  /\ UNCHANGED <<edges, minted, pass, undo, together>>

Erase(n) ==
  /\ n \in Stored
  /\ facts' = [m \in Stored \ Gone(n) |-> facts[m]]
  /\ edges' = {e \in edges : e[1] \notin Gone(n) /\ e[2] \notin Gone(n)}
  /\ UNCHANGED <<minted, pass, undo, together>>

-----------------------------------------------------------------------------

Next ==
  \/ \E p \in Pass, read \in SUBSET Raw : Start(p, read)
  \/ \E p \in Pass, proposals \in SUBSET SUBSET Raw : Answer(p, proposals)
  \/ \E p \in Pass, d \in Derived, sources \in SUBSET Raw : AddPending(p, d, sources)
  \/ \E p \in Pass, source \in Raw : Link(p, source)
  \/ \E p \in Pass : StandUp(p)
  \/ \E p \in Pass : Fails(p)
  \/ \E p \in Pass, sources \in SUBSET Raw : Refused(p, sources)
  \/ \E p \in Pass, n \in Raw : Look(p, n)
  \/ \E p \in Pass : Mark(p)
  \/ \E p \in Pass : End(p)
  \/ \E p \in Pass : Cut(p)
  \/ \E p \in Pass : StartUndo(p)
  \/ \E d \in Derived : Withdraw(d)
  \/ EndUndo
  \/ \E n \in Raw, live \in SUBSET Derived : Invalidate(n, live)
  \/ \E d \in Derived : Archive(d)
  \/ \E n \in Raw \cup Derived : Erase(n)

Spec == Init /\ [][Next]_vars

-----------------------------------------------------------------------------

PassState ==
  [step : {"unstarted", "thinking", "writing", "linking", "over", "cut"}, read : SUBSET Raw, answered : SUBSET Raw,
   todo : SUBSET SUBSET Raw, saved : Derived \cup {Nil}, links : SUBSET Raw, fresh : [id : Raw \cup {Nil}, receipt : BOOLEAN]]

TypeOK ==
  /\ Stored \subseteq minted /\ minted \subseteq Raw \cup Derived
  /\ facts = [n \in Stored |-> facts[n]]
  /\ \A n \in Stored : facts[n] \in IF n \in Raw THEN RawFact ELSE Conclusion
  /\ edges \subseteq Conclusions \X (Stored \cap Raw)
  /\ pass \in [Pass -> PassState]
  /\ \A p \in Pass : pass[p].saved \in minted \cup {Nil}
  /\ undo \in [run : Pass \cup {Nil}, todo : SUBSET Derived, over : BOOLEAN]
  /\ together \subseteq Running

\* "A conclusion nobody can check must not be able to stand": whatever is erased
\* while the model thinks or between two writes, whichever write fails, wherever
\* the process ends, a conclusion that stands has each of the facts it was
\* drawn from and an evidence edge to each.  (consolidation.ts:166-181.)
StandsOnEvidence ==
  \A d \in Standing : \A n \in facts[d].sources : n \in Stored /\ <<d, n>> \in edges

\* A conclusion that does not stand says why, and one that stands says nothing
\* of a withdrawal, however undo, invalidation and a failing pass overlap.
\* (consolidation.ts:182-195, 322.)
WithdrawalsSayWhy ==
  \A d \in Conclusions : facts[d].ended <=> facts[d].why # "none"

\* A conclusion stands on all it was drawn from, or is withdrawn and says why.
StandsOrSaysWhy == StandsOnEvidence /\ WithdrawalsSayWhy

\* A conclusion that was withdrawn, by an undo, with a fact it rests on, or because
\* its evidence could not be recorded, never stands again once its pass is done
\* with it.  (SPEC.md:103.)
NeverRevived ==
  [][\A d \in Conclusions :
       \/ facts[d].why \in {"unrecorded", "undo"}
       \/ facts[d].why = "source" /\ \A p \in Pass : pass[p].saved # d
       => d \notin Standing']_vars

\* The undo of a pass that was over leaves nothing standing that the pass
\* concluded, archived or not.  (consolidation.ts:257-267.)
UndoneForGood ==
  undo.over /\ undo.todo = {} => \A d \in Standing : facts[d].run # undo.run

\* What was withdrawn, one by one or with its pass, stays so.
WithdrawnForGood == []UndoneForGood /\ NeverRevived

\* A pass is never handed what an earlier one, that is over, concluded from: it
\* would conclude it again.  An undo of the earlier one changes nothing about
\* that.  (consolidation.ts:300-306.)
NotConcludedTwice ==
  [][\A p \in Pass :
       pass[p].step = "unstarted" /\ pass'[p].step = "thinking" =>
         \A d \in Conclusions :
           pass[facts[d].run].step = "over" => facts[d].sources \cap pass'[p].read = {}]_vars

\* The mark a pass leaves on a fact takes away nothing that was noted on it before
\* the model answered, whatever the store's other users do, so long as no other
\* pass runs beside it.  (consolidation.ts:206-208.)
MarksKeepReceipts ==
  [][\A n \in Stored \cap Stored' \cap Raw :
       facts[n].receipt /\ ~facts'[n].receipt =>
         \E p \in Pass : pass[p].fresh.id = n /\ (p \in together \/ n \notin pass[p].answered)]_vars

\* What was concluded from stays marked, and is not concluded from again.
ConcludedOnce == NotConcludedTwice /\ MarksKeepReceipts

\* "Every conclusion still in force at that instant is retracted, and kept": one
\* retracted with a source is not stood up again by anything.  (docs/SPEC.md:98,
\* derived.ts:79.)
RetractedStaysRetracted ==
  [][\A d \in Conclusions : facts[d].why = "source" => d \notin Standing']_vars
=============================================================================
