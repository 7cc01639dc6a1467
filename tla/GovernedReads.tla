---------------------------- MODULE GovernedReads ----------------------------
(* What a governed handle lets out (src/governance/governed-store.ts) under *)
(* the sample policies (src/governance/samples.ts) and one that redacts:    *)
(* searches and their pages, a fact's history, edges and vectors, exports.  *)
(* Reads do not queue, so facts change between the store calls a read is    *)
(* made of.  What the audit trail keeps of them is GovernedStore's.         *)
EXTENDS Naturals, Sequences, FiniteSets, SequencesExt

CONSTANTS GrReaders,    \* who asks: an actor, and the audience it acts for
          GrOwners,     \* those whose actor is the owner
          GrInPerson,   \* and, of them, those with no other audience
          GrReviewers, GrExporters,   \* of enterpriseAudit()
          GrGuardians,  \* of guardianMode()
          GrIds,        \* 1..n, in the order the store ranks them
          GrCopies,     \* the facts a store may start with: sets of [GrIds -> fact]
          GrLinks,      \* the edges there may be: sets of two facts
          GrTries,      \* how often a moving fact is read again: 5 in the code
          GrMaxChanges, GrMaxReads   \* bounds

VARIABLES grFacts,      \* [GrIds -> fact], or Absent
          grVersions,   \* [GrIds -> the stamps of its changes]
          grEdges,      \* the edges there are
          grVectors,    \* the facts with a vector of the model
          grCopy,       \* the facts as a backup holds them
          grLocked,     \* what memoryLock()'s isLocked reads
          grRead,       \* the read in flight
          grAnswer,     \* the last answer given
          grChanges, grReads

grVars == <<grFacts, grVersions, grEdges, grVectors, grCopy, grLocked, grRead, grAnswer, grChanges, grReads>>

Absent == [class |-> "absent"]
GrFact == [class : {"Private", "Sensitive"}, weak : BOOLEAN, veiled : BOOLEAN, guarded : BOOLEAN, tagged : BOOLEAN,
           anchor : Nat]
NoRead == [at |-> "none"]
NoAnswer == [kind |-> "none"]
Present(facts) == {i \in GrIds : facts[i] # Absent}

----------------------------------------------------------------------------
(* The policies                                                             *)

\* personalDefaults(): Sensitive is for the owner in person.
PersonalRead(f, r) == f.class = "Sensitive" => r \in GrInPerson

\* enterpriseAudit(): what was inferred on too little is for reviewers, and
\* only exporters export.
WeakHidden(f, r) == f.weak /\ r \notin GrReviewers
AuditRead(f, r) == ~WeakHidden(f, r)
AuditExport(f, r) == r \in GrExporters /\ ~WeakHidden(f, r)

\* A policy with a read hook alone, which strips words and labels.
Redacted(f, r) == f.veiled /\ r \notin GrInPerson

\* view(): the hooks one after the other; on an export a policy's export hook
\* stands in for its read hook.
View(f, r, purpose) ==
  IF /\ PersonalRead(f, r)
     /\ IF purpose = "export" THEN AuditExport(f, r) ELSE AuditRead(f, r)
    THEN IF Redacted(f, r) THEN "part" ELSE "whole"
    ELSE "hidden"

GrSees(facts, i, r) == i \in Present(facts) /\ View(facts[i], r, "recall") # "hidden"

\* beforeUpdate(): the owner's actor, and a guardian for a guardian's fact.
MayUpdate(f, r) == r \in GrOwners /\ (f.guarded => r \in GrGuardians)

\* erasePolicies(): one must allow and none refuse, in whatever order.
\* A guardian's say is about facts, not about edges.
EraseVerdicts(guarded, r) ==
  {IF r \in GrInPerson THEN "allow" ELSE "refuse",                       \* personalDefaults
   IF guarded /\ r \notin GrGuardians THEN "refuse" ELSE "abstain",      \* guardianMode
   IF grLocked THEN "refuse" ELSE "abstain"}                             \* memoryLock
MayErase(guarded, r) == "allow" \in EraseVerdicts(guarded, r) /\ "refuse" \notin EraseVerdicts(guarded, r)

----------------------------------------------------------------------------
(* What others do meanwhile                                                 *)

GrInit ==
  /\ grCopy \in GrCopies
  /\ grFacts = grCopy
  /\ grVersions = [i \in GrIds |-> <<>>]
  /\ grEdges \in {{}, GrLinks}
  /\ grVectors = GrIds
  /\ grLocked = FALSE
  /\ grRead = NoRead
  /\ grAnswer = NoAnswer
  /\ grChanges = 0
  /\ grReads = 0

\* What a read saw go by, kept for the property about it alone.
Witness(facts, versions) ==
  grRead' = CASE grRead.at \in {"versions", "again", "versionsAgain"} ->
                   [grRead EXCEPT !.during = @ \cup {<<facts[grRead.id], versions[grRead.id]>>}]
              [] grRead.at \in {"edges", "ends", "vectors"} ->
                   [grRead EXCEPT !.seen = @ \cup {i \in GrIds : GrSees(facts, i, grRead.reader)}]
              [] OTHER -> grRead

\* A variant that leaves a fact's edges and vectors when it goes.
GrChangeAlone(i, fact, versions) ==
  /\ grChanges < GrMaxChanges
  /\ grChanges' = grChanges + 1
  /\ grFacts' = [grFacts EXCEPT ![i] = fact]
  /\ grVersions' = [grVersions EXCEPT ![i] = versions]
  /\ Witness(grFacts', grVersions')
  /\ UNCHANGED <<grEdges, grVectors, grCopy, grLocked, grAnswer, grReads>>

GrChange(i, fact, versions) ==
  /\ grChanges < GrMaxChanges
  /\ grChanges' = grChanges + 1
  /\ grFacts' = [grFacts EXCEPT ![i] = fact]
  /\ grVersions' = [grVersions EXCEPT ![i] = versions]
  /\ grEdges' = {e \in grEdges : e \subseteq Present(grFacts')}
  /\ grVectors' = grVectors \cap Present(grFacts')
  /\ Witness(grFacts', grVersions')
  /\ UNCHANGED <<grCopy, grLocked, grAnswer, grReads>>

\* updateNode() of the classification; every change appends an anchor.
Classify(r, i, class) ==
  /\ GrSees(grFacts, i, r)
  /\ MayUpdate(grFacts[i], r)
  /\ class # grFacts[i].class
  /\ GrChange(i, [grFacts[i] EXCEPT !.class = class, !.anchor = grChanges + 1], Append(grVersions[i], grChanges + 1))

\* restoreVersion(): a change of the fact's record, judged like one of the
\* fact; no anchor marks it.
RestoreVersion(r, i) ==
  /\ GrSees(grFacts, i, r)
  /\ MayUpdate(grFacts[i], r)
  /\ GrChange(i, grFacts[i], Append(grVersions[i], grChanges + 1))

\* deleteNode(), with no Recently deleted; its history, its edges and its
\* vectors go with it.
EraseFact(r, i) ==
  /\ GrSees(grFacts, i, r)
  /\ MayErase(grFacts[i].guarded, r)
  /\ GrChange(i, Absent, <<>>)

\* restoreNode() of the copy a backup holds, the owner's act.
ImportFact(r, i) ==
  /\ r \in GrOwners
  /\ grFacts[i] = Absent
  /\ GrChange(i, grCopy[i], <<>>)

\* addEdge() and restoreEdge() between facts the actor sees; deleteEdge() as
\* the erase policies judge it.
GrLinkChange(edges, vectors) ==
  /\ grChanges < GrMaxChanges
  /\ grChanges' = grChanges + 1
  /\ grEdges' = edges
  /\ grVectors' = vectors
  /\ UNCHANGED <<grFacts, grVersions, grCopy, grLocked, grRead, grAnswer, grReads>>

AddEdge(r, e) ==
  /\ \A i \in e : GrSees(grFacts, i, r)
  /\ e \notin grEdges
  /\ GrLinkChange(grEdges \cup {e}, grVectors)

DeleteEdge(r, e) ==
  /\ e \in grEdges
  /\ MayErase(FALSE, r)
  /\ GrLinkChange(grEdges \ {e}, grVectors)

\* setEmbedding() and deleteEmbeddings() of a fact the actor sees.
KeepVector(r, i) ==
  /\ GrSees(grFacts, i, r)
  /\ GrLinkChange(grEdges, IF i \in grVectors THEN grVectors \ {i} ELSE grVectors \cup {i})

SetLock ==
  /\ grChanges < GrMaxChanges
  /\ grChanges' = grChanges + 1
  /\ grLocked' = ~grLocked
  /\ UNCHANGED <<grFacts, grVersions, grEdges, grVectors, grCopy, grRead, grAnswer, grReads>>

----------------------------------------------------------------------------
(* The reads                                                                *)

GrBegins(read) ==
  /\ grRead = NoRead
  /\ grReads < GrMaxReads
  /\ grReads' = grReads + 1
  /\ grRead' = read
  /\ UNCHANGED <<grFacts, grVersions, grEdges, grVectors, grCopy, grLocked, grAnswer, grChanges>>

GrGoes(read) == grRead' = read /\ UNCHANGED <<grFacts, grVersions, grEdges, grVectors, grCopy, grLocked, grAnswer, grChanges, grReads>>

GrAnswers(answer) ==
  /\ grAnswer' = answer
  /\ grRead' = NoRead
  /\ UNCHANGED <<grFacts, grVersions, grEdges, grVectors, grCopy, grLocked, grChanges, grReads>>

\* answersAsSeen(), and the words of a query: what the store matched by the
\* stored label or word must still be there in what the reader sees.
Shown(f, r, asked) ==
  \/ View(f, r, "recall") = "whole"
  \/ View(f, r, "recall") = "part" /\ asked = "all"

\* The store's own answer: the facts that match, after the cursor; a cursor
\* outside them has nothing after it.
Matching(facts, asked) == {i \in Present(facts) : asked # "all" => facts[i].tagged}
After(after, S) == IF after \in S \cup {0} THEN SetToSortSeq({i \in S : i > after}, <) ELSE <<>>

FirstOf(n, s) == SubSeq(s, 1, IF n < Len(s) THEN n ELSE Len(s))

Answering(facts, r, asked) == {i \in Matching(facts, asked) : Shown(facts[i], r, asked)}

PageAnswer(read, page) ==
  GrAnswers([kind |-> "page", reader |-> read.reader, asked |-> read.asked, after |-> read.after,
             limit |-> read.limit, page |-> page, facts |-> grFacts])

\* searchNodes(): the cursor first.  One the reader may not see is one that
\* is not there.
AskPage(r, asked, limit, after) ==
  GrBegins([at |-> "cursor", reader |-> r, asked |-> asked, limit |-> limit, after |-> after, ask |-> limit])

CheckCursor ==
  /\ grRead.at = "cursor"
  /\ IF grRead.after # 0 /\ ~GrSees(grFacts, grRead.after, grRead.reader)
       THEN GrAnswers([kind |-> "empty"])
       ELSE GrGoes([grRead EXCEPT !.at = "rows"])

\* With a query every match is read; otherwise as many as the page asks for,
\* and twice as many again until the page is full or the store has no more.
ReadRows ==
  LET read == grRead
      answering == Answering(grFacts, read.reader, read.asked)
      rows == FirstOf(read.ask, After(read.after, Matching(grFacts, read.asked)))
      page == FirstOf(read.limit, SelectSeq(rows, LAMBDA i : i \in answering))
  IN
  /\ read.at = "rows"
  /\ IF read.asked = "words"
       THEN PageAnswer(read, FirstOf(read.limit, After(read.after, answering)))
       ELSE IF Len(page) = read.limit \/ Len(rows) < read.ask
              THEN PageAnswer(read, page)
              ELSE GrGoes([read EXCEPT !.ask = 2 * @])

\* factWithHistory(): the fact, its versions, and both again.
AskHistory(r, i) == GrBegins([at |-> "first", reader |-> r, id |-> i, try |-> 1])

Withheld == GrAnswers([kind |-> "empty"])

ReadFact ==
  LET i == grRead.id IN
  /\ grRead.at = "first"
  /\ IF grFacts[i] = Absent
       THEN Withheld
       ELSE GrGoes([at |-> "versions", reader |-> grRead.reader, id |-> i, try |-> grRead.try,
                    fact |-> grFacts[i], versions |-> <<>>, during |-> {<<grFacts[i], grVersions[i]>>}])

ReadVersions ==
  /\ grRead.at = "versions"
  /\ GrGoes([grRead EXCEPT !.at = "again", !.versions = grVersions[grRead.id]])

\* It moved: all over again, and after the last try nothing is given.
Again ==
  IF grRead.try = GrTries
    THEN Withheld
    ELSE GrGoes([at |-> "first", reader |-> grRead.reader, id |-> grRead.id, try |-> grRead.try + 1])

ReadFactAgain ==
  /\ grRead.at = "again"
  /\ GrGoes([grRead EXCEPT !.at = IF grFacts[grRead.id] = grRead.fact THEN "versionsAgain" ELSE "moved"])

\* Both are compared when all four reads are in; the fact that stood still is
\* judged as it was read, and one shown in part keeps its history.
ReadVersionsAgain ==
  /\ grRead.at \in {"versionsAgain", "moved"}
  /\ IF grRead.at = "moved" \/ grVersions[grRead.id] # grRead.versions
       THEN Again
       ELSE IF View(grRead.fact, grRead.reader, "recall") # "whole"
              THEN Withheld
              ELSE GrAnswers([kind |-> "history", reader |-> grRead.reader, fact |-> grRead.fact,
                              versions |-> grRead.versions, during |-> grRead.during])

\* getEdges(): the fact itself, the edges, then the fact at each one's other
\* end: an edge to a hidden fact would tell of it.
AskEdges(r, i) == GrBegins([at |-> "own end", reader |-> r, id |-> i])

ReadOwnEnd ==
  LET r == grRead.reader IN
  /\ grRead.at = "own end"
  /\ IF GrSees(grFacts, grRead.id, r)
       THEN GrGoes([at |-> "edges", reader |-> r, id |-> grRead.id, seen |-> {i \in GrIds : GrSees(grFacts, i, r)}])
       ELSE Withheld

ReadEdges ==
  /\ grRead.at = "edges"
  /\ GrGoes([at |-> "ends", reader |-> grRead.reader, id |-> grRead.id, seen |-> grRead.seen,
              todo |-> {e \in grEdges : grRead.id \in e}, out |-> {}])

\* A variant that gives every edge of a fact the reader sees.
ReadNoOtherEnd ==
  /\ grRead.at = "ends"
  /\ GrAnswers([kind |-> "linked", ids |-> (UNION grRead.todo) \cup {grRead.id}, seen |-> grRead.seen])

ReadOtherEnd ==
  /\ grRead.at = "ends"
  /\ IF grRead.todo = {}
       THEN GrAnswers([kind |-> "linked", ids |-> (UNION grRead.out) \cup {grRead.id}, seen |-> grRead.seen])
       ELSE \E e \in grRead.todo :
              GrGoes([grRead EXCEPT !.todo = @ \ {e},
                                    !.out = IF \A i \in e \ {grRead.id} : GrSees(grFacts, i, grRead.reader) THEN @ \cup {e} ELSE @])

\* listEmbeddings() and listEmbeddingVectors(): which facts are visible, then
\* the vectors of those.
AskVectors(r) ==
  LET visible == {i \in GrIds : GrSees(grFacts, i, r)} IN
  GrBegins([at |-> "vectors", reader |-> r, visible |-> visible, seen |-> visible])

ReadVectors ==
  /\ grRead.at = "vectors"
  /\ GrAnswers([kind |-> "linked", ids |-> grVectors \cap grRead.visible, seen |-> grRead.seen])

\* snapshotAsOf(): one read too; what is redacted keeps its past to itself.
SnapshotAsOf(r) ==
  LET whole == {i \in Present(grFacts) : View(grFacts[i], r, "recall") = "whole"} IN
  /\ grRead = NoRead
  /\ grReads < GrMaxReads
  /\ grReads' = grReads + 1
  /\ grAnswer' = [kind |-> "export", reader |-> r, ids |-> whole, versions |-> whole,
                  links |-> {e \in grEdges : e \subseteq whole}, facts |-> grFacts]
  /\ UNCHANGED <<grFacts, grVersions, grEdges, grVectors, grCopy, grLocked, grRead, grChanges>>

\* historySnapshot() of an export view, which is one read of the store.
Export(r) ==
  LET out == {i \in Present(grFacts) : View(grFacts[i], r, "export") # "hidden"} IN
  /\ grRead = NoRead
  /\ grReads < GrMaxReads
  /\ grReads' = grReads + 1
  /\ grAnswer' = [kind |-> "export", reader |-> r, ids |-> out,
                  versions |-> {i \in out : View(grFacts[i], r, "export") = "whole"},
                  links |-> {e \in grEdges : e \subseteq out}, facts |-> grFacts]
  /\ UNCHANGED <<grFacts, grVersions, grEdges, grVectors, grCopy, grLocked, grRead, grChanges>>

GrNext ==
  \/ \E r \in GrReaders, i \in GrIds :
       \/ \E class \in {"Private", "Sensitive"} : Classify(r, i, class)
       \/ EraseFact(r, i)
       \/ ImportFact(r, i)
       \/ RestoreVersion(r, i) \/ KeepVector(r, i)
       \/ AskHistory(r, i) \/ AskEdges(r, i)
  \/ \E r \in GrReaders, asked \in {"all", "label", "words"}, limit \in 1..2, after \in {0} \cup GrIds :
       AskPage(r, asked, limit, after)
  \/ \E r \in GrReaders : Export(r) \/ SnapshotAsOf(r) \/ AskVectors(r)
  \/ \E r \in GrReaders, e \in GrLinks : AddEdge(r, e) \/ DeleteEdge(r, e)
  \/ SetLock
  \/ CheckCursor \/ ReadRows
  \/ ReadFact \/ ReadVersions \/ ReadFactAgain \/ ReadVersionsAgain
  \/ ReadOwnEnd \/ ReadEdges \/ ReadOtherEnd \/ ReadVectors

GrSpec == GrInit /\ [][GrNext]_grVars

----------------------------------------------------------------------------
(* What holds                                                               *)

\* The type of the facts, the links and the read in flight.
GrTypeOK ==
  /\ grFacts \in [GrIds -> GrFact \cup {Absent}]
  /\ grVersions \in [GrIds -> Seq(1..GrMaxChanges)]
  /\ grEdges \subseteq GrLinks /\ \A e \in grEdges : e \subseteq Present(grFacts)
  /\ grVectors \subseteq Present(grFacts)
  /\ grCopy \in GrCopies
  /\ grLocked \in BOOLEAN
  /\ grRead.at \in {"none", "cursor", "rows", "first", "versions", "again", "versionsAgain", "moved",
                   "own end", "edges", "ends", "vectors"}
  /\ grAnswer.kind \in {"none", "empty", "page", "history", "linked", "export"}
  /\ grChanges \in 0..GrMaxChanges
  /\ grReads \in 0..GrMaxReads

\* The fact whose history is given was, at some instant of the read, the fact
\* the policies judged, with just these versions: sealing, erasing or
\* importing it between the store calls of the read lets nothing out.
HistoryAsJudged ==
  grAnswer.kind = "history" => /\ <<grAnswer.fact, grAnswer.versions>> \in grAnswer.during
                               /\ View(grAnswer.fact, grAnswer.reader, "recall") = "whole"

\* A page is the first of all the facts the reader may see that answer as the
\* reader sees them, at one instant: hidden facts take no places, and no
\* label or word a policy strips finds anything.
PageIsExact ==
  grAnswer.kind = "page" =>
    LET a == grAnswer
        matching == {i \in Present(a.facts) : a.asked # "all" => a.facts[i].tagged}
        answering == {i \in matching : /\ GrSees(a.facts, i, a.reader)
                                       /\ a.asked # "all" => ~Redacted(a.facts[i], a.reader)}
        from == IF a.asked = "words" THEN answering ELSE matching
    IN /\ a.after \in from \cup {0} => a.page = FirstOf(a.limit, SetToSortSeq({i \in answering : i > a.after}, <))
       /\ a.after \notin from \cup {0} => a.page = <<>>

\* Edges and vectors tell of no fact that was hidden from the reader at every
\* moment of the read, though facts are sealed and erased between its calls.
NoHiddenFactTold == grAnswer.kind = "linked" => grAnswer.ids \subseteq grAnswer.seen

\* Nothing leaves in an export that the same reader could not read, and no
\* history of what they read in part; an edge leaves with both its ends.
ExportsWithinReads ==
  grAnswer.kind = "export" =>
    /\ \A i \in grAnswer.ids : GrSees(grAnswer.facts, i, grAnswer.reader)
    /\ \A i \in grAnswer.versions : View(grAnswer.facts[i], grAnswer.reader, "recall") = "whole"
    /\ \A e \in grAnswer.links : e \subseteq grAnswer.ids
=============================================================================
