----------------------------- MODULE TeamMemory -----------------------------
(* One company's store in layers: teamMemory() of src/governance/samples.ts *)
(* with promote(), withdraw() and verifyPromotion() of                      *)
(* src/governance/promotion.ts, as a governed handle runs them.  A fact's   *)
(* scope says who reads it; nobody writes outside their own, so the one way *)
(* across is a promotion, which writes a second fact.                       *)
EXTENDS Naturals, Sequences

CONSTANTS TmActors,
          TmTeams,
          TmTeamsOf,    \* [TmActors -> SUBSET TmTeams], from the actor's token
          TmAdmins,
          TmErasers,    \* the actors the other policies let erase
          TmSettings,   \* [workflow, selfServe] of teamMemory(), as installed
          TmMaxFacts,   \* bound: facts
          TmMaxCalls,   \* bound: calls that change something
          Org, Nobody

VARIABLES tmFacts,      \* every fact, in the order they were added
          tmTrail,      \* the promote and withdraw events of the audit trail, and for the
                        \* properties the words and the class they were of
          tmApprovals,  \* what admins approved, where the workflow keeps it
          tmSetting,
          tmJudged,     \* promotions that were judged and have yet to be written
          tmCalls

tmVars == <<tmFacts, tmTrail, tmApprovals, tmSetting, tmJudged, tmCalls>>

TmIds == DOMAIN tmFacts
Scopes == TmActors \cup TmTeams \cup {Org}
TmTexts == {"plain", "secret"}
TmClasses == {"Private", "Sensitive", "Sealed"}
\* What promote() is asked: the approved text, where one is given, and who is
\* said to have approved (no approver: basis self or policy).
Requests == {r \in [to : Scopes, text : TmTexts, edited : BOOLEAN, approvedBy : TmActors \cup {Nobody}] :
               r.edited \/ r.text = "plain"}

NoFact == 0
Admitted(a) == {a, Org} \cup TmTeamsOf[a]

\* The read rule, the boundary in the query and the hook alike.
Sees(a, f) == f \in TmIds /\ tmFacts[f].scope \in Admitted(a)

IsCopy(f) == tmFacts[f].from # NoFact
Binned(f) == tmFacts[f].bin # NoFact
Stands(f) == ~tmFacts[f].closed /\ ~Binned(f)
Copies(f, to) == {c \in TmIds : IsCopy(c) /\ tmFacts[c].from = f /\ tmFacts[c].scope = to /\ Stands(c)}

\* A search that names no tier and no class leaves out what is archived or sealed.
Listed(c) == ~tmFacts[c].archived /\ tmFacts[c].class # "Sealed"
FoundCopies(f, to) == {c \in Copies(f, to) : Listed(c)}

\* A fact and what was concluded from it, at any remove.
Under(f) ==
  LET under[g \in TmIds] == LET rests == tmFacts[g].rests IN rests # NoFact /\ (rests = f \/ under[rests])
  IN {f} \cup {g \in TmIds : under[g]}

----------------------------------------------------------------------------
(* The queue every handle over the store shares                             *)

\* A variant without the queue.
RunsBeside == TRUE

MayRun == tmJudged = {}

TmCounted == tmCalls < TmMaxCalls /\ tmCalls' = tmCalls + 1
Changes == MayRun /\ TmCounted /\ UNCHANGED <<tmJudged, tmSetting, tmApprovals>>
Room == Len(tmFacts) < TmMaxFacts

----------------------------------------------------------------------------
(* What teamMemory() says                                                   *)

\* beforeWrite(): an unlabelled fact is the writer's own, and a write naming
\* another scope or author, or a promotion record, is refused.
MayWrite(a, scope, author, from) == scope = a /\ author = a /\ from = NoFact

\* beforeUpdate(): a copy is closed or reopened by the person it came from,
\* whoever shared it, or an admin; scope, author and record never change.
MayClose(a, f) == IsCopy(f) => a \in {tmFacts[f].author, tmFacts[f].by} \cup TmAdmins
MayRelabel(f, scope, author, from) ==
  scope = tmFacts[f].scope /\ author = tmFacts[f].author /\ from = tmFacts[f].from

Approved(a, f, req) ==
  IF tmSetting.workflow
    THEN [by |-> req.approvedBy, source |-> f, to |-> req.to] \in tmApprovals
    ELSE req.approvedBy = a /\ a \in TmAdmins

\* beforePromote().
MayShare(a, f, req) ==
  /\ tmFacts[f].author = a
  /\ req.to \in TmTeamsOf[a] \cup {Org}
  /\ IF req.approvedBy # Nobody THEN Approved(a, f, req) ELSE req.to = Org => tmSetting.selfServe
  /\ (IF req.edited THEN req.text ELSE tmFacts[f].text) = "plain"

\* What promote() refuses before any policy is asked.
MayPromote(a, f, req) ==
  /\ tmFacts[f].class \notin {"Sensitive", "Sealed"}
  /\ Stands(f)
  /\ tmFacts[f].scope # req.to
  /\ FoundCopies(f, req.to) = {}
  /\ MayShare(a, f, req)

----------------------------------------------------------------------------
(* The operations                                                           *)

TmInit ==
  /\ tmFacts = <<>>
  /\ tmTrail = <<>>
  /\ tmApprovals = {}
  /\ tmSetting \in TmSettings
  /\ tmJudged = {}
  /\ tmCalls = 0

\* addNode(), asked for under any labels; a conclusion rests on a fact its
\* writer sees.
Write(a) ==
  /\ Changes
  /\ Room
  /\ \E scope \in Scopes, author \in TmActors, from \in {NoFact} \cup TmIds :
       /\ MayWrite(a, scope, author, from)
       /\ \E text \in TmTexts, class \in {"Private", "Sensitive"}, rests \in {NoFact} \cup TmIds :
            /\ rests # NoFact => Sees(a, rests) /\ Stands(rests)
            /\ tmFacts' = Append(tmFacts,
                 [scope |-> scope, author |-> author, from |-> from, by |-> Nobody, approvedBy |-> Nobody,
                  edited |-> FALSE, text |-> text, class |-> class, archived |-> FALSE, rests |-> rests,
                  closed |-> FALSE, bin |-> NoFact, back |-> FALSE, again |-> FALSE])
  /\ UNCHANGED tmTrail

\* updateNode() with any patch but of validTo, by anyone who reads the fact:
\* the labels stay what they were, the words, the class and the tier need not.
\* (The tier of a binned fact is RecentlyDeleted's.)
Update(a, f) ==
  /\ Changes
  /\ Sees(a, f)
  /\ \E scope \in Scopes, author \in TmActors, from \in {NoFact} \cup TmIds :
       /\ MayRelabel(f, scope, author, from)
       /\ \E text \in TmTexts, class \in TmClasses, archived \in BOOLEAN :
            LET labelled == [tmFacts[f] EXCEPT !.scope = scope, !.author = author, !.from = from]
                again == tmFacts[f].again \/ (~Listed(f) /\ ~archived /\ class # "Sealed")
            IN
            /\ Binned(f) => archived = tmFacts[f].archived
            /\ tmFacts' = [tmFacts EXCEPT ![f] = [labelled EXCEPT !.text = text, !.class = class,
                                                                 !.archived = archived, !.again = again]]
  /\ UNCHANGED tmTrail

\* updateNode() setting validTo, or taking it away: the conclusions close
\* with the fact and do not come back with it.
CloseUnder(f) ==
  tmFacts' = [g \in TmIds |-> [tmFacts[g] EXCEPT !.closed = @ \/ g \in Under(f)]]

Invalidate(a, f) ==
  /\ Changes
  /\ Sees(a, f) /\ ~tmFacts[f].closed
  /\ \A g \in Under(f) : MayClose(a, g)
  /\ CloseUnder(f)
  /\ UNCHANGED tmTrail

Reopen(a, f) ==
  /\ Changes
  /\ Sees(a, f) /\ tmFacts[f].closed
  /\ MayClose(a, f)
  /\ tmFacts' = [tmFacts EXCEPT ![f].closed = FALSE, ![f].back = TRUE]
  /\ UNCHANGED tmTrail

\* deleteNode() and restoreDeleted() with Recently deleted on.
MoveToBin(a, f) ==
  /\ Changes
  /\ a \in TmErasers
  /\ Sees(a, f) /\ ~Binned(f)
  /\ tmFacts' = [g \in TmIds |-> [tmFacts[g] EXCEPT !.bin = IF g \in Under(f) /\ @ = NoFact THEN f ELSE @]]
  /\ UNCHANGED tmTrail

RestoreDeleted(a, f) ==
  /\ Changes
  /\ a \in TmErasers
  /\ Sees(a, f) /\ tmFacts[f].bin = f
  /\ tmFacts' = [g \in TmIds |-> IF tmFacts[g].bin = f THEN [tmFacts[g] EXCEPT !.bin = NoFact, !.back = TRUE]
                                                       ELSE tmFacts[g]]
  /\ UNCHANGED tmTrail

\* The approval workflow, outside the store.
Approve(admin, f, to) ==
  /\ admin \in TmAdmins
  /\ tmSetting.workflow
  /\ TmCounted
  /\ tmApprovals' = tmApprovals \cup {[by |-> admin, source |-> f, to |-> to]}
  /\ UNCHANGED <<tmFacts, tmTrail, tmSetting, tmJudged>>

\* promote(): judged in the queue, and the copy written there too.
JudgePromotion(a, f) ==
  /\ MayRun
  /\ Room
  /\ TmCounted
  /\ Sees(a, f)
  /\ \E req \in Requests :
       /\ MayPromote(a, f, req)
       /\ tmJudged' = tmJudged \cup {[call |-> tmCalls + 1, by |-> a, source |-> f, req |-> req]}
  /\ UNCHANGED <<tmFacts, tmTrail, tmApprovals, tmSetting>>

AddCopy(call) ==
  LET source == tmFacts[call.source]
      text == IF call.req.edited THEN call.req.text ELSE source.text
  IN
  /\ Room
  /\ tmFacts' = Append(tmFacts,
       [scope |-> call.req.to, author |-> source.author, from |-> call.source, by |-> call.by,
        approvedBy |-> call.req.approvedBy, edited |-> text # source.text, text |-> text,
        class |-> "Private", archived |-> FALSE, rests |-> NoFact, closed |-> FALSE, bin |-> NoFact,
        back |-> FALSE, again |-> FALSE])
  /\ tmTrail' = Append(tmTrail, [purpose |-> "promote", actor |-> call.by, source |-> call.source, copy |-> Len(tmFacts) + 1,
                                 to |-> call.req.to, approvedBy |-> call.req.approvedBy,
                                 text |-> text, class |-> source.class])
  /\ tmJudged' = tmJudged \ {call}
  /\ UNCHANGED <<tmApprovals, tmSetting, tmCalls>>

\* withdraw(): a copy that is closed already is left, and nothing recorded.
Withdraw(a, f) ==
  /\ Changes
  /\ Sees(a, f) /\ IsCopy(f) /\ ~tmFacts[f].closed
  /\ \A g \in Under(f) : MayClose(a, g)
  /\ CloseUnder(f)
  /\ tmTrail' = Append(tmTrail, [purpose |-> "withdraw", actor |-> a, source |-> NoFact, copy |-> f,
                                 to |-> tmFacts[f].scope, approvedBy |-> Nobody,
                                 text |-> tmFacts[f].text, class |-> tmFacts[f].class])

TmNext ==
  \/ \E a \in TmActors, f \in TmIds :
       \/ Update(a, f)
       \/ \E to \in Scopes : Approve(a, f, to)
       \/ JudgePromotion(a, f)
       \/ Invalidate(a, f)
       \/ Reopen(a, f)
       \/ MoveToBin(a, f)
       \/ RestoreDeleted(a, f)
       \/ Withdraw(a, f)
  \/ \E a \in TmActors : Write(a)
  \/ \E call \in tmJudged : AddCopy(call)

TmSpec == TmInit /\ [][TmNext]_tmVars

----------------------------------------------------------------------------
(* What holds                                                               *)

\* The type of the facts, the trail and the calls.
TmTypeOK ==
  /\ tmFacts \in Seq([scope : Scopes, author : TmActors, from : Nat, by : TmActors \cup {Nobody},
                      approvedBy : TmActors \cup {Nobody}, edited : BOOLEAN, text : TmTexts,
                      class : TmClasses, archived : BOOLEAN, rests : Nat, closed : BOOLEAN, bin : Nat, back : BOOLEAN,
                      again : BOOLEAN])
  /\ tmTrail \in Seq([purpose : {"promote", "withdraw"}, actor : TmActors, source : Nat, copy : TmIds, to : Scopes,
                      approvedBy : TmActors \cup {Nobody}, text : TmTexts, class : TmClasses])
  /\ tmApprovals \subseteq [by : TmAdmins, source : TmIds, to : Scopes]
  /\ tmSetting \in TmSettings
  /\ \A call \in tmJudged : call.by \in TmActors /\ call.source \in TmIds /\ call.req \in Requests
  /\ tmCalls \in 0..TmMaxCalls

\* A scope never holds a fact's copy twice where a search finds it, whoever asks
\* and however often, unless one of them was brought back: reopened or restored,
\* or listed again after it was archived or sealed (promotion.ts:154-158).
NotTwiceAtAScope ==
  \A f \in TmIds, to \in Scopes : \A c, d \in FoundCopies(f, to) :
    ~tmFacts[c].back /\ ~tmFacts[c].again /\ ~tmFacts[d].back /\ ~tmFacts[d].again => c = d

\* "A retry, or a second click, must not leave the scope holding the same fact
\* twice" (promotion.ts:154), of all copies that are live and were never closed
\* or binned.  Refuted: a copy that was archived or sealed is not found, and the
\* fact is promoted again.
OneCopyAtAScope ==
  \A f \in TmIds, to \in Scopes : \A c, d \in Copies(f, to) : ~tmFacts[c].back /\ ~tmFacts[d].back => c = d

\* What verifyPromotion() finds for a copy.
PromotionsOf(c) == {i \in DOMAIN tmTrail : tmTrail[i].purpose = "promote" /\ tmTrail[i].copy = c}
WithdrawalsOf(c) == {i \in DOMAIN tmTrail : tmTrail[i].purpose = "withdraw" /\ tmTrail[i].copy = c}

\* Whatever someone besides its author can read was shared by its author,
\* with one promotion on record that says so, from a source neither Sensitive
\* nor Sealed and in plain words as it was shared - both may change afterwards -
\* and for the whole company an admin's approval of exactly this unless the
\* tenant waives it.
SharedWithConsent ==
  \A c \in TmIds : tmFacts[c].scope # tmFacts[c].author =>
    \E i \in PromotionsOf(c) :
      LET e == tmTrail[i] source == tmFacts[e.source] IN
      /\ PromotionsOf(c) = {i}
      /\ e.to = tmFacts[c].scope /\ e.source = tmFacts[c].from
      /\ e.actor = tmFacts[c].author /\ e.actor = source.author
      /\ e.text = "plain" /\ e.class \notin {"Sensitive", "Sealed"}
      /\ e.to = Org /\ ~tmSetting.selfServe =>
           \/ ~tmSetting.workflow /\ e.approvedBy = e.actor /\ e.actor \in TmAdmins
           \/ tmSetting.workflow /\ [by |-> e.approvedBy, source |-> e.source, to |-> Org] \in tmApprovals

\* A withdrawal is recorded once: again only for a copy that was reopened.
WithdrawnOnce == \A c \in TmIds : ~tmFacts[c].back => \A i, j \in WithdrawalsOf(c) : i = j
=============================================================================
