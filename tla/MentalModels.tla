---------------------------- MODULE MentalModels ----------------------------
(* A standing question and its answers: src/mental-models.ts, with the      *)
(* check of evidence that retracts an answer, src/evidence.ts.              *)
(*                                                                          *)
(* A refresh reads the whole store, asks a judgement - which takes as long  *)
(* as it takes - and then adds the answer, closes the one before it and     *)
(* notes it in the definition, in separate calls.  Facts come, are edited,  *)
(* ended and erased in between, and the store takes the answers resting on  *)
(* them along; facts leave the scope and return to it, and nothing follows. *)
(* Whether an answer is fresh is decided when it is read, by the stamps of  *)
(* the facts, which an import brings along.  The clock that refreshes and   *)
(* reads go by is not set back.                                             *)
EXTENDS Naturals, Sequences, FiniteSets

CONSTANTS MmFacts,      \* 1 .. n, the facts of the model's scope in the order they come
          MmRefreshers, \* refreshes
          MmMaxFacts,   \* maxFactsPerModel
          MmMaxClock,   \* bound: the clock
          MmMaxAnswers, \* bound: answers
          MmMaxChanges  \* bound: edits, ends, erasures, stops and deletions

VARIABLES mmFacts,   \* each fact: [at, learned, own, text]; "aside" is out of the scope, own is
                     \* for the properties: its stamp is of this store's clock as it came
          mmAnswers, \* every answer, in the order they were added
          mmModel,   \* the definition: whether it is there, its last answer
          mmRefresh, \* what each refresh is doing
          mmVerify,  \* the answers a verifyDerived() has still to retract
          mmClock,
          mmDelete,  \* what a deleteMentalModel() has still to remove
          mmChanges, \* how many such changes there were
          mmAlone    \* no refresh ever overlapped another or stopped half-way

mmVars == <<mmFacts, mmAnswers, mmModel, mmRefresh, mmVerify, mmClock, mmDelete, mmChanges, mmAlone>>

NoAnswer == 0
Always == 0      \* validTo of an open answer
Ready == [at |-> "ready"]
NotDeleting == [at |-> "no"]

Answers == {a \in DOMAIN mmAnswers : mmAnswers[a].there}
Came == {f \in MmFacts : mmFacts[f].at # "new"}
LiveFacts == {f \in MmFacts : mmFacts[f].at = "live"}
MaxOf(S) == CHOOSE x \in S : \A y \in S : y <= x

\* answersFor(): in the order of the refreshes that wrote them.
Later(a, b) == mmAnswers[a].from > mmAnswers[b].from \/ (mmAnswers[a].from = mmAnswers[b].from /\ a > b)
Latest == IF Answers = {} THEN NoAnswer
          ELSE CHOOSE a \in Answers : \A b \in Answers \ {a} : Later(a, b)

\* factsFor(): the live ones of them.
FactsFor == LiveFacts
LearnedOf(S) == MaxOf({mmFacts[f].learned : f \in S})

\* The newest of them, as many as one question is shown.
ShownOf(S) ==
  {T \in SUBSET S : /\ Cardinality(T) = (IF Cardinality(S) < MmMaxFacts THEN Cardinality(S) ELSE MmMaxFacts)
                    /\ \A f \in T, g \in S \ T : mmFacts[f].learned >= mmFacts[g].learned}

\* A variant that looks only at facts of a later moment.
LaterThan(a) == {f \in FactsFor : mmFacts[f].learned > mmAnswers[a].newestAt}

\* staleness(): null is fresh.
UnseenBy(a) ==
  {f \in FactsFor : \/ mmFacts[f].learned > mmAnswers[a].newestAt
                    \/ mmFacts[f].learned = mmAnswers[a].newestAt /\ f \notin mmAnswers[a].shown}

Missing(latest) == mmModel.last # NoAnswer /\ latest # mmModel.last

FreshWith(latest) ==
  /\ latest # NoAnswer
  /\ ~Missing(latest)
  /\ mmAnswers[latest].to = Always \/ mmAnswers[latest].to > mmClock
  /\ UnseenBy(latest) = {}

Fresh == FreshWith(Latest)

----------------------------------------------------------------------------
(* Refreshes *)

MmInit ==
  /\ mmFacts = [f \in MmFacts |-> [at |-> "new", learned |-> 0, own |-> FALSE, text |-> 1]]
  /\ mmAnswers = <<>>
  /\ mmModel = [there |-> TRUE, last |-> NoAnswer]
  /\ mmRefresh = [r \in MmRefreshers |-> Ready]
  /\ mmVerify = {}
  /\ mmClock = 1
  /\ mmDelete = NotDeleting
  /\ mmChanges = 0
  /\ mmAlone = TRUE

Does(r, step) == mmRefresh' = [mmRefresh EXCEPT ![r] = step]

Change == mmChanges < MmMaxChanges /\ mmChanges' = mmChanges + 1

\* The store is read: a model that is stale and has facts is asked about.
StartRefresh(r) ==
  /\ mmRefresh[r] = Ready
  /\ mmModel.there
  /\ ~Fresh
  /\ \E shown \in ShownOf(FactsFor) :
       /\ shown # {}
       /\ Does(r, [at |-> "asking", now |-> mmClock, shown |-> shown, newestAt |-> LearnedOf(shown),
                   text |-> [f \in shown |-> mmFacts[f].text], read |-> Came,
                   previous |-> IF Latest # NoAnswer /\ mmAnswers[Latest].to = Always THEN Latest ELSE NoAnswer])
  /\ mmAlone' = (mmAlone /\ \A q \in MmRefreshers \ {r} : mmRefresh[q] = Ready)
  /\ UNCHANGED <<mmFacts, mmAnswers, mmModel, mmVerify, mmClock, mmDelete, mmChanges>>

\* No answer, or one whose quotes are not in the facts it was shown.
Refuse(r) ==
  /\ mmRefresh[r].at = "asking"
  /\ Does(r, Ready)
  /\ UNCHANGED <<mmFacts, mmAnswers, mmModel, mmVerify, mmClock, mmAlone, mmDelete, mmChanges>>

\* The answer is added, resting on the facts it quotes.
AddAnswer(r) ==
  LET ask == mmRefresh[r] IN
  /\ ask.at = "asking"
  /\ Len(mmAnswers) < MmMaxAnswers
  /\ \E sources \in (SUBSET ask.shown) \ {{}} :
       mmAnswers' = Append(mmAnswers,
         [there |-> TRUE, sources |-> sources, quotes |-> [f \in sources |-> ask.text[f]], shown |-> ask.shown,
          newestAt |-> ask.newestAt, from |-> ask.now, to |-> Always, read |-> ask.read, withdrawn |-> FALSE])
  /\ Does(r, [at |-> "added", now |-> ask.now, previous |-> ask.previous, saved |-> Len(mmAnswers) + 1])
  /\ UNCHANGED <<mmFacts, mmModel, mmVerify, mmClock, mmAlone, mmDelete, mmChanges>>

\* The one before it is looked up again, and closed if it is still open.
CheckPrevious(r) ==
  LET ask == mmRefresh[r] IN
  /\ ask.at = "added"
  /\ Does(r, [ask EXCEPT !.at = IF ask.previous \in Answers /\ mmAnswers[ask.previous].to = Always THEN "closing" ELSE "closed"])
  /\ UNCHANGED <<mmFacts, mmAnswers, mmModel, mmVerify, mmClock, mmAlone, mmDelete, mmChanges>>

\* Erased since, the update throws and the refresh ends here.
ClosePrevious(r) ==
  LET ask == mmRefresh[r] IN
  /\ ask.at = "closing"
  /\ IF ask.previous \in Answers
       THEN /\ mmAnswers' = [mmAnswers EXCEPT ![ask.previous].to = ask.now]
            /\ Does(r, [ask EXCEPT !.at = "closed"])
            /\ UNCHANGED mmAlone
       ELSE UNCHANGED mmAnswers /\ Does(r, Ready) /\ mmAlone' = FALSE
  /\ UNCHANGED <<mmFacts, mmModel, mmVerify, mmClock, mmDelete, mmChanges>>

\* The definition, if it is there, notes its last answer.
NoteAnswer(r) ==
  LET ask == mmRefresh[r] IN
  /\ ask.at = "closed"
  /\ mmModel' = IF mmModel.there THEN [mmModel EXCEPT !.last = ask.saved] ELSE mmModel
  /\ Does(r, Ready)
  /\ UNCHANGED <<mmFacts, mmAnswers, mmVerify, mmClock, mmAlone, mmDelete, mmChanges>>

\* The process ends, or a call of the store fails.
StopRefresh(r) ==
  /\ Change
  /\ mmRefresh[r].at \in {"added", "closing", "closed"}
  /\ Does(r, Ready)
  /\ mmAlone' = FALSE
  /\ UNCHANGED <<mmFacts, mmAnswers, mmModel, mmVerify, mmClock, mmDelete>>

----------------------------------------------------------------------------
(* What else changes the store *)

IsNext(f) == f \notin Came /\ \A g \in MmFacts : g < f => g \in Came

AddFact(f) ==
  /\ IsNext(f)
  /\ mmFacts' = [mmFacts EXCEPT ![f].at = "live", ![f].learned = mmClock, ![f].own = TRUE]
  /\ UNCHANGED <<mmAnswers, mmModel, mmRefresh, mmVerify, mmClock, mmAlone, mmDelete, mmChanges>>

\* An import keeps the stamp a fact has, and a clock that was wrong for a
\* while gives one of another moment.  (Of this moment, it is one more of
\* AddFact's.)
BringFact(f) ==
  /\ IsNext(f)
  /\ \E learned \in (1 .. MmMaxClock) \ {mmClock} :
       mmFacts' = [mmFacts EXCEPT ![f].at = "live", ![f].learned = learned, ![f].own = FALSE]
  /\ UNCHANGED <<mmAnswers, mmModel, mmRefresh, mmVerify, mmClock, mmAlone, mmDelete, mmChanges>>

\* A fact is archived, sealed, binned or tagged otherwise: it feeds the model
\* no more, and the answers resting on it stay.
LeaveScope(f) ==
  /\ Change
  /\ mmFacts[f].at = "live"
  /\ mmFacts' = [mmFacts EXCEPT ![f].at = "aside"]
  /\ UNCHANGED <<mmAnswers, mmModel, mmRefresh, mmVerify, mmClock, mmAlone, mmDelete>>

\* The opposite, or an ended fact is reopened: its stamp is what it was, and
\* what was retracted stays retracted.
ReturnToScope(f) ==
  /\ mmFacts[f].at \in {"aside", "ended"}
  /\ mmFacts' = [mmFacts EXCEPT ![f].at = "live"]
  /\ UNCHANGED <<mmAnswers, mmModel, mmRefresh, mmVerify, mmClock, mmAlone, mmDelete, mmChanges>>

Resting(f) == {a \in Answers : f \in mmAnswers[a].sources}

\* A fact stops being true: the open answers resting on it are retracted.
EndFact(f) ==
  /\ Change
  /\ mmFacts[f].at \in {"live", "aside"}
  /\ mmFacts' = [mmFacts EXCEPT ![f].at = "ended"]
  /\ mmAnswers' = [a \in DOMAIN mmAnswers |->
       IF a \notin Resting(f) THEN mmAnswers[a]
       ELSE IF mmAnswers[a].to = Always THEN [mmAnswers[a] EXCEPT !.to = mmClock, !.withdrawn = TRUE]
       ELSE [mmAnswers[a] EXCEPT !.withdrawn = TRUE]]
  /\ UNCHANGED <<mmModel, mmRefresh, mmVerify, mmClock, mmAlone, mmDelete>>

\* A fact is erased, and the answers resting on it.
EraseFact(f) ==
  /\ Change
  /\ mmFacts[f].at \in {"live", "aside", "ended"}
  /\ mmFacts' = [mmFacts EXCEPT ![f].at = "erased"]
  /\ mmAnswers' = [a \in DOMAIN mmAnswers |->
       IF a \in Resting(f) THEN [mmAnswers[a] EXCEPT !.there = FALSE] ELSE mmAnswers[a]]
  /\ UNCHANGED <<mmModel, mmRefresh, mmVerify, mmClock, mmAlone, mmDelete>>

\* A fact's words change, and a quote of them may no longer be found.
EditFact(f) ==
  /\ Change
  /\ mmFacts[f].at \in {"live", "aside"}
  /\ mmFacts[f].text = 1
  /\ mmFacts' = [mmFacts EXCEPT ![f].text = 2]
  /\ UNCHANGED <<mmAnswers, mmModel, mmRefresh, mmVerify, mmClock, mmAlone, mmDelete>>

\* verifyDerived(): the open answers are read once; those whose quotes are not
\* found are retracted one by one, whatever became of them since.
QuoteHolds(a) == \A f \in mmAnswers[a].sources : mmFacts[f].at # "erased" /\ mmFacts[f].text = mmAnswers[a].quotes[f]

StartVerify ==
  /\ mmVerify = {}
  /\ mmVerify' = {a \in Answers : mmAnswers[a].to = Always /\ ~QuoteHolds(a)}
  /\ mmVerify' # {}
  /\ UNCHANGED <<mmFacts, mmAnswers, mmModel, mmRefresh, mmClock, mmAlone, mmDelete, mmChanges>>

RetractUnsupported ==
  \E a \in mmVerify :
    /\ IF a \in Answers
         THEN /\ mmAnswers' = [mmAnswers EXCEPT ![a].to = mmClock, ![a].withdrawn = TRUE]
              /\ mmVerify' = mmVerify \ {a}
         ELSE UNCHANGED mmAnswers /\ mmVerify' = {}
    /\ UNCHANGED <<mmFacts, mmModel, mmRefresh, mmClock, mmAlone, mmDelete, mmChanges>>

\* deleteMentalModel(): the answers there are now, one by one, then the
\* definition.
StartDelete ==
  /\ Change
  /\ mmDelete = NotDeleting /\ mmModel.there
  /\ mmDelete' = [at |-> "deleting", left |-> Answers]
  /\ UNCHANGED <<mmFacts, mmAnswers, mmModel, mmRefresh, mmVerify, mmClock, mmAlone>>

DeleteAnswer ==
  /\ mmDelete.at = "deleting"
  /\ \E a \in mmDelete.left :
       /\ \A b \in mmDelete.left \ {a} : Later(b, a)
       /\ mmAnswers' = [mmAnswers EXCEPT ![a].there = FALSE]
       /\ mmDelete' = [mmDelete EXCEPT !.left = @ \ {a}]
  /\ UNCHANGED <<mmFacts, mmModel, mmRefresh, mmVerify, mmClock, mmAlone, mmChanges>>

DeleteDefinition ==
  /\ mmDelete.at = "deleting"
  /\ mmDelete.left = {}
  /\ mmModel' = [mmModel EXCEPT !.there = FALSE]
  /\ mmDelete' = NotDeleting
  /\ UNCHANGED <<mmFacts, mmAnswers, mmRefresh, mmVerify, mmClock, mmAlone, mmChanges>>

MmTick ==
  /\ mmClock < MmMaxClock
  /\ mmClock' = mmClock + 1
  /\ UNCHANGED <<mmFacts, mmAnswers, mmModel, mmRefresh, mmVerify, mmAlone, mmDelete, mmChanges>>

MmNext ==
  \/ \E r \in MmRefreshers :
       \/ StartRefresh(r)
       \/ Refuse(r)
       \/ AddAnswer(r)
       \/ CheckPrevious(r)
       \/ ClosePrevious(r)
       \/ NoteAnswer(r)
       \/ StopRefresh(r)
  \/ \E f \in MmFacts :
       \/ AddFact(f)
       \/ BringFact(f)
       \/ LeaveScope(f)
       \/ ReturnToScope(f)
       \/ EndFact(f)
       \/ EraseFact(f)
       \/ EditFact(f)
  \/ StartVerify
  \/ RetractUnsupported
  \/ StartDelete
  \/ DeleteAnswer
  \/ DeleteDefinition
  \/ MmTick

MmSpec == MmInit /\ [][MmNext]_mmVars

----------------------------------------------------------------------------
(* Properties *)

\* The type of the model's state.
MmTypeOK ==
  /\ \A f \in MmFacts : /\ mmFacts[f].at \in {"new", "live", "aside", "ended", "erased"}
                         /\ mmFacts[f].learned \in 0 .. MmMaxClock /\ mmFacts[f].own \in BOOLEAN
  /\ mmModel.last \in DOMAIN mmAnswers \cup {NoAnswer}
  /\ \A r \in MmRefreshers : mmRefresh[r].at \in {"ready", "asking", "added", "closing", "closed"}
  /\ mmVerify \subseteq DOMAIN mmAnswers
  /\ mmDelete.at = "deleting" => mmDelete.left \subseteq DOMAIN mmAnswers

\* A model that reads as fresh was shown every live fact of its scope that
\* this store learned, by its own clock, after the answer's refresh had read
\* it, also in the very same millisecond and while the judgement was out
\* (mental-models.ts:245-253).  What came with an older stamp of its own is
\* not noticed, nor what was there and was cut off at MmMaxFacts or returned
\* to the scope since; and nothing is, behind an answer that was shown a stamp
\* ahead of the clock.
FreshSawWhatCame ==
  mmModel.there /\ Fresh =>
    LET answer == mmAnswers[Latest] IN
    \A f \in FactsFor :
      mmFacts[f].own /\ f \notin answer.read /\ answer.newestAt <= answer.from => f \in answer.shown

\* "A model reads as stale when ... facts in its scope arrive that its answer
\* was never shown" (CHANGELOG.md:560-563), whatever their stamps.  Refuted: one
\* that comes with an older stamp is not counted.
StaleOnceOneArrives ==
  mmModel.there /\ Fresh => \A f \in FactsFor : f \notin mmAnswers[Latest].read => f \in mmAnswers[Latest].shown

\* A model whose newest answer was withdrawn - a fact it rests on ended, or its
\* quotes no longer held - never reads as fresh, whatever refreshes and checks
\* close or retract that answer afterwards.
NotFreshOnceWithdrawn ==
  mmModel.there /\ Fresh => ~mmAnswers[Latest].withdrawn

\* Refreshes that never overlap and never stop half-way leave one answer open.
OneOpenAnswer ==
  mmAlone /\ (\A r \in MmRefreshers : mmRefresh[r] = Ready) =>
    \A a, b \in Answers : mmAnswers[a].to = Always /\ mmAnswers[b].to = Always => a = b

\* "a fact that MUST NOT EXIST erases the answer with it, so erased words
\* cannot survive in a summary" (mental-models.ts:19-20).  Refuted: an answer is
\* added without another look at what it rests on.
ErasedWordsAreGone == \A a \in Answers : \A f \in mmAnswers[a].sources : mmFacts[f].at # "erased"
============================================================================
