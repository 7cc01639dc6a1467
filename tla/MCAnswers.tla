------------------------------ MODULE MCAnswers ------------------------------
(***************************************************************************)
(* Instances of the parts that answer from the store while it changes:     *)
(* current states, recall, mental models and governed reads.               *)
(*                                                                         *)
(* In a behaviour one of them, "part", moves and the others rest: they     *)
(* share no state, so that the states of each are explored on their own.   *)
(***************************************************************************)
EXTENDS States, TLC

CONSTANTS
  RcFacts, RcWorlds, RcCalls, RcPool, RcBatch, RcLimit, RcTtl, RcMaxClock, RcMaxChanges,
  MmFacts, MmRefreshers, MmMaxFacts, MmMaxClock, MmMaxAnswers, MmMaxChanges,
  GrReaders, GrOwners, GrInPerson, GrReviewers, GrExporters, GrGuardians, GrIds, GrCopies, GrLinks, GrTries,
  GrMaxChanges, GrMaxReads

VARIABLES
  part,
  rcFact, rcWorld, rcSince, rcCache, rcCall, rcIndexed, rcEmbeds, rcPass, rcClock, rcChanges,
  mmFacts, mmAnswers, mmModel, mmRefresh, mmVerify, mmClock, mmDelete, mmChanges, mmAlone,
  grFacts, grVersions, grEdges, grVectors, grCopy, grLocked, grRead, grAnswer, grChanges, grReads

----------------------------------------------------------------------------
(* Values of the constants *)

\* How near three facts are to the question, and how sure each is.
Worlds == {[sim |-> <<2, 2, 1>>, conf |-> <<2, 1, 2>>], [sim |-> <<1, 1, 1>>, conf |-> <<1, 1, 2>>]}

\* A weak fact, a guarded one and one under a veil, linked in a row.
Shelved(weak, veiled, guarded) ==
  [class |-> "Private", weak |-> weak, veiled |-> veiled, guarded |-> guarded, tagged |-> TRUE, anchor |-> 0]
Copies == {<<Shelved(TRUE, FALSE, FALSE), Shelved(FALSE, FALSE, TRUE), Shelved(FALSE, TRUE, FALSE)>>}
Row == {{1, 2}, {2, 3}}

----------------------------------------------------------------------------
(* The parts *)

Recall == INSTANCE Recall
Models == INSTANCE MentalModels
Reads == INSTANCE GovernedReads

\* The facts a store starts with are facts that nothing has changed yet.
ASSUME CopiesAssumption ==
  \A copy \in GrCopies : /\ copy \in [GrIds -> Reads!GrFact \cup {Reads!Absent}]
                         /\ \A i \in GrIds : copy[i] # Reads!Absent => copy[i].anchor = 0

\* The clock of the models has a moment to show.
ASSUME ClockAssumption == MmMaxClock \in Nat \ {0}

RecallVars == <<rcFact, rcWorld, rcSince, rcCache, rcCall, rcIndexed, rcEmbeds, rcPass, rcClock, rcChanges>>
ModelsVars == <<mmFacts, mmAnswers, mmModel, mmRefresh, mmVerify, mmClock, mmDelete, mmChanges, mmAlone>>
ReadsVars == <<grFacts, grVersions, grEdges, grVectors, grCopy, grLocked, grRead, grAnswer, grChanges, grReads>>
vars == <<part, stVars, RecallVars, ModelsVars, ReadsVars>>

Parts == {"states", "recall", "models", "reads"}

\* A part that has several initial states, but does not move, has none of them.
Init ==
  /\ part \in Parts
  /\ StInit /\ Models!MmInit
  /\ IF part = "recall" THEN Recall!RcInit
     ELSE /\ rcFact = 0 /\ rcWorld = 0 /\ rcSince = 0 /\ rcCache = 0 /\ rcCall = 0
          /\ rcIndexed = 0 /\ rcEmbeds = 0 /\ rcPass = 0 /\ rcClock = 0 /\ rcChanges = 0
  /\ IF part = "reads" THEN Reads!GrInit
     ELSE /\ grFacts = 0 /\ grVersions = 0 /\ grEdges = 0 /\ grVectors = 0 /\ grCopy = 0
          /\ grLocked = 0 /\ grRead = 0 /\ grAnswer = 0 /\ grChanges = 0 /\ grReads = 0

\* This part moves, and the others rest.
Alone(p) ==
  /\ part = p
  /\ UNCHANGED part
  /\ IF p = "states" THEN TRUE ELSE UNCHANGED stVars
  /\ IF p = "recall" THEN TRUE ELSE UNCHANGED RecallVars
  /\ IF p = "models" THEN TRUE ELSE UNCHANGED ModelsVars
  /\ IF p = "reads" THEN TRUE ELSE UNCHANGED ReadsVars

StatesMove == Alone("states") /\ StNext
RecallMoves == Alone("recall") /\ Recall!RcNext
ModelsMove == Alone("models") /\ Models!MmNext
ReadsMove == Alone("reads") /\ Reads!GrNext

Next == StatesMove \/ RecallMoves \/ ModelsMove \/ ReadsMove

Spec == Init /\ [][Next]_vars

----------------------------------------------------------------------------
(* Properties *)

\* Each part's state is of its type.
TypeOK ==
  CASE part = "states" -> StTypeOK
    [] part = "recall" -> Recall!RcTypeOK
    [] part = "models" -> Models!MmTypeOK
    [] part = "reads" -> Reads!GrTypeOK

\* A recall leaves out only what it has nearer facts for, answers only with
\* facts that were in its scope, keeps the order the lists agree on and sees
\* what was indexed a cache's lifetime ago; and a pass leaves nothing without a
\* vector (hybrid-retriever.ts).
RecallMissesNothing ==
  part = "recall" =>
    /\ Recall!NearestAreListed /\ Recall!AnswersWereInScope /\ Recall!AgreementIsKept
    /\ Recall!SeenWithinTtl /\ Recall!NoneLeftUnindexed

\* Recordings of one key that never overlapped leave one live state, and from
\* every closed one the live one can be reached.
OneStateAtLast == OneLivePerKey /\ LeadsToLive

\* A mental model reads as fresh only when its answer was shown every fact of its
\* scope that this store learned, by its own clock, after the refresh had read
\* it, and was never withdrawn; and it has one open answer as long as no refresh
\* overlapped another or stopped (mental-models.ts:230-257, 400-412).
FreshIsFresh ==
  part = "models" => Models!FreshSawWhatCame /\ Models!NotFreshOnceWithdrawn /\ Models!OneOpenAnswer

\* A governed read of several calls gives a history the policies judged as a
\* whole, no edge or vector of a fact hidden all along, and an export of nothing
\* its reader could not read, although facts change between the calls
\* (governed-store.ts:866-938).
ReadsAreAsJudged ==
  part = "reads" => Reads!HistoryAsJudged /\ Reads!NoHiddenFactTold /\ Reads!ExportsWithinReads

\* What is searched for is found: a governed page is exact at one instant, and a
\* recall misses nothing.
SearchesMissNothing == RecallMissesNothing /\ (part = "reads" => Reads!PageIsExact)
==============================================================================
