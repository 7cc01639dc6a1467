--------------------------- MODULE PortableImport ---------------------------
(* importPortable() of src/memory-portability.ts: an artifact of several    *)
(* projects into the stores they are bound for.  Every fact, edge and       *)
(* version is checked against its store, and against what the projects      *)
(* before it will have written there, before the first is written; then     *)
(* they are written one at a time, which others' changes, a failure or a    *)
(* stop may interrupt, and the import is run again.                         *)
EXTENDS Naturals, Sequences, SequencesExt

CONSTANTS PiStores, PiIds, PiLinks,
          PiArtifacts,    \* sequences of items, each bound for a store
          PiHeld,         \* what a store may hold before: [PiIds -> trail]
          PiMaxFailures, PiMaxOthers, PiMaxRuns   \* bounds

VARIABLES piArtifact,
          piFacts,     \* of each store: each fact's trail, or none
          piLinks,     \* of each store: what each edge and version says
          piRun,       \* the import: which item it is at, and what it has found
          piOutcome,   \* how the last one ended
          piDisturbed, \* whether others changed a store since it began
          piPassed,    \* whether a preflight passed, and nobody else wrote since
          piCount      \* runs, failures and changes by others

piVars == <<piArtifact, piFacts, piLinks, piRun, piOutcome, piDisturbed, piPassed, piCount>>

NoTrail == <<>>
NothingSaid == "nothing"
PiIdle == [at |-> "idle"]

\* An item is a fact with its trail of anchors, which begins with the fact's
\* making; or a link: an edge, or a version of a fact, with the facts it names.
Words == STRING \cup {NothingSaid, "theirs"}
FactItem == [store : PiStores, kind : {"fact"}, id : PiIds, trail : Seq(Words) \ {NoTrail}]
LinkItem == [store : PiStores, kind : {"edge", "version"}, id : PiLinks, ids : SUBSET PiIds, says : Words \ {NothingSaid}]
Items == DOMAIN piArtifact

PiInit ==
  /\ piArtifact \in PiArtifacts
  /\ piFacts \in [PiStores -> PiHeld]
  /\ piLinks = [s \in PiStores |-> [l \in PiLinks |-> NothingSaid]]
  /\ piRun = PiIdle
  /\ piOutcome = "none"
  /\ piDisturbed = FALSE
  /\ piPassed = FALSE
  /\ piCount = [runs |-> 0, failures |-> 0, others |-> 0]

\* assertRestorable(): no recorded anchor is rewritten or dropped.
Restorable(trail, held) == IsPrefix(held, trail)

\* A variant that writes an older copy over a newer one.
NeverOlder(trail, held) == FALSE

\* trailExtends(), strictly: an older copy of a fact changed since.
OlderCopy(trail, held) == held # NoTrail /\ IsStrictPrefix(trail, held)

\* edgeRestoreIsNoop(), and the versions' ids: the same, or something new.
Agrees(says, held) == held \in {NothingSaid, says}

----------------------------------------------------------------------------
(* The preflight *)

NothingPending ==
  [facts |-> [s \in PiStores |-> [i \in PiIds |-> NoTrail]],
   links |-> [s \in PiStores |-> [l \in PiLinks |-> NothingSaid]]]

BeginImport ==
  /\ piRun = PiIdle
  /\ piCount.runs < PiMaxRuns
  /\ piCount' = [piCount EXCEPT !.runs = @ + 1]
  /\ piRun' = [at |-> "preflight", item |-> 1, skipped |-> {},
               facts |-> NothingPending.facts, links |-> NothingPending.links]
  /\ piDisturbed' = FALSE
  /\ piOutcome' = "none"
  /\ UNCHANGED <<piArtifact, piFacts, piLinks, piPassed>>

Ends(outcome) ==
  /\ piRun' = PiIdle
  /\ piOutcome' = outcome
  /\ UNCHANGED <<piArtifact, piDisturbed, piPassed>>

AtItem(place) == piRun.at = place /\ piRun.item \in Items

\* What an earlier project of the artifact will write, or else the store's.
PendingOr(store, id) ==
  IF piRun.facts[store][id] # NoTrail THEN piRun.facts[store][id] ELSE piFacts[store][id]

CheckFact ==
  LET item == piArtifact[piRun.item]
      held == PendingOr(item.store, item.id)
      found(trail, skip) ==
        /\ piRun' = [piRun EXCEPT !.item = @ + 1, !.facts[item.store][item.id] = trail,
                                  !.skipped = IF skip THEN @ \cup {piRun.item} ELSE @]
        /\ UNCHANGED <<piArtifact, piOutcome, piDisturbed, piPassed>>
  IN
  /\ AtItem("preflight") /\ item.kind = "fact"
  /\ \/ OlderCopy(item.trail, held) /\ found(held, TRUE)
     \/ ~OlderCopy(item.trail, held) /\ Restorable(item.trail, held) /\ found(item.trail, FALSE)
     \/ ~OlderCopy(item.trail, held) /\ ~Restorable(item.trail, held) /\ Ends("refused")
  /\ UNCHANGED <<piFacts, piLinks, piCount>>

StoredLink(item) == piLinks[item.store][item.id]

FoundLink(item, sound) ==
  /\ IF sound
       THEN /\ piRun' = [piRun EXCEPT !.item = @ + 1, !.links[item.store][item.id] = item.says]
            /\ UNCHANGED <<piArtifact, piOutcome, piDisturbed, piPassed>>
       ELSE Ends("refused")
  /\ UNCHANGED <<piFacts, piLinks, piCount>>

\* An edge's ends are in the artifact or in the store, and it says what is
\* recorded under its id already, if anything is.
CheckEdge ==
  LET item == piArtifact[piRun.item] IN
  /\ AtItem("preflight") /\ item.kind = "edge"
  /\ FoundLink(item, /\ \A i \in item.ids : PendingOr(item.store, i) # NoTrail
                     /\ Agrees(item.says, StoredLink(item))
                     /\ Agrees(item.says, piRun.links[item.store][item.id]))

\* So does a version: as recorded, or as an earlier project will record it.
CheckVersion ==
  LET item == piArtifact[piRun.item]
      pending == piRun.links[item.store][item.id]
  IN
  /\ AtItem("preflight") /\ item.kind = "version"
  /\ FoundLink(item, Agrees(item.says, IF pending # NothingSaid THEN pending ELSE StoredLink(item)))

PassPreflight ==
  /\ piRun.at = "preflight" /\ piRun.item \notin Items
  /\ piRun' = [at |-> "write", item |-> 1, skipped |-> piRun.skipped]
  /\ piPassed' = ~piDisturbed
  /\ UNCHANGED <<piArtifact, piFacts, piLinks, piOutcome, piDisturbed, piCount>>

----------------------------------------------------------------------------
(* The writes: the stores check again, and no one undoes them *)

NextItem == piRun' = [piRun EXCEPT !.item = @ + 1] /\ UNCHANGED <<piArtifact, piOutcome, piDisturbed, piPassed>>

WriteFact ==
  LET item == piArtifact[piRun.item] IN
  /\ AtItem("write") /\ item.kind = "fact"
  /\ CASE piRun.item \in piRun.skipped -> NextItem /\ UNCHANGED piFacts
       [] piRun.item \notin piRun.skipped /\ Restorable(item.trail, piFacts[item.store][item.id]) ->
            NextItem /\ piFacts' = [piFacts EXCEPT ![item.store][item.id] = item.trail]
       [] OTHER -> Ends("clashed") /\ UNCHANGED piFacts
  /\ UNCHANGED <<piLinks, piCount>>

WriteLink ==
  LET item == piArtifact[piRun.item] IN
  /\ AtItem("write") /\ item.kind # "fact"
  /\ IF (\A i \in item.ids : piFacts[item.store][i] # NoTrail) /\ Agrees(item.says, StoredLink(item))
       THEN NextItem /\ piLinks' = [piLinks EXCEPT ![item.store][item.id] = item.says]
       ELSE Ends("clashed") /\ UNCHANGED piLinks
  /\ UNCHANGED <<piFacts, piCount>>

FinishImport ==
  /\ piRun.at = "write" /\ piRun.item \notin Items
  /\ Ends("done")
  /\ UNCHANGED <<piFacts, piLinks, piCount>>

\* A failure no check foresees: a policy's refusal, a full disk, a stop.
FailImport ==
  /\ piRun # PiIdle
  /\ piCount.failures < PiMaxFailures
  /\ piCount' = [piCount EXCEPT !.failures = @ + 1]
  /\ Ends("failed")
  /\ UNCHANGED <<piFacts, piLinks>>

\* Another writer: a fact changes, or is erased with its links.
OtherChange(store, id, trail) ==
  /\ piCount.others < PiMaxOthers
  /\ piCount' = [piCount EXCEPT !.others = @ + 1]
  /\ piFacts' = [piFacts EXCEPT ![store][id] = trail]
  /\ piLinks' = [piLinks EXCEPT ![store] =
                   [l \in PiLinks |-> IF trail = NoTrail /\ (\E n \in Items : piArtifact[n].kind # "fact" /\ piArtifact[n].id = l /\ id \in piArtifact[n].ids)
                                        THEN NothingSaid ELSE @[l]]]
  /\ piDisturbed' = TRUE
  /\ piPassed' = FALSE
  /\ UNCHANGED <<piArtifact, piRun, piOutcome>>

OtherWriter ==
  \E store \in PiStores, id \in PiIds :
    \/ piFacts[store][id] # NoTrail /\ OtherChange(store, id, Append(piFacts[store][id], "theirs"))
    \/ piFacts[store][id] # NoTrail /\ OtherChange(store, id, NoTrail)

PiNext ==
  \/ BeginImport \/ CheckFact \/ CheckEdge \/ CheckVersion \/ PassPreflight
  \/ WriteFact \/ WriteLink \/ FinishImport \/ FailImport \/ OtherWriter

PiSpec == PiInit /\ [][PiNext]_piVars

----------------------------------------------------------------------------
(* Properties *)

\* The type of the stores and of the import.
PiTypeOK ==
  /\ piRun.at \in {"idle", "preflight", "write"}
  /\ piOutcome \in {"none", "done", "refused", "clashed", "failed"}
  /\ \A s \in PiStores, i \in PiIds : piFacts[s][i] \in Seq(STRING)

\* Once the preflight has passed no store refuses a write, unless someone else
\* wrote meanwhile: two projects bound for one store that contradict one
\* another are found before the first write (memory-portability.ts:315-319).
PreflightFindsClashes == piOutcome = "clashed" /\ piRun = PiIdle => piDisturbed

\* An import that is done has brought every fact, edge and version; a fact
\* the store held in a newer state is left in it (memory-portability.ts:262).
DoneIsAllThere ==
  piOutcome = "done" /\ piRun = PiIdle /\ ~piDisturbed =>
    \A n \in Items :
      LET item == piArtifact[n] IN
      IF item.kind = "fact" THEN IsPrefix(item.trail, piFacts[item.store][item.id])
                            ELSE piLinks[item.store][item.id] = item.says

\* "the import is idempotent, so running it again finishes the job": one that
\* passed its preflight is not refused when it is run again, wherever it was
\* stopped, with no other writer in between.
RerunGoesThrough == piOutcome = "refused" => ~piPassed
============================================================================
