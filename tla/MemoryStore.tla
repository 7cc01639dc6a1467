----------------------------- MODULE MemoryStore -----------------------------
(***************************************************************************)
(* One memory store: src/src/in-memory-store.ts, and the same operations   *)
(* of src/src/sqlite-memory-store.ts, each of which runs in one IMMEDIATE  *)
(* transaction.  Every mutator is one step: the in-memory store awaits     *)
(* nothing inside one, and SQLite's write lock covers its read as well as  *)
(* its write, so the interleavings of several callers, or of several       *)
(* processes on one file, are the interleavings of these steps.            *)
(*                                                                         *)
(* A refused call (a throw before the first write, or a rolled-back        *)
(* transaction) changes nothing, so it is a step that is not enabled.      *)
(*                                                                         *)
(* Data.  An image holds a fact's mutable fields: the end of its validity, *)
(* the sources it names in contextualMetadata.derivedFrom, whether that    *)
(* metadata marks it as retracted, and a label that stands for every other *)
(* mutable field.  `content` stands for the fields that never change.      *)
(* Moments are milliseconds of the wall clock, which may be set back.      *)
(***************************************************************************)
EXTENDS Integers, SequencesExt, DerivedFacts

CONSTANTS Id,         \* node ids
          LinkId,     \* edge ids
          Model,      \* embedding models
          Content,    \* values of the immutable fields
          Label,      \* values of the mutable fields not modelled one by one
          Event,      \* the events an update may put on the trail
          Images,     \* the images callers write
          Clocks,     \* the moments the clock may show
          Exports,    \* bound: whether the store is exported once, and so imported into
          MaxMoment,  \* bound: no moment is later
          MaxTrail    \* bound: a fact is updated, or imported over, while its trail and
                      \* its history are shorter

Null == -1   \* an open end of validity
Moment == 0..MaxMoment

Image == [validTo : Moment \cup {Null}, sources : SUBSET Id, retracted : BOOLEAN, label : Label]
Anchor == [at : Moment, event : Event \cup {"created", "modified"}]
Fact == [content : Content, anchors : Seq(Anchor), image : Image]
Version == [at : Moment, event : Event \cup {"created", "modified", "restored"}, before : Image, after : Image]
Link == [from : Id, to : Id]

\* A Map of the store: some keys of K, each with a value in V.
IsMap(f, K, V) == DOMAIN f \subseteq K /\ f \in [DOMAIN f -> V]

ASSUME BoundsAssumption == MaxMoment \in Nat /\ MaxTrail \in Nat
ASSUME ImagesAssumption == Images \subseteq Image
ASSUME ClocksAssumption == Clocks \subseteq Moment /\ 0 \in Clocks
ASSUME ExportsAssumption == Exports \in BOOLEAN

VARIABLES facts,      \* nodes: id -> fact
          versions,   \* node_versions: id -> the recorded changes, oldest first
          links,      \* edges: id -> its endpoints
          embeddings, \* one vector per (fact, model); its value is not modelled
          clock,      \* Date.now()
          minted,     \* every id handed out so far: ids are fresh random UUIDs
          backup,     \* the last export, kept outside the store
          imported    \* ids written by restoreNode or restoreVersion (history variable)

store == <<facts, versions, links, embeddings>>
vars == <<facts, versions, links, embeddings, clock, minted, backup, imported>>

NoBackup == [facts |-> <<>>, versions |-> [n \in Id |-> <<>>], links |-> <<>>]

Init ==
  /\ facts = <<>>
  /\ versions = [n \in Id |-> <<>>]
  /\ links = <<>>
  /\ embeddings = {}
  /\ clock = 0
  /\ minted = {}
  /\ backup = NoBackup
  /\ imported = {}

Stored == DOMAIN facts

\* map with k set to v.
Put(map, k, v) == [x \in DOMAIN map \cup {k} |-> IF x = k THEN v ELSE map[x]]

-----------------------------------------------------------------------------
(* What a change to one fact leaves behind.                                *)

Sources == [n \in Stored |-> facts[n].image.sources]

\* Facts still in force at a moment: no end, or a later one (isLiveAt).
LiveAt(at) == {n \in Stored : facts[n].image.validTo = Null \/ facts[n].image.validTo > at}

\* Every moment on a fact's record, and now.
Record(n) ==
  {clock} \cup {facts[n].anchors[k].at : k \in DOMAIN facts[n].anchors}
          \cup {versions[n][k].at : k \in DOMAIN versions[n]}

\* Variants: the clock alone dates the change, or the moment after the record.
StampFromClock(n) == clock
StampPastRecord(n) == Max(Record(n)) + 1

\* When a change to the fact happens: now, or the latest moment on its record.
StampFor(n) == Max(Record(n))

\* A change applied over a restored copy is dated after all the copy brings.
StampAfter(n, incoming) ==
  Max(Record(n) \cup {incoming.anchors[k].at + 1 : k \in DOMAIN incoming.anchors})

\* A variant that keeps the image the fact has afterwards as the one before.
RecordedAfterwards(n, image, event) ==
  Append(versions[n], [at |-> StampFor(n), event |-> event, before |-> image, after |-> image])

\* The fact and its history after one recorded change (applyUpdate).
Amended(n, image, event) ==
  [facts[n] EXCEPT !.anchors = Append(@, [at |-> StampFor(n), event |-> event]), !.image = image]
Recorded(n, image, event) ==
  Append(versions[n], [at |-> StampFor(n), event |-> event, before |-> facts[n].image, after |-> image])

\* Variants: conclusions drawn from conclusions are missed; any change of the
\* end cascades, reopening included.
WithdrawnDirect(n, image) ==
  IF facts[n].image.validTo = Null /\ image.validTo # Null
  THEN {m \in LiveAt(image.validTo) \ {n} : n \in Sources[m]}
  ELSE {}
WithdrawnOnAnyChange(n, image) ==
  IF facts[n].image.validTo # image.validTo
  THEN RetractionsFor(Sources, LiveAt(image.validTo), n)
  ELSE {}

\* The facts an update changes besides its target: when the target had no end
\* and now has one, everything in force that was concluded from it.
Withdrawn(n, image) ==
  IF facts[n].image.validTo = Null /\ image.validTo # Null
  THEN RetractionsFor(Sources, LiveAt(image.validTo), n)
  ELSE {}

\* The image a withdrawn conclusion is left with.
Retracted(n, until) == [facts[n].image EXCEPT !.validTo = until, !.retracted = TRUE]

-----------------------------------------------------------------------------
(* The mutators.                                                           *)

AddNode(n, content, image) ==
  /\ n \in Id \ minted
  /\ facts' = Put(facts, n, [content |-> content,
                             anchors |-> <<[at |-> clock, event |-> "created"]>>,
                             image   |-> image])
  /\ minted' = minted \cup {n}
  /\ UNCHANGED <<versions, links, embeddings, clock, backup, imported>>

UpdateNode(n, image, event) ==
  /\ n \in Stored
  /\ Len(facts[n].anchors) < MaxTrail
  /\ LET gone == Withdrawn(n, image) IN
       /\ facts' = [m \in Stored |->
            IF m = n THEN Amended(m, image, event)
            ELSE IF m \in gone THEN Amended(m, Retracted(m, image.validTo), "modified")
            ELSE facts[m]]
       /\ versions' = [m \in Id |->
            IF m = n THEN Recorded(m, image, event)
            ELSE IF m \in gone THEN Recorded(m, Retracted(m, image.validTo), "modified")
            ELSE versions[m]]
  /\ UNCHANGED <<links, embeddings, clock, minted, backup, imported>>

\* A variant that erases only what names the fact itself.
ErasedDirect(n) == {n} \cup {m \in Stored : n \in Sources[m]}

\* What an erasure takes: the fact, stored or not, and all that rests on it.
Erased(n) == {n} \cup DependentsOf(Sources, n)

DeleteNode(n) ==
  /\ n \in Id
  /\ LET gone == Erased(n) IN
       /\ facts' = [m \in Stored \ gone |-> facts[m]]
       /\ versions' = [m \in Id |-> IF m \in gone THEN <<>> ELSE versions[m]]
       /\ links' = [e \in {e \in DOMAIN links : {links[e].from, links[e].to} \cap gone = {}} |-> links[e]]
       /\ embeddings' = {v \in embeddings : v[1] \notin gone}
  /\ UNCHANGED <<clock, minted, backup, imported>>

\* A variant that accepts a shorter copy of a stored fact.
RestorableAnyTrail(n, incoming) ==
  /\ incoming.anchors # <<>> /\ incoming.anchors[1].event = "created"
  /\ n \in Stored => incoming.content = facts[n].content

\* assertRestorable: the copy begins with its creation; over a stored fact it
\* keeps the immutable fields and only appends to the trail.
Restorable(n, incoming) ==
  /\ incoming.anchors # <<>> /\ incoming.anchors[1].event = "created"
  /\ n \in Stored =>
       /\ incoming.content = facts[n].content
       /\ IsPrefix(facts[n].anchors, incoming.anchors)

\* An import never cascades.  Over a stored fact in another state it records
\* the change as "restored", without an anchor.
RestoreNode(n, incoming) ==
  /\ Restorable(n, incoming)
  /\ LET differs == n \in Stored /\ facts[n].image # incoming.image IN
       /\ differs => StampAfter(n, incoming) \in Moment /\ Len(versions[n]) < MaxTrail
       /\ versions' = IF differs
            THEN [versions EXCEPT ![n] = Append(@, [at     |-> StampAfter(n, incoming),
                                                    event  |-> "restored",
                                                    before |-> facts[n].image,
                                                    after  |-> incoming.image])]
            ELSE versions
  /\ facts' = Put(facts, n, incoming)
  /\ minted' = minted \cup {n}
  /\ imported' = imported \cup {n}
  /\ UNCHANGED <<links, embeddings, clock, backup>>

\* assertVersionFitsNode: not before the fact was learned, on its trail unless
\* "restored", not from the future.  One already recorded is not recorded twice.
RestoreVersion(n, version) ==
  /\ n \in Stored
  /\ version.at >= facts[n].anchors[1].at
  /\ version.event # "restored" =>
       \E k \in DOMAIN facts[n].anchors :
         facts[n].anchors[k].event = version.event /\ facts[n].anchors[k].at = version.at
  /\ version.at <= clock
  /\ Len(versions[n]) < MaxTrail
  /\ \A k \in DOMAIN versions[n] : versions[n][k] # version
  /\ versions' = [versions EXCEPT ![n] = Append(@, version)]
  /\ imported' = imported \cup {n}
  /\ UNCHANGED <<facts, links, embeddings, clock, minted, backup>>

\* Both endpoints of a link must be stored.
AddEdge(e, link) ==
  /\ e \in LinkId \ minted
  /\ {link.from, link.to} \subseteq Stored
  /\ links' = Put(links, e, link)
  /\ minted' = minted \cup {e}
  /\ UNCHANGED <<facts, versions, embeddings, clock, backup, imported>>

\* A variant that does not look for the endpoints.
RestoreEdgeUnchecked(e, link) ==
  /\ e \notin DOMAIN links
  /\ links' = Put(links, e, link)
  /\ UNCHANGED <<facts, versions, embeddings, clock, minted, backup, imported>>

\* An identical stored link is left alone, a different one refused.
RestoreEdge(e, link) ==
  /\ e \notin DOMAIN links
  /\ {link.from, link.to} \subseteq Stored
  /\ links' = Put(links, e, link)
  /\ UNCHANGED <<facts, versions, embeddings, clock, minted, backup, imported>>

DeleteEdge(e) ==
  /\ e \in DOMAIN links
  /\ links' = [x \in DOMAIN links \ {e} |-> links[x]]
  /\ UNCHANGED <<facts, versions, embeddings, clock, minted, backup, imported>>

SetEmbedding(n, model) ==
  /\ n \in Stored
  /\ embeddings' = embeddings \cup {<<n, model>>}
  /\ UNCHANGED <<facts, versions, links, clock, minted, backup, imported>>

\* With a model, that vector; without one, all of the fact's.
DeleteEmbeddings(n, models) ==
  /\ embeddings' = embeddings \ ({n} \X models)
  /\ UNCHANGED <<facts, versions, links, clock, minted, backup, imported>>

-----------------------------------------------------------------------------
(* What happens around the store.                                          *)

\* The wall clock moves on, or is set back.
SetClock(at) ==
  /\ clock' = at
  /\ UNCHANGED <<facts, versions, links, embeddings, minted, backup, imported>>

\* historySnapshot, kept in a file.
Export ==
  /\ Exports
  /\ backup = NoBackup
  /\ backup' = [facts |-> facts, versions |-> versions, links |-> links]
  /\ UNCHANGED <<facts, versions, links, embeddings, clock, minted, imported>>

\* A fact changed once more by another store.
ChangedElsewhere(fact, at, image) ==
  [fact EXCEPT !.anchors = Append(@, [at |-> at, event |-> "modified"]), !.image = image]

\* The copies of a fact an import may bring: the one exported, or that one
\* updated once more by a store that imported the export.
Copies(n) ==
  LET fact == backup.facts[n]
      moments == {t \in Moment : t >= Last(fact.anchors).at /\ Len(fact.anchors) < MaxTrail}
  IN {fact} \cup {ChangedElsewhere(fact, at, image) : at \in moments, image \in Images}

Import ==
  \/ \E n \in DOMAIN backup.facts : \E incoming \in Copies(n) : RestoreNode(n, incoming)
  \/ \E n \in DOMAIN backup.facts : \E k \in DOMAIN backup.versions[n] : RestoreVersion(n, backup.versions[n][k])
  \/ \E e \in DOMAIN backup.links : RestoreEdge(e, backup.links[e])

Write ==
  \/ \E n \in Id, content \in Content, image \in Images : AddNode(n, content, image)
  \/ \E n \in Id, image \in Images, event \in Event : UpdateNode(n, image, event)
  \/ \E n \in Id : DeleteNode(n)
  \/ \E e \in LinkId, link \in Link : AddEdge(e, link)
  \/ \E e \in LinkId : DeleteEdge(e)
  \/ \E n \in Id, model \in Model : SetEmbedding(n, model)
  \/ \E n \in Id, models \in {Model} \cup {{m} : m \in Model} : DeleteEmbeddings(n, models)

Next ==
  \/ Write
  \/ Import
  \/ Export
  \/ \E at \in Clocks : SetClock(at)

Spec == Init /\ [][Next]_vars

-----------------------------------------------------------------------------
(* What the store promises.                                                *)

BackupOK ==
  /\ IsMap(backup.facts, Id, Fact)
  /\ backup.versions \in [Id -> Seq(Version)]
  /\ IsMap(backup.links, LinkId, Link)

TypeOK ==
  /\ IsMap(facts, Id, Fact)
  /\ versions \in [Id -> Seq(Version)]
  /\ IsMap(links, LinkId, Link)
  /\ embeddings \in SUBSET (Id \X Model)
  /\ clock \in Moment
  /\ minted \in SUBSET (Id \cup LinkId)
  /\ imported \in SUBSET Id
  /\ BackupOK

\* Nothing outlives the fact it belongs to: after any erasure, with the
\* conclusions it takes along, no version, link or vector of an erased fact is
\* left, and an import brings none back for a fact that is not there.  (eraseOne
\* and assertEndpoints; SQLite's foreign keys.)
RowsHaveFacts ==
  /\ \A n \in Id : versions[n] # <<>> => n \in Stored
  /\ \A e \in DOMAIN links : links[e].from \in Stored /\ links[e].to \in Stored
  /\ \A v \in embeddings : v[1] \in Stored

\* For a fact no import has touched, history accounts for every change on the
\* trail: a version each, at the same moment and with the same event, each
\* beginning where the one before it ended, the last one ending at the fact as
\* it is stored.  Exact as-of reads rest on this.  (applyUpdate, cascades
\* included; history.ts, explains.)
JoinsUp(n) ==
  /\ Len(versions[n]) + 1 = Len(facts[n].anchors)
  /\ \A k \in 1..Len(versions[n]) :
       /\ versions[n][k].at = facts[n].anchors[k + 1].at
       /\ versions[n][k].event = facts[n].anchors[k + 1].event
       /\ k < Len(versions[n]) => versions[n][k].after = versions[n][k + 1].before
       /\ k = Len(versions[n]) => versions[n][k].after = facts[n].image

HistoryJoinsUp == \A n \in Stored \ imported : JoinsUp(n)

\* A trail never runs backwards, although the clock does: no change is dated
\* before an earlier change to the same fact.  (stampFor.)
InOrder(fact) ==
  \A j, k \in 1..Len(fact.anchors) : j <= k => fact.anchors[j].at <= fact.anchors[k].at

TrailsInOrder == \A n \in Stored : InOrder(facts[n])

\* Only erasure removes anything from the record: while a fact is stored its
\* trail and its versions only grow at the end and its content stays, whatever
\* is imported over it.  (assertRestorable, assertPatchMutable.)
RecordOnlyGrows ==
  [][\A n \in Stored \cap Stored' :
       /\ facts'[n].content = facts[n].content
       /\ IsPrefix(facts[n].anchors, facts'[n].anchors)
       /\ IsPrefix(versions[n], versions'[n])]_vars

\* What was recorded stays, in the order it happened.
RecordGrowsInOrder == []TrailsInOrder /\ RecordOnlyGrows

\* An erased fact goes with everything concluded from it, at any distance, and
\* with nothing else.  (deleteNode; SPEC section 8a, "must not exist".)
ErasureTakesConclusions ==
  [][/\ \A n \in Stored \ Stored' : DependentsOf(Sources, n) \cap Stored' = {}
     /\ Stored \ Stored' # {} =>
          \E n \in Id : Stored \ Stored' \subseteq {n} \cup DependentsOf(Sources, n)]_vars

\* When a fact stops being true by a change made here, every conclusion still in
\* force that rests on it through conclusions in force ends with it in the same
\* step, with the change on its own record; all but the fact the caller ended
\* are marked.  (updateNode; SPEC section 8a, "stopped being true".  An import
\* is not such a change: it brings the other store's withdrawals itself.)
ChangedHere(n) ==
  n \in Stored \cap Stored' /\ versions'[n] # <<>> /\ Last(versions'[n]).event # "restored"

Ended ==
  {n \in Id : ChangedHere(n) /\ facts[n].image.validTo = Null /\ facts'[n].image.validTo # Null}

InvalidationWithdraws ==
  [][Ended # {} =>
       /\ \A n \in Ended :
            LET until == facts'[n].image.validTo IN
            \A m \in RetractionsFor(Sources', LiveAt(until), n) :
              facts'[m].image.validTo = until /\ Len(versions'[m]) = Len(versions[m]) + 1
       /\ \E n \in Ended : \A m \in Ended \ {n} : facts'[m].image.retracted]_vars

\* Making a fact true again revives nothing and withdraws nothing: no other
\* fact changes in that step.  (isInvalidation; SPEC section 8a.)
ReopeningTouchesNothingElse ==
  [][\A n \in Id :
       ChangedHere(n) /\ facts[n].image.validTo # Null /\ facts'[n].image.validTo = Null =>
         \A m \in Stored \ {n} : m \in Stored' /\ facts'[m] = facts[m]]_vars

\* Conclusions follow the facts they rest on one way only.
WithdrawalIsExact == InvalidationWithdraws /\ ReopeningTouchesNothingElse
=============================================================================
