----------------------------- MODULE FactHistory -----------------------------
(***************************************************************************)
(* One fact in several stores that export to and import from each other,   *)
(* and what a read as of an earlier moment says of it: nodeAsOf and        *)
(* explains (src/src/history.ts) over the records that updateNode,         *)
(* restoreNode and restoreVersion leave (src/src/in-memory-store.ts,       *)
(* src/src/sqlite-memory-store.ts), and the import of memory-portability.ts.*)
(*                                                                         *)
(* A store remembers the fact as it is and the recorded changes, each with *)
(* the image before and after it.  A read as of a moment picks an image    *)
(* from those and says whether it is exact.  An import runs step by step,  *)
(* and other writes, or a crash, may come between its steps.               *)
(***************************************************************************)
EXTENDS Integers, FiniteSets, SequencesExt

CONSTANTS Store,        \* the stores
          Origin,       \* the store the fact was written to
          State,        \* the mutable images of the fact
          MaxMoment,    \* bound: the clock stops here
          MaxChanges,   \* bound: updates of the fact, in all stores together
          MaxExports    \* bound: exports made

None == "none"   \* not an image: the store does not hold the fact

Moment == 0..MaxMoment

ASSUME StoreAssumption == Origin \in Store
ASSUME StateAssumption == State # {} /\ None \notin State
ASSUME BoundsAssumption == MaxMoment \in Nat /\ MaxChanges \in Nat /\ MaxExports \in Nat

Stamp == 0..(MaxMoment + 1)

Anchor == [at : Stamp, event : {"created", "modified"}]
Version == [id : Nat, at : Stamp, event : {"modified", "restored"}, before : State, after : State]
Copy == [anchors : Seq(Anchor), image : State \cup {None}, versions : Seq(Version)]
Absent == [anchors |-> <<>>, image |-> None, versions |-> <<>>]

VARIABLES now,        \* the wall clock, the same for every store
          held,       \* what each store holds
          artifact,   \* the last export, and the moment it was made
          importing,  \* the import under way: into which store, and its next step; or Idle
          changes,    \* updates and version ids so far
          exports,    \* exports so far
          believed,   \* history variable: the images that each store, and the artifact,
                      \* held during each moment
          disturbed   \* history variable: an import stopped, or its fact was updated,
                      \* before its last version

vars == <<now, held, artifact, importing, changes, exports, believed, disturbed>>

Idle == [to |-> None, step |-> 0]

File == "file"   \* the artifact, as a holder of the fact
Holder == Store \cup {File}

Init ==
  \E image \in State :
    /\ now = 0
    /\ held = [s \in Store |-> IF s = Origin
                               THEN [anchors |-> <<[at |-> 0, event |-> "created"]>>, image |-> image, versions |-> <<>>]
                               ELSE Absent]
    /\ artifact = [copy |-> Absent, exportedAt |-> 0]
    /\ importing = Idle
    /\ changes = [updates |-> 0, ids |-> 0]
    /\ exports = 0
    /\ believed = [h \in Holder |-> [t \in Moment |-> IF h = Origin /\ t = 0 THEN {image} ELSE {}]]
    /\ disturbed = FALSE

-----------------------------------------------------------------------------
(* Reading as of a moment.                                                 *)

\* Versions in time order, those of one moment in the store's order.
Ordered(versions) ==
  LET insert(sorted, version) ==
        InsertAt(sorted, Cardinality({k \in DOMAIN sorted : sorted[k].at <= version.at}) + 1, version)
  IN FoldLeft(insert, <<>>, versions)

\* The image in force at a moment: after the last change by then, else before
\* the first change after it; with no change after it, the image as it is.
ServedAt(copy, at) ==
  LET ordered == Ordered(copy.versions)
      happened == SelectSeq(ordered, LAMBDA v : v.at <= at)
      later == SelectSeq(ordered, LAMBDA v : v.at > at)
  IN IF later = <<>> THEN copy.image
     ELSE IF happened # <<>> THEN Last(happened).after
     ELSE Head(later).before

Broken == "broken"

\* The chain after one more version.  A "restored" one that arrives where the
\* chain already is is passed over, unless it was recorded after the moment read
\* and the answer is not what the store held before it.
Joins(reached, version, at, served) ==
  IF reached \in {None, version.before} THEN version.after
  ELSE IF /\ version.event = "restored" /\ reached = version.after
          /\ version.at <= at \/ served = version.before
       THEN reached
  ELSE Broken

\* From the change in force at the moment on, the chain joins and ends at the
\* image as it is.
ChainHolds(copy, at, served) ==
  LET ordered == Ordered(copy.versions)
      start == Max({1} \cup {k \in DOMAIN ordered : ordered[k].at <= at})
      end == FoldLeft(LAMBDA reached, version : Joins(reached, version, at, served),
                      None, SubSeq(ordered, start, Len(ordered)))
  IN end \in {None, copy.image}

\* Variants: the trail is not compared with the versions, or compared from the
\* moment itself on.
AnyTrail(copy, at) == TRUE
TrailAgreesInclusive(copy, at) ==
  LET marks == {k \in DOMAIN copy.anchors : copy.anchors[k].event # "created" /\ copy.anchors[k].at >= at}
      records == {k \in DOMAIN copy.versions : copy.versions[k].event # "restored" /\ copy.versions[k].at > at}
  IN Cardinality(marks) = Cardinality(records)

\* After the moment, the trail and the versions record the same changes.
TrailAgrees(copy, at) ==
  LET marks == {k \in DOMAIN copy.anchors : copy.anchors[k].event # "created" /\ copy.anchors[k].at > at}
      records == {k \in DOMAIN copy.versions : copy.versions[k].event # "restored" /\ copy.versions[k].at > at}
  IN \A t \in {copy.anchors[k].at : k \in marks} \cup {copy.versions[k].at : k \in records} :
       Cardinality({k \in marks : copy.anchors[k].at = t}) = Cardinality({k \in records : copy.versions[k].at = t})

\* A read as of a moment: the image served, None before the fact was learned,
\* and whether the record accounts for it.
NodeAsOf(copy, at) ==
  IF copy.anchors[1].at > at THEN [state |-> None, exact |-> TRUE]
  ELSE LET served == ServedAt(copy, at) IN
       [state |-> served, exact |-> ChainHolds(copy, at, served) /\ TrailAgrees(copy, at)]

-----------------------------------------------------------------------------
(* Writing.                                                                *)

\* Every moment on a copy's record.
Record(copy) ==
  {copy.anchors[k].at : k \in DOMAIN copy.anchors} \cup {copy.versions[k].at : k \in DOMAIN copy.versions}

\* A store, or the artifact, holds this image from now on.
Believe(holder, image) == believed' = [believed EXCEPT ![holder][now] = @ \cup {image}]

Update(s, image) ==
  /\ held[s].image # None
  /\ changes.updates < MaxChanges
  /\ LET at == Max(Record(held[s]) \cup {now})
         version == [id |-> changes.ids, at |-> at, event |-> "modified", before |-> held[s].image, after |-> image]
     IN held' = [held EXCEPT ![s] = [anchors  |-> Append(@.anchors, [at |-> at, event |-> "modified"]),
                                     image    |-> image,
                                     versions |-> Append(@.versions, version)]]
  /\ changes' = [updates |-> changes.updates + 1, ids |-> changes.ids + 1]
  /\ Believe(s, image)
  /\ disturbed' = (disturbed \/ importing.to = s)
  /\ UNCHANGED <<now, artifact, importing, exports>>

\* exportPortable: one snapshot, dated now or past everything in it.
Export(s) ==
  /\ held[s].image # None
  /\ importing = Idle
  /\ exports < MaxExports
  /\ artifact' = [copy |-> held[s], exportedAt |-> Max(Record(held[s]) \cup {now})]
  /\ exports' = exports + 1
  /\ Believe(File, held[s].image)
  /\ UNCHANGED <<now, held, importing, changes, disturbed>>

\* assertRestorable and trailExtends, for content that never differs.
Restorable(copy, incoming) == IsPrefix(copy.anchors, incoming.anchors)
Older(copy, incoming) == IsStrictPrefix(incoming.anchors, copy.anchors)

\* A variant that takes an artifact from the future.
StartImportOfAnyDate(s) ==
  /\ importing = Idle
  /\ artifact.copy # Absent
  /\ \/ /\ Older(held[s], artifact.copy)
        /\ importing' = [to |-> s, step |-> 1]
     \/ /\ Restorable(held[s], artifact.copy)
        /\ importing' = [to |-> s, step |-> 0]
  /\ UNCHANGED <<now, held, artifact, changes, exports, believed, disturbed>>

\* validatePortable and preflightDestination: an artifact from the future is
\* refused, an older copy of the fact skipped, another one must be restorable.
StartImport(s) ==
  /\ importing = Idle
  /\ artifact.copy # Absent
  /\ artifact.exportedAt <= now
  /\ \/ /\ Older(held[s], artifact.copy)
        /\ importing' = [to |-> s, step |-> 1]
     \/ /\ Restorable(held[s], artifact.copy)
        /\ importing' = [to |-> s, step |-> 0]
  /\ UNCHANGED <<now, held, artifact, changes, exports, believed, disturbed>>

\* restoreNode, the first write of an import.  It looks at the stored fact again
\* and refuses what no longer fits; the import then stops.
ImportNode ==
  LET s == importing.to
      copy == held[s]
      incoming == artifact.copy
      differs == copy.image # None /\ copy.image # incoming.image
      at == Max(Record(copy) \cup {now} \cup {incoming.anchors[k].at + 1 : k \in DOMAIN incoming.anchors})
      version == [id |-> changes.ids, at |-> at, event |-> "restored", before |-> copy.image, after |-> incoming.image]
  IN
  /\ importing # Idle
  /\ importing.step = 0
  /\ IF Restorable(copy, incoming)
     THEN /\ held' = [held EXCEPT ![s] = [anchors  |-> incoming.anchors,
                                          image    |-> incoming.image,
                                          versions |-> IF differs THEN Append(copy.versions, version) ELSE copy.versions]]
          /\ changes' = IF differs THEN [changes EXCEPT !.ids = @ + 1] ELSE changes
          /\ importing' = [importing EXCEPT !.step = 1]
          /\ Believe(s, incoming.image)
     ELSE importing' = Idle /\ UNCHANGED <<held, changes, believed>>
  /\ UNCHANGED <<now, artifact, exports, disturbed>>

\* assertVersionFitsNode.
Fits(version, copy) ==
  /\ version.at >= copy.anchors[1].at
  /\ version.event # "restored" =>
       \E k \in DOMAIN copy.anchors : copy.anchors[k].event = version.event /\ copy.anchors[k].at = version.at
  /\ version.at <= now

\* restoreVersion, one version after another; a version already recorded is
\* left alone.
ImportVersion ==
  LET s == importing.to
      version == artifact.copy.versions[importing.step]
  IN
  /\ importing # Idle
  /\ importing.step \in DOMAIN artifact.copy.versions
  /\ IF Fits(version, held[s])
     THEN /\ held' = IF \E k \in DOMAIN held[s].versions : held[s].versions[k].id = version.id
                     THEN held
                     ELSE [held EXCEPT ![s].versions = Append(@, version)]
          /\ importing' = [importing EXCEPT !.step = @ + 1]
          /\ disturbed' = disturbed
     ELSE importing' = Idle /\ disturbed' = TRUE /\ held' = held
  /\ UNCHANGED <<now, artifact, changes, exports, believed>>

\* The import is done, or its process stops part-way.
EndImport ==
  /\ importing # Idle
  /\ importing' = Idle
  /\ disturbed' = (disturbed \/ importing.step \in DOMAIN artifact.copy.versions)
  /\ UNCHANGED <<now, held, artifact, changes, exports, believed>>

Tick ==
  /\ now < MaxMoment
  /\ now' = now + 1
  /\ believed' = [h \in Holder |->
       [believed[h] EXCEPT ![now + 1] = {IF h = File THEN artifact.copy.image ELSE held[h].image} \ {None}]]
  /\ UNCHANGED <<held, artifact, importing, changes, exports, disturbed>>

Next ==
  \/ \E s \in Store, image \in State : Update(s, image)
  \/ \E s \in Store : Export(s)
  \/ \E s \in Store : StartImport(s)
  \/ ImportNode
  \/ ImportVersion
  \/ EndImport
  \/ Tick

Spec == Init /\ [][Next]_vars

-----------------------------------------------------------------------------

TypeOK ==
  /\ now \in Moment
  /\ held \in [Store -> Copy]
  /\ artifact.copy \in Copy /\ artifact.exportedAt \in Stamp
  /\ importing.to \in Store \cup {None} /\ importing.step \in Nat
  /\ changes.updates \in 0..MaxChanges /\ changes.ids \in Nat
  /\ exports \in 0..MaxExports
  /\ disturbed \in BOOLEAN
  /\ believed \in [Holder -> [Moment -> SUBSET State]]

Holding == {s \in Store : held[s].image # None}

\* An answer marked exact is true: some store, or a backup of one, did hold that
\* image at that moment, through updates in either store, imports over an existing
\* fact in both directions and changes of one millisecond, as long as each import
\* ran to its end undisturbed.  (explains.)
ExactReadsAreTrue ==
  \A s \in Holding, at \in 0..now :
    LET read == NodeAsOf(held[s], at) IN
    ~disturbed /\ read.exact /\ read.state # None => \E h \in Holder : read.state \in believed[h][at]

\* At a moment when the store itself held the fact, an exact answer is what it
\* held then: a history joined from another store's is not served as its own.
\* "Each part is what that store believed, and the join is marked"
\* (src/docs/SPEC.md:81).
JoinsAreMarked ==
  \A s \in Holding, at \in 0..now :
    LET read == NodeAsOf(held[s], at) IN
    read.exact /\ believed[s][at] # {} => read.state \in believed[s][at]

\* The store a fact was written to, if nothing was ever imported into it, answers
\* every read exactly.
OwnReadsAreExact ==
  (\A k \in DOMAIN held[Origin].versions : held[Origin].versions[k].event # "restored")
    /\ Holding = {Origin} => \A at \in 0..now : NodeAsOf(held[Origin], at).exact

\* However often stores import from each other, no record runs further ahead of
\* the clock than the millisecond that sorts a "restored" version behind the
\* copy it came with.  (stampAfter; validatePortable's exportedAt.)
StampsKeepToTheClock == \A s \in Store : \A at \in Record(held[s]) : at <= now + 1

\* A read as of a moment tells what was, and says when it cannot.
ReadsAreTrue == TypeOK /\ ExactReadsAreTrue /\ OwnReadsAreExact /\ StampsKeepToTheClock
=============================================================================
