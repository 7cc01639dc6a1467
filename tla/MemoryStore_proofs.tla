-------------------------- MODULE MemoryStore_proofs --------------------------
(***************************************************************************)
(* What holds of a store (MemoryStore) for any number of facts, images,    *)
(* moments and any behaviour of the clock and of imports.                  *)
(***************************************************************************)
EXTENDS MemoryStore, WellFoundedInduction, TLAPS

\* The latest of some moments is one of them, and none of them is later.
LEMMA LatestMoment ==
  ASSUME NEW S \in SUBSET Moment, S # {}
  PROVE  Max(S) \in S /\ \A t \in S : t <= Max(S)
  <1> DEFINE T == {MaxMoment - t : t \in S}
  <1>1. MaxMoment \in Nat /\ Moment = 0..MaxMoment
    BY BoundsAssumption DEF Moment
  <1>2. T \subseteq Nat /\ T # {}
    <2>1. \A t \in S : MaxMoment - t \in Nat
      BY <1>1
    <2>2. PICK t \in S : TRUE
      OBVIOUS
    <2>3. QED
      BY <2>1, <2>2
  <1> DEFINE Less == {ss \in Nat \X Nat : ss[1] < ss[2]}
  <1>3. PICK d \in T : \A e \in T : ~ (<<e, d>> \in Less)
    <2>1. IsWellFoundedOn(Less, Nat)
      BY NatLessThanWellFounded DEF OpToRel
    <2> HIDE DEF T, Less
    <2>2. QED
      BY <1>2, <2>1, WFMin
  <1>4. \A e \in T : d <= e
    <2> HIDE DEF T
    <2> SUFFICES ASSUME NEW e \in T PROVE d <= e
      OBVIOUS
    <2>1. d \in Nat /\ e \in Nat
      BY <1>2, <1>3
    <2>2. <<e, d>> \in Nat \X Nat /\ <<e, d>>[1] = e /\ <<e, d>>[2] = d
      BY <2>1
    <2>3. ~ (e < d)
      BY <1>3, <2>2
    <2>4. QED
      BY <2>1, <2>3
  <1>5. PICK m \in S : d = MaxMoment - m
    OBVIOUS
  <1>6. \A t \in S : m >= t
    <2> SUFFICES ASSUME NEW t \in S PROVE m >= t
      OBVIOUS
    <2>1. MaxMoment - t \in T
      OBVIOUS
    <2>2. MaxMoment - m <= MaxMoment - t
      BY <1>4, <1>5, <2>1
    <2>3. QED
      BY <1>1, <2>2
  <1>7. Max(S) \in S /\ \A t \in S : Max(S) >= t
    BY <1>6 DEF Max
  <1>8. QED
    BY <1>1, <1>7

LEMMA EntriesOfSeq ==
  ASSUME NEW S, NEW s \in Seq(S)
  PROVE  DOMAIN s = 1..Len(s) /\ Len(s) \in Nat /\ \A k \in DOMAIN s : s[k] \in S
  OBVIOUS

LEMMA AppendedSeq ==
  ASSUME NEW S, NEW s \in Seq(S), NEW x \in S
  PROVE  /\ Append(s, x) \in Seq(S)
         /\ Len(Append(s, x)) = Len(s) + 1
         /\ \A k \in 1..Len(s) : Append(s, x)[k] = s[k]
         /\ Append(s, x)[Len(s) + 1] = x
         /\ Append(s, x) # <<>>
  OBVIOUS

-----------------------------------------------------------------------------
(* Types.                                                                  *)

LEMMA RecordIsMoments ==
  ASSUME TypeOK, NEW n \in Stored
  PROVE  Record(n) \in SUBSET Moment /\ Record(n) # {}
  <1>1. facts[n] \in Fact /\ versions[n] \in Seq(Version) /\ clock \in Moment
    BY DEF TypeOK, IsMap, Stored
  <1>2. \A k \in DOMAIN facts[n].anchors : facts[n].anchors[k].at \in Moment
    <2>1. facts[n].anchors \in Seq(Anchor)
      BY <1>1 DEF Fact
    <2>2. \A k \in DOMAIN facts[n].anchors : facts[n].anchors[k] \in Anchor
      BY <2>1, EntriesOfSeq
    <2>3. QED
      BY <2>2 DEF Anchor
  <1>3. \A k \in DOMAIN versions[n] : versions[n][k].at \in Moment
    <2>1. \A k \in DOMAIN versions[n] : versions[n][k] \in Version
      BY <1>1, EntriesOfSeq
    <2>2. QED
      BY <2>1 DEF Version
  <1>4. QED
    BY <1>1, <1>2, <1>3 DEF Record

LEMMA StampForIsMoment ==
  ASSUME TypeOK, NEW n \in Stored
  PROVE  StampFor(n) \in Moment /\ \A t \in Record(n) : t <= StampFor(n)
  BY RecordIsMoments, LatestMoment DEF StampFor

LEMMA AmendedIsFact ==
  ASSUME TypeOK, NEW n \in Stored, NEW image \in Image, NEW event \in Event \cup {"modified"}
  PROVE  /\ Amended(n, image, event) \in Fact
         /\ Amended(n, image, event).content = facts[n].content
         /\ Amended(n, image, event).image = image
         /\ Amended(n, image, event).anchors = Append(facts[n].anchors, [at |-> StampFor(n), event |-> event])
         /\ Recorded(n, image, event) \in Seq(Version)
         /\ Recorded(n, image, event) = Append(versions[n],
              [at |-> StampFor(n), event |-> event, before |-> facts[n].image, after |-> image])
  <1>1. facts[n] \in Fact /\ versions[n] \in Seq(Version)
    BY DEF TypeOK, IsMap, Stored
  <1>2. [at |-> StampFor(n), event |-> event] \in Anchor
    BY StampForIsMoment DEF Anchor
  <1>3. [at |-> StampFor(n), event |-> event, before |-> facts[n].image, after |-> image] \in Version
    BY <1>1, StampForIsMoment DEF Version, Fact
  <1>4. facts[n].anchors \in Seq(Anchor) /\ facts[n] = [content |-> facts[n].content, anchors |-> facts[n].anchors, image |-> facts[n].image]
    BY <1>1 DEF Fact
  <1>5. Append(facts[n].anchors, [at |-> StampFor(n), event |-> event]) \in Seq(Anchor)
    BY <1>2, <1>4, AppendedSeq
  <1>6. QED
    BY <1>1, <1>3, <1>4, <1>5, AppendedSeq DEF Amended, Recorded, Fact

LEMMA RetractedIsImage ==
  ASSUME TypeOK, NEW n \in Stored, NEW until \in Moment \cup {Null}
  PROVE  Retracted(n, until) \in Image /\ Retracted(n, until).validTo = until /\ Retracted(n, until).retracted
  <1>1. facts[n].image \in Image
    BY DEF TypeOK, IsMap, Stored, Fact
  <1>2. QED
    BY <1>1 DEF Retracted, Image

LEMMA PutIsMap ==
  ASSUME NEW K, NEW V, NEW map, IsMap(map, K, V), NEW k \in K, NEW v \in V
  PROVE  IsMap(Put(map, k, v), K, V)
  BY DEF IsMap, Put

\* What the actions keep, action by action.
LEMMA InitTypeOK == Init => TypeOK
  <1> SUFFICES ASSUME Init PROVE TypeOK
    OBVIOUS
  <1>1. IsMap(<<>>, Id, Fact) /\ IsMap(<<>>, LinkId, Link)
    BY DEF IsMap
  <1>2. [n \in Id |-> <<>>] \in [Id -> Seq(Version)]
    OBVIOUS
  <1>3. clock \in Moment
    BY ClocksAssumption DEF Init
  <1>4. QED
    BY <1>1, <1>2, <1>3 DEF NoBackup, Init, TypeOK, BackupOK

LEMMA UpdateTypeOK ==
  ASSUME TypeOK, NEW n \in Id, NEW image \in Image, NEW event \in Event, UpdateNode(n, image, event)
  PROVE  TypeOK'
  <1> DEFINE gone == Withdrawn(n, image)
  <1>1. n \in Stored /\ Stored \subseteq Id
    BY DEF UpdateNode, TypeOK, IsMap, Stored
  <1>2. \A m \in Stored : /\ facts[m] \in Fact
                          /\ Amended(m, image, event) \in Fact
                          /\ Recorded(m, image, event) \in Seq(Version)
    BY AmendedIsFact DEF TypeOK, IsMap, Stored
  <1>3. \A m \in Stored : /\ Amended(m, Retracted(m, image.validTo), "modified") \in Fact
                          /\ Recorded(m, Retracted(m, image.validTo), "modified") \in Seq(Version)
    <2>1. image.validTo \in Moment \cup {Null}
      BY DEF Image
    <2>2. QED
      BY <2>1, AmendedIsFact, RetractedIsImage
  <1>4. gone \subseteq Stored
    BY DEF Withdrawn, RetractionsFor, DependentsOf, Among, Sources
  <1> HIDE DEF gone
  <1>5. /\ facts' = [m \in Stored |->
              IF m = n THEN Amended(m, image, event)
              ELSE IF m \in gone THEN Amended(m, Retracted(m, image.validTo), "modified")
              ELSE facts[m]]
        /\ versions' = [m \in Id |->
              IF m = n THEN Recorded(m, image, event)
              ELSE IF m \in gone THEN Recorded(m, Retracted(m, image.validTo), "modified")
              ELSE versions[m]]
        /\ UNCHANGED <<links, embeddings, clock, minted, backup, imported>>
    BY DEF UpdateNode, gone
  <1>6. IsMap(facts', Id, Fact)
    BY <1>1, <1>2, <1>3, <1>5 DEF IsMap
  <1>7. versions' \in [Id -> Seq(Version)]
    BY <1>1, <1>2, <1>3, <1>4, <1>5 DEF TypeOK
  <1>8. QED
    BY <1>5, <1>6, <1>7 DEF TypeOK, BackupOK

LEMMA DeleteTypeOK ==
  ASSUME TypeOK, NEW n \in Id, DeleteNode(n)
  PROVE  TypeOK'
  <1> DEFINE kept == {e \in DOMAIN links : {links[e].from, links[e].to} \cap Erased(n) = {}}
  <1>1. /\ facts' = [m \in Stored \ Erased(n) |-> facts[m]]
        /\ versions' = [m \in Id |-> IF m \in Erased(n) THEN <<>> ELSE versions[m]]
        /\ links' = [e \in kept |-> links[e]]
        /\ embeddings' = {v \in embeddings : v[1] \notin Erased(n)}
        /\ UNCHANGED <<clock, minted, backup, imported>>
    BY DEF DeleteNode
  <1>2. IsMap(facts', Id, Fact)
    BY <1>1 DEF TypeOK, IsMap, Stored
  <1>3. versions' \in [Id -> Seq(Version)]
    BY <1>1 DEF TypeOK
  <1>4. IsMap(links', LinkId, Link)
    BY <1>1 DEF TypeOK, IsMap
  <1>5. embeddings' \in SUBSET (Id \X Model)
    BY <1>1 DEF TypeOK
  <1>6. QED
    BY <1>1, <1>2, <1>3, <1>4, <1>5 DEF TypeOK, BackupOK

LEMMA RestoreNodeTypeOK ==
  ASSUME TypeOK, NEW n \in Id, NEW incoming \in Fact, RestoreNode(n, incoming)
  PROVE  TypeOK'
  <1>1. IsMap(facts', Id, Fact)
    BY PutIsMap DEF TypeOK, RestoreNode
  <1>2. versions' \in [Id -> Seq(Version)]
    <2>1. CASE n \in Stored /\ facts[n].image # incoming.image
      <3> DEFINE restored == [at     |-> StampAfter(n, incoming), event |-> "restored",
                              before |-> facts[n].image, after |-> incoming.image]
      <3>1. facts[n] \in Fact /\ versions[n] \in Seq(Version)
        BY <2>1 DEF TypeOK, IsMap, Stored
      <3>2. StampAfter(n, incoming) \in Moment /\ versions' = [versions EXCEPT ![n] = Append(@, restored)]
        BY <2>1 DEF RestoreNode
      <3>3. restored \in Version
        BY <3>1, <3>2 DEF Version, Fact
      <3> HIDE DEF restored
      <3>4. Append(versions[n], restored) \in Seq(Version)
        BY <3>1, <3>3, AppendedSeq
      <3>5. QED
        BY <3>2, <3>4 DEF TypeOK
    <2>2. CASE ~ (n \in Stored /\ facts[n].image # incoming.image)
      BY <2>2 DEF TypeOK, RestoreNode
    <2>3. QED
      BY <2>1, <2>2
  <1>3. QED
    BY <1>1, <1>2 DEF TypeOK, BackupOK, RestoreNode

LEMMA CopiesAreFacts ==
  ASSUME TypeOK, NEW n \in DOMAIN backup.facts, NEW incoming \in Copies(n)
  PROVE  n \in Id /\ incoming \in Fact
  <1>1. n \in Id /\ backup.facts[n] \in Fact
    BY DEF TypeOK, BackupOK, IsMap
  <1>2. CASE incoming = backup.facts[n]
    BY <1>1, <1>2
  <1>3. ASSUME NEW at \in Moment, NEW image \in Images,
               incoming = ChangedElsewhere(backup.facts[n], at, image)
        PROVE  incoming \in Fact
    <2>1. [at |-> at, event |-> "modified"] \in Anchor /\ backup.facts[n].anchors \in Seq(Anchor) /\ image \in Image
      BY <1>1, ImagesAssumption DEF Anchor, Fact
    <2>2. Append(backup.facts[n].anchors, [at |-> at, event |-> "modified"]) \in Seq(Anchor)
      BY <2>1, AppendedSeq
    <2>3. QED
      BY <1>1, <1>3, <2>1, <2>2 DEF Fact, ChangedElsewhere
  <1>4. \/ incoming = backup.facts[n]
        \/ \E at \in Moment, image \in Images :
             incoming = ChangedElsewhere(backup.facts[n], at, image)
    BY DEF Copies
  <1>5. QED
    BY <1>1, <1>2, <1>3, <1>4

\* The type invariant: every reachable state of the store has these types, the
\* dates of changes included, although they are computed from the record.
THEOREM StoreTypeOK == Spec => []TypeOK
  <1>1. TypeOK /\ [Next]_vars => TypeOK'
    <2> SUFFICES ASSUME TypeOK, [Next]_vars PROVE TypeOK'
      OBVIOUS
    <2>1. ASSUME NEW n \in Id, NEW content \in Content, NEW image \in Images, AddNode(n, content, image)
          PROVE  TypeOK'
      <3> DEFINE fact == [content |-> content, anchors |-> <<[at |-> clock, event |-> "created"]>>, image |-> image]
      <3>1. [at |-> clock, event |-> "created"] \in Anchor /\ image \in Image
        BY ImagesAssumption DEF TypeOK, Anchor
      <3>2. fact \in Fact
        BY <3>1 DEF Fact
      <3> HIDE DEF fact
      <3>3. IsMap(Put(facts, n, fact), Id, Fact)
        BY <3>2, PutIsMap DEF TypeOK
      <3>4. QED
        BY <2>1, <3>3 DEF AddNode, TypeOK, BackupOK, fact
    <2>2. ASSUME NEW n \in Id, NEW image \in Images, NEW event \in Event, UpdateNode(n, image, event)
          PROVE  TypeOK'
      BY <2>2, UpdateTypeOK, ImagesAssumption
    <2>3. ASSUME NEW n \in Id, DeleteNode(n) PROVE TypeOK'
      BY <2>3, DeleteTypeOK
    <2>4. ASSUME NEW e \in LinkId, NEW link \in Link, AddEdge(e, link) PROVE TypeOK'
      BY <2>4, PutIsMap DEF AddEdge, TypeOK, BackupOK
    <2>5. ASSUME NEW e \in LinkId, DeleteEdge(e) PROVE TypeOK'
      BY <2>5 DEF DeleteEdge, TypeOK, BackupOK, IsMap
    <2>6. ASSUME NEW n \in Id, NEW model \in Model, SetEmbedding(n, model) PROVE TypeOK'
      BY <2>6 DEF SetEmbedding, TypeOK, BackupOK
    <2>7. ASSUME NEW n \in Id, NEW models, DeleteEmbeddings(n, models) PROVE TypeOK'
      BY <2>7 DEF DeleteEmbeddings, TypeOK, BackupOK
    <2>8. ASSUME NEW n \in DOMAIN backup.facts, NEW incoming \in Copies(n), RestoreNode(n, incoming)
          PROVE  TypeOK'
      BY <2>8, CopiesAreFacts, RestoreNodeTypeOK
    <2>9. ASSUME NEW n \in DOMAIN backup.facts, NEW k \in DOMAIN backup.versions[n],
                 RestoreVersion(n, backup.versions[n][k])
          PROVE  TypeOK'
      <3>1. n \in Id /\ backup.versions[n] \in Seq(Version) /\ versions[n] \in Seq(Version)
        BY DEF TypeOK, BackupOK, IsMap
      <3>2. Append(versions[n], backup.versions[n][k]) \in Seq(Version)
        BY <3>1, AppendedSeq, EntriesOfSeq
      <3>3. QED
        BY <2>9, <3>1, <3>2 DEF RestoreVersion, TypeOK, BackupOK
    <2>10. ASSUME NEW e \in DOMAIN backup.links, RestoreEdge(e, backup.links[e]) PROVE TypeOK'
      <3>1. e \in LinkId /\ backup.links[e] \in Link
        BY DEF TypeOK, BackupOK, IsMap
      <3>2. QED
        BY <2>10, <3>1, PutIsMap DEF RestoreEdge, TypeOK, BackupOK
    <2>11. CASE Export
      BY <2>11 DEF Export, TypeOK, BackupOK
    <2>12. ASSUME NEW at \in Clocks, SetClock(at) PROVE TypeOK'
      BY <2>12, ClocksAssumption DEF SetClock, TypeOK, BackupOK
    <2>13. CASE UNCHANGED vars
      BY <2>13 DEF vars, TypeOK, BackupOK
    <2>14. QED
      BY <2>1, <2>2, <2>3, <2>4, <2>5, <2>6, <2>7, <2>8, <2>9, <2>10, <2>11, <2>12, <2>13
      DEF Next, Write, Import
  <1>2. QED
    BY InitTypeOK, <1>1, PTL DEF Spec

-----------------------------------------------------------------------------
(* Rows and facts.                                                         *)

LEMMA StoredAfterPut ==
  ASSUME NEW n, NEW v, facts' = Put(facts, n, v)
  PROVE  Stored' = Stored \cup {n} /\ facts'[n] = v /\ \A m \in Stored \ {n} : facts'[m] = facts[m]
  BY DEF Put, Stored

LEMMA WithdrawnAreStored ==
  ASSUME NEW n, NEW image
  PROVE  Withdrawn(n, image) \subseteq Stored \ {n}
  BY DEF Withdrawn, RetractionsFor, DependentsOf, Among, Sources

LEMMA ErasedAreStored ==
  ASSUME NEW n
  PROVE  Erased(n) \ {n} \subseteq Stored
  BY DEF Erased, DependentsOf, Sources

\* An erasure leaves only rows of facts that are left: a link is dropped when
\* either end goes, a history and a vector when its fact goes.
LEMMA DeleteKeepsRows ==
  ASSUME TypeOK, RowsHaveFacts, NEW n \in Id, DeleteNode(n)
  PROVE  RowsHaveFacts'
  <1> DEFINE kept == {e \in DOMAIN links : {links[e].from, links[e].to} \cap Erased(n) = {}}
  <1>1. /\ Stored' = Stored \ Erased(n)
        /\ versions' = [m \in Id |-> IF m \in Erased(n) THEN <<>> ELSE versions[m]]
        /\ links' = [e \in kept |-> links[e]]
        /\ embeddings' = {v \in embeddings : v[1] \notin Erased(n)}
    BY DEF DeleteNode, Stored
  <1>2. \A m \in Id : versions'[m] # <<>> => m \in Stored'
    BY <1>1 DEF RowsHaveFacts
  <1>3. \A e \in DOMAIN links' : links'[e].from \in Stored' /\ links'[e].to \in Stored'
    BY <1>1 DEF RowsHaveFacts
  <1>4. \A v \in embeddings' : v[1] \in Stored'
    BY <1>1 DEF RowsHaveFacts
  <1>5. QED
    BY <1>2, <1>3, <1>4 DEF RowsHaveFacts

\* For every number of facts and links, no version, link or vector ever belongs
\* to a fact that is not stored, after any erasures and imports.
THEOREM StoreRowsHaveFacts == Spec => []RowsHaveFacts
  <1>1. Init => RowsHaveFacts
    BY DEF Init, RowsHaveFacts, Stored
  <1>2. TypeOK /\ RowsHaveFacts /\ [Next]_vars => RowsHaveFacts'
    <2> SUFFICES ASSUME TypeOK, RowsHaveFacts, [Next]_vars PROVE RowsHaveFacts'
      OBVIOUS
    <2>1. ASSUME NEW n \in Id, NEW content \in Content, NEW image \in Images, AddNode(n, content, image)
          PROVE  RowsHaveFacts'
      BY <2>1, StoredAfterPut DEF AddNode, RowsHaveFacts
    <2>2. ASSUME NEW n \in Id, NEW image \in Images, NEW event \in Event, UpdateNode(n, image, event)
          PROVE  RowsHaveFacts'
      <3>1. Stored' = Stored
        BY <2>2 DEF UpdateNode, Stored
      <3>2. \A m \in Id : m = n \/ m \in Withdrawn(n, image) \/ versions'[m] = versions[m]
        BY <2>2 DEF UpdateNode
      <3>3. n \in Stored /\ Withdrawn(n, image) \subseteq Stored
        BY <2>2, WithdrawnAreStored DEF UpdateNode
      <3>4. QED
        BY <2>2, <3>1, <3>2, <3>3 DEF UpdateNode, RowsHaveFacts
    <2>3. ASSUME NEW n \in Id, DeleteNode(n) PROVE RowsHaveFacts'
      BY <2>3, DeleteKeepsRows
    <2>4. ASSUME NEW e \in LinkId, NEW link \in Link, AddEdge(e, link) PROVE RowsHaveFacts'
      BY <2>4 DEF AddEdge, RowsHaveFacts, Put, Stored
    <2>5. ASSUME NEW e \in LinkId, DeleteEdge(e) PROVE RowsHaveFacts'
      BY <2>5 DEF DeleteEdge, RowsHaveFacts, Stored
    <2>6. ASSUME NEW n \in Id, NEW model \in Model, SetEmbedding(n, model) PROVE RowsHaveFacts'
      BY <2>6 DEF SetEmbedding, RowsHaveFacts, Stored
    <2>7. ASSUME NEW n \in Id, NEW models, DeleteEmbeddings(n, models) PROVE RowsHaveFacts'
      BY <2>7 DEF DeleteEmbeddings, RowsHaveFacts, Stored
    <2>8. ASSUME NEW n \in DOMAIN backup.facts, NEW incoming \in Copies(n), RestoreNode(n, incoming)
          PROVE  RowsHaveFacts'
      <3>1. Stored' = Stored \cup {n} /\ UNCHANGED <<links, embeddings>>
        BY <2>8, StoredAfterPut DEF RestoreNode
      <3>2. \A m \in Id : versions'[m] # versions[m] => m = n
        BY <2>8 DEF RestoreNode, TypeOK
      <3>3. QED
        BY <3>1, <3>2 DEF RowsHaveFacts
    <2>9. ASSUME NEW n \in DOMAIN backup.facts, NEW version, RestoreVersion(n, version)
          PROVE  RowsHaveFacts'
      <3>1. n \in Stored /\ Stored' = Stored /\ UNCHANGED <<links, embeddings>>
        BY <2>9 DEF RestoreVersion, Stored
      <3>2. \A m \in Id : versions'[m] # versions[m] => m = n
        BY <2>9 DEF RestoreVersion, TypeOK
      <3>3. QED
        BY <3>1, <3>2 DEF RowsHaveFacts
    <2>10. ASSUME NEW e, NEW link, RestoreEdge(e, link) PROVE RowsHaveFacts'
      BY <2>10 DEF RestoreEdge, RowsHaveFacts, Put, Stored
    <2>11. CASE Export \/ (\E at \in Clocks : SetClock(at)) \/ UNCHANGED vars
      BY <2>11 DEF Export, SetClock, vars, RowsHaveFacts, Stored
    <2>12. QED
      BY <2>1, <2>2, <2>3, <2>4, <2>5, <2>6, <2>7, <2>8, <2>9, <2>10, <2>11 DEF Next, Write, Import
  <1>3. QED
    BY <1>1, <1>2, StoreTypeOK, PTL DEF Spec

-----------------------------------------------------------------------------
(* Trails and histories.                                                   *)

\* What an update does to one fact.
ChangesTo(m, image, event) ==
  facts'[m] = Amended(m, image, event) /\ versions'[m] = Recorded(m, image, event)

\* An update changes its target and the withdrawn conclusions as applyUpdate
\* does, and no other fact.
LEMMA UpdateChanges ==
  ASSUME TypeOK, NEW n \in Id, NEW image \in Images, NEW event \in Event, UpdateNode(n, image, event)
  PROVE  /\ n \in Stored /\ Stored' = Stored /\ image \in Image
         /\ ChangesTo(n, image, event)
         /\ \A m \in Withdrawn(n, image) :
              /\ m \in Stored \ {n}
              /\ Retracted(m, image.validTo) \in Image
              /\ ChangesTo(m, Retracted(m, image.validTo), "modified")
         /\ \A m \in Id \ ({n} \cup Withdrawn(n, image)) :
              versions'[m] = versions[m] /\ (m \in Stored => facts'[m] = facts[m])
  <1>1. n \in Stored /\ Stored' = Stored /\ Stored \subseteq Id /\ image \in Image
    BY ImagesAssumption DEF UpdateNode, Stored, TypeOK, IsMap
  <1>2. Withdrawn(n, image) \subseteq Stored \ {n}
    BY WithdrawnAreStored
  <1>3. image.validTo \in Moment \cup {Null}
    BY <1>1 DEF Image
  <1>4. \A m \in Withdrawn(n, image) : Retracted(m, image.validTo) \in Image
    BY <1>2, <1>3, RetractedIsImage
  <1>5. ChangesTo(n, image, event)
    BY <1>1 DEF UpdateNode, ChangesTo
  <1>6. \A m \in Withdrawn(n, image) : ChangesTo(m, Retracted(m, image.validTo), "modified")
    BY <1>1, <1>2 DEF UpdateNode, ChangesTo
  <1>7. \A m \in Id \ ({n} \cup Withdrawn(n, image)) :
          versions'[m] = versions[m] /\ (m \in Stored => facts'[m] = facts[m])
    BY <1>1 DEF UpdateNode
  <1>8. QED
    BY <1>1, <1>2, <1>4, <1>5, <1>6, <1>7

LEMMA ChangeJoinsUp ==
  ASSUME TypeOK, NEW m \in Stored, NEW image \in Image, NEW event \in Event \cup {"modified"},
         ChangesTo(m, image, event), JoinsUp(m)
  PROVE  JoinsUp(m)'
  <1> DEFINE anchors == facts[m].anchors
             history == versions[m]
             anchor  == [at |-> StampFor(m), event |-> event]
             version == [at |-> StampFor(m), event |-> event, before |-> facts[m].image, after |-> image]
  <1>1. anchors \in Seq(Anchor) /\ history \in Seq(Version) /\ anchor \in Anchor /\ version \in Version
    BY StampForIsMoment DEF TypeOK, IsMap, Stored, Fact, Anchor, Version
  <1>2. /\ facts'[m].anchors = Append(anchors, anchor)
        /\ facts'[m].image = image
        /\ versions'[m] = Append(history, version)
    BY AmendedIsFact DEF ChangesTo
  <1>3. /\ Len(history) \in Nat /\ Len(anchors) = Len(history) + 1
        /\ \A k \in 1..Len(history) :
             /\ history[k].at = anchors[k + 1].at
             /\ history[k].event = anchors[k + 1].event
             /\ k < Len(history) => history[k].after = history[k + 1].before
             /\ k = Len(history) => history[k].after = facts[m].image
    BY <1>1, EntriesOfSeq DEF JoinsUp
  <1> DEFINE n == Len(history)
  <1>4. /\ Len(versions'[m]) = n + 1 /\ Len(facts'[m].anchors) = n + 2
        /\ \A k \in 1..n : versions'[m][k] = history[k]
        /\ \A k \in 1..(n + 1) : facts'[m].anchors[k] = anchors[k]
        /\ versions'[m][n + 1] = version
        /\ facts'[m].anchors[n + 2] = anchor
    <2> HIDE DEF anchors, history, anchor, version
    <2>1. QED
      BY <1>1, <1>2, <1>3, AppendedSeq
  <1>5. version.at = anchor.at /\ version.event = anchor.event
        /\ version.before = facts[m].image /\ version.after = image
    OBVIOUS
  <1> HIDE DEF anchors, history, anchor, version
  <1>6. ASSUME NEW k \in 1..(n + 1)
        PROVE  /\ versions'[m][k].at = facts'[m].anchors[k + 1].at
               /\ versions'[m][k].event = facts'[m].anchors[k + 1].event
               /\ k < n + 1 => versions'[m][k].after = versions'[m][k + 1].before
               /\ k = n + 1 => versions'[m][k].after = facts'[m].image
    <2>1. n \in Nat
      BY <1>3
    <2>2. CASE k = n + 1
      BY <1>2, <1>4, <1>5, <2>1, <2>2
    <2>3. CASE k = n
      <3>1. k \in 1..n /\ k + 1 = n + 1 /\ k + 1 \in 1..(n + 1)
        BY <2>1, <2>3
      <3>2. versions'[m][k] = history[k] /\ facts'[m].anchors[k + 1] = anchors[k + 1]
        BY <1>4, <3>1
      <3>3. /\ history[k].at = anchors[k + 1].at /\ history[k].event = anchors[k + 1].event
            /\ history[k].after = facts[m].image
        BY <1>3, <2>3, <3>1
      <3>4. versions'[m][k + 1].before = facts[m].image
        BY <1>4, <1>5, <2>3
      <3>5. k < n + 1 /\ k # n + 1
        BY <2>1, <2>3
      <3>6. QED
        BY <3>2, <3>3, <3>4, <3>5
    <2>4. CASE k < n
      <3>1. k \in 1..n /\ k + 1 \in 1..n /\ k + 1 \in 1..(n + 1) /\ k # n + 1
        BY <2>1, <2>4
      <3>2. QED
        BY <1>3, <1>4, <2>4, <3>1
    <2>5. QED
      BY <2>1, <2>2, <2>3, <2>4
  <1>7. QED
    BY <1>4, <1>6 DEF JoinsUp

LEMMA UntouchedJoinsUp ==
  ASSUME NEW m, facts'[m] = facts[m], versions'[m] = versions[m], JoinsUp(m)
  PROVE  JoinsUp(m)'
  BY DEF JoinsUp

\* An id is handed out once, so a fresh fact has no history to join.
StoredAreMinted == Stored \subseteq minted

LEMMA MintedInvariant == Spec => []StoredAreMinted
  <1>1. Init => StoredAreMinted
    BY DEF Init, StoredAreMinted, Stored
  <1>2. StoredAreMinted /\ [Next]_vars => StoredAreMinted'
    <2> SUFFICES ASSUME StoredAreMinted, [Next]_vars PROVE Stored' \subseteq minted'
      BY DEF StoredAreMinted
    <2> USE DEF StoredAreMinted, Stored, Put
    <2>1. ASSUME NEW n, NEW content, NEW image, AddNode(n, content, image) PROVE Stored' \subseteq minted'
      BY <2>1 DEF AddNode
    <2>2. ASSUME NEW n, NEW image, NEW event, UpdateNode(n, image, event) PROVE Stored' \subseteq minted'
      BY <2>2 DEF UpdateNode
    <2>3. ASSUME NEW n, DeleteNode(n) PROVE Stored' \subseteq minted'
      BY <2>3 DEF DeleteNode
    <2>4. ASSUME NEW e, NEW link, AddEdge(e, link) \/ RestoreEdge(e, link) \/ DeleteEdge(e) PROVE Stored' \subseteq minted'
      BY <2>4 DEF AddEdge, RestoreEdge, DeleteEdge
    <2>5. ASSUME NEW n, NEW model, SetEmbedding(n, model) \/ DeleteEmbeddings(n, model) PROVE Stored' \subseteq minted'
      BY <2>5 DEF SetEmbedding, DeleteEmbeddings
    <2>6. ASSUME NEW n, NEW incoming, RestoreNode(n, incoming) PROVE Stored' \subseteq minted'
      BY <2>6 DEF RestoreNode
    <2>7. ASSUME NEW n, NEW version, RestoreVersion(n, version) PROVE Stored' \subseteq minted'
      BY <2>7 DEF RestoreVersion
    <2>8. CASE Export \/ (\E at \in Clocks : SetClock(at)) \/ UNCHANGED vars
      BY <2>8 DEF Export, SetClock, vars
    <2>9. QED
      BY <2>1, <2>2, <2>3, <2>4, <2>5, <2>6, <2>7, <2>8 DEF Next, Write, Import
  <1>3. QED
    BY <1>1, <1>2, PTL DEF Spec

\* For every fact no import has touched, whatever updates, cascades, erasures and
\* clock changes there were: its history has one version per change on its
\* trail, each beginning where the one before ended, the last at its state.
THEOREM StoreHistoryJoinsUp == Spec => []HistoryJoinsUp
  <1>1. Init => HistoryJoinsUp
    BY DEF Init, HistoryJoinsUp, Stored
  <1>2. TypeOK /\ RowsHaveFacts /\ StoredAreMinted /\ HistoryJoinsUp /\ [Next]_vars => HistoryJoinsUp'
    <2> SUFFICES ASSUME TypeOK, RowsHaveFacts, StoredAreMinted, HistoryJoinsUp, [Next]_vars,
                        NEW m \in Stored' \ imported'
                 PROVE  JoinsUp(m)'
      BY DEF HistoryJoinsUp
    <2>1. ASSUME NEW n \in Id, NEW content \in Content, NEW image \in Images, AddNode(n, content, image)
          PROVE  JoinsUp(m)'
      <3>1. /\ n \notin Stored /\ versions[n] = <<>>
            /\ Stored' = Stored \cup {n} /\ versions' = versions /\ imported' = imported
            /\ facts'[n].anchors = <<[at |-> clock, event |-> "created"]>>
            /\ \A k \in Stored \ {n} : facts'[k] = facts[k]
        BY <2>1, StoredAfterPut DEF AddNode, StoredAreMinted, RowsHaveFacts
      <3>2. CASE m = n
        <4>1. Len(versions'[m]) = 0 /\ Len(facts'[m].anchors) = 1 /\ 1..0 = {}
          <5>1. versions'[m] = <<>> /\ facts'[m].anchors = <<[at |-> clock, event |-> "created"]>>
            BY <3>1, <3>2
          <5>2. QED
            BY <5>1
        <4>2. QED
          BY <4>1 DEF JoinsUp
      <3>3. CASE m # n
        <4>1. m \in Stored \ imported /\ facts'[m] = facts[m] /\ versions'[m] = versions[m]
          BY <3>1, <3>3
        <4>2. QED
          BY <4>1, UntouchedJoinsUp DEF HistoryJoinsUp
      <3>4. QED
        BY <3>2, <3>3
    <2>2. ASSUME NEW n \in Id, NEW image \in Images, NEW event \in Event, UpdateNode(n, image, event)
          PROVE  JoinsUp(m)'
      <3>1. m \in Stored /\ JoinsUp(m) /\ m \in Id
        BY <2>2, UpdateChanges DEF UpdateNode, HistoryJoinsUp, TypeOK, IsMap, Stored
      <3>2. CASE m = n
        BY <2>2, <3>1, <3>2, UpdateChanges, ChangeJoinsUp
      <3>3. CASE m \in Withdrawn(n, image)
        BY <2>2, <3>1, <3>3, UpdateChanges, ChangeJoinsUp
      <3>4. CASE m \notin {n} \cup Withdrawn(n, image)
        <4>1. versions'[m] = versions[m] /\ facts'[m] = facts[m]
          BY <2>2, <3>1, <3>4, UpdateChanges
        <4>2. QED
          BY <3>1, <4>1, UntouchedJoinsUp
      <3>5. QED
        BY <3>2, <3>3, <3>4
    <2>3. ASSUME NEW n \in Id, DeleteNode(n) PROVE JoinsUp(m)'
      <3>1. m \in Stored \ Erased(n) /\ facts'[m] = facts[m] /\ imported' = imported
        BY <2>3 DEF DeleteNode, Stored
      <3>2. versions'[m] = versions[m]
        BY <2>3, <3>1 DEF DeleteNode, TypeOK, IsMap, Stored
      <3>3. QED
        BY <3>1, <3>2, UntouchedJoinsUp DEF HistoryJoinsUp
    <2>4. ASSUME NEW e, NEW link, AddEdge(e, link) \/ RestoreEdge(e, link) \/ DeleteEdge(e)
          PROVE  JoinsUp(m)'
      BY <2>4, UntouchedJoinsUp DEF AddEdge, RestoreEdge, DeleteEdge, HistoryJoinsUp, Stored
    <2>5. ASSUME NEW n, NEW model, SetEmbedding(n, model) \/ DeleteEmbeddings(n, model)
          PROVE  JoinsUp(m)'
      BY <2>5, UntouchedJoinsUp DEF SetEmbedding, DeleteEmbeddings, HistoryJoinsUp, Stored
    <2>6. ASSUME NEW n, NEW incoming, RestoreNode(n, incoming) PROVE JoinsUp(m)'
      <3>1. m \in Stored \ imported /\ m # n /\ facts'[m] = facts[m]
        BY <2>6, StoredAfterPut DEF RestoreNode
      <3>2. versions'[m] = versions[m]
        BY <2>6, <3>1 DEF RestoreNode, TypeOK
      <3>3. QED
        BY <3>1, <3>2, UntouchedJoinsUp DEF HistoryJoinsUp
    <2>7. ASSUME NEW n, NEW version, RestoreVersion(n, version) PROVE JoinsUp(m)'
      <3>1. m \in Stored \ imported /\ m # n /\ facts'[m] = facts[m] /\ versions'[m] = versions[m]
        BY <2>7 DEF RestoreVersion, Stored, TypeOK
      <3>2. QED
        BY <3>1, UntouchedJoinsUp DEF HistoryJoinsUp
    <2>8. CASE Export \/ (\E at \in Clocks : SetClock(at)) \/ UNCHANGED vars
      BY <2>8, UntouchedJoinsUp DEF Export, SetClock, vars, HistoryJoinsUp, Stored
    <2>9. QED
      BY <2>1, <2>2, <2>3, <2>4, <2>5, <2>6, <2>7, <2>8 DEF Next, Write, Import
  <1>3. QED
    BY <1>1, <1>2, StoreTypeOK, StoreRowsHaveFacts, MintedInvariant, PTL DEF Spec

-----------------------------------------------------------------------------

LEMMA ChangeStaysInOrder ==
  ASSUME TypeOK, NEW m \in Stored, NEW image \in Image, NEW event \in Event \cup {"modified"},
         ChangesTo(m, image, event), InOrder(facts[m])
  PROVE  InOrder(facts'[m])
  <1> DEFINE anchors == facts[m].anchors
             anchor  == [at |-> StampFor(m), event |-> event]
  <1>1. anchors \in Seq(Anchor) /\ anchor \in Anchor
    <2>1. facts[m] \in Fact
      BY DEF TypeOK, IsMap, Stored
    <2>2. anchors \in Seq(Anchor)
      BY <2>1 DEF Fact
    <2>3. anchor \in Anchor
      BY StampForIsMoment DEF Anchor
    <2>4. QED
      BY <2>2, <2>3
  <1>2. facts'[m].anchors = Append(anchors, anchor)
    <2>1. facts'[m] = Amended(m, image, event)
      BY DEF ChangesTo
    <2>2. QED
      BY ZenonT(60), <2>1, AmendedIsFact
  <1>3. \A k \in 1..Len(anchors) : anchors[k].at <= anchor.at
    BY StampForIsMoment, <1>1, EntriesOfSeq DEF Record
  <1>4. \A j, k \in 1..Len(anchors) : j <= k => anchors[j].at <= anchors[k].at
    BY DEF InOrder
  <1>5. anchor.at <= anchor.at /\ Len(anchors) \in Nat
    BY <1>1, StampForIsMoment DEF Moment
  <1> HIDE DEF anchors, anchor
  <1>6. ASSUME NEW j \in 1..(Len(anchors) + 1), NEW k \in 1..(Len(anchors) + 1), j <= k
        PROVE  Append(anchors, anchor)[j].at <= Append(anchors, anchor)[k].at
    <2>1. CASE k \in 1..Len(anchors)
      <3>1. j \in 1..Len(anchors)
        BY <1>5, <1>6, <2>1
      <3>2. QED
        BY <1>1, <1>4, <1>6, <2>1, <3>1, AppendedSeq
    <2>2. CASE k = Len(anchors) + 1
      BY <1>1, <1>3, <1>5, <2>2, AppendedSeq
    <2>3. QED
      BY <1>5, <2>1, <2>2
  <1>7. QED
    BY <1>1, <1>2, <1>6, AppendedSeq DEF InOrder

\* The copies outside the store are in order as well, so imports keep order.
BackupInOrder == \A n \in DOMAIN backup.facts : InOrder(backup.facts[n])

LEMMA CopiesAreInOrder ==
  ASSUME TypeOK, BackupInOrder, NEW n \in DOMAIN backup.facts, NEW incoming \in Copies(n)
  PROVE  InOrder(incoming)
  <1> DEFINE fact == backup.facts[n]
             anchors == fact.anchors
  <1>1. fact \in Fact /\ anchors \in Seq(Anchor) /\ InOrder(fact)
    BY DEF TypeOK, BackupOK, IsMap, Fact, BackupInOrder
  <1>2. ASSUME NEW at \in Moment, NEW image \in Images, at >= Last(anchors).at,
               incoming = ChangedElsewhere(fact, at, image)
        PROVE  InOrder(incoming)
    <2> DEFINE anchor == [at |-> at, event |-> "modified"]
    <2>1. incoming.anchors = Append(anchors, anchor) /\ anchor \in Anchor
      BY <1>1, <1>2 DEF ChangedElsewhere, Fact, Anchor
    <2>2. Len(anchors) \in Nat /\ \A k \in 1..Len(anchors) : anchors[k] \in Anchor
      BY <1>1, EntriesOfSeq
    <2>3. \A j, k \in 1..Len(anchors) : j <= k => anchors[j].at <= anchors[k].at
      BY <1>1 DEF InOrder
    <2>4. \A k \in 1..Len(anchors) : anchors[k].at <= at
      <3> SUFFICES ASSUME NEW k \in 1..Len(anchors) PROVE anchors[k].at <= at
        OBVIOUS
      <3>1. Len(anchors) \in 1..Len(anchors) /\ k <= Len(anchors)
        BY <2>2
      <3>2. anchors[k].at <= anchors[Len(anchors)].at /\ anchors[Len(anchors)].at <= at
        BY <1>2, <2>3, <3>1 DEF Last
      <3>3. anchors[k].at \in Int /\ anchors[Len(anchors)].at \in Int /\ at \in Int
        BY <2>2, <3>1 DEF Anchor, Moment
      <3>4. QED
        BY <3>2, <3>3
    <2> HIDE DEF anchors
    <2>5. ASSUME NEW j \in 1..(Len(anchors) + 1), NEW k \in 1..(Len(anchors) + 1), j <= k
          PROVE  Append(anchors, anchor)[j].at <= Append(anchors, anchor)[k].at
      <3>1. CASE k \in 1..Len(anchors)
        <4>1. j \in 1..Len(anchors)
          BY <2>2, <2>5, <3>1
        <4>2. QED
          BY <1>1, <2>1, <2>3, <2>5, <3>1, <4>1, AppendedSeq
      <3>2. CASE k = Len(anchors) + 1
        <4>1. Append(anchors, anchor)[k].at = at
          BY <1>1, <2>1, <3>2, AppendedSeq
        <4>2. CASE j \in 1..Len(anchors)
          BY <1>1, <2>1, <2>4, <4>1, <4>2, AppendedSeq
        <4>3. CASE j = Len(anchors) + 1
          BY <3>2, <4>1, <4>3 DEF Moment
        <4>4. QED
          BY <2>2, <4>2, <4>3
      <3>3. QED
        BY <2>2, <3>1, <3>2
    <2>6. QED
      BY <1>1, <2>1, <2>5, AppendedSeq DEF InOrder
  <1>3. \/ incoming = fact
        \/ \E at \in Moment, image \in Images : at >= Last(anchors).at /\ incoming = ChangedElsewhere(fact, at, image)
    BY DEF Copies
  <1>4. QED
    BY <1>1, <1>2, <1>3

\* For every fact, imported or not, and any behaviour of the clock: the moments
\* on its trail never run backwards.
THEOREM StoreTrailsInOrder == Spec => []TrailsInOrder
  <1> DEFINE InOrderEverywhere == TrailsInOrder /\ BackupInOrder
  <1>1. Init => InOrderEverywhere
    BY DEF NoBackup, Init, TrailsInOrder, BackupInOrder, Stored
  <1>2. TypeOK /\ InOrderEverywhere /\ [Next]_vars => InOrderEverywhere'
    <2> SUFFICES ASSUME TypeOK, TrailsInOrder, BackupInOrder, [Next]_vars
                 PROVE  TrailsInOrder' /\ BackupInOrder'
      OBVIOUS
    <2>1. ASSUME NEW n \in Id, NEW content \in Content, NEW image \in Images, AddNode(n, content, image)
          PROVE  TrailsInOrder' /\ BackupInOrder'
      <3>1. /\ Stored' = Stored \cup {n} /\ backup' = backup
            /\ facts'[n].anchors = <<[at |-> clock, event |-> "created"]>>
            /\ \A k \in Stored \ {n} : facts'[k] = facts[k]
        BY <2>1, StoredAfterPut DEF AddNode
      <3>2. InOrder(facts'[n])
        <4>1. Len(facts'[n].anchors) = 1 /\ facts'[n].anchors[1].at \in Int
          BY <3>1 DEF TypeOK, Moment
        <4>2. QED
          BY <4>1 DEF InOrder
      <3>3. QED
        BY <3>1, <3>2 DEF TrailsInOrder, BackupInOrder
    <2>2. ASSUME NEW n \in Id, NEW image \in Images, NEW event \in Event, UpdateNode(n, image, event)
          PROVE  TrailsInOrder' /\ BackupInOrder'
      <3> SUFFICES ASSUME NEW m \in Stored' PROVE InOrder(facts'[m])
        BY <2>2 DEF UpdateNode, TrailsInOrder, BackupInOrder
      <3>1. m \in Stored /\ m \in Id /\ InOrder(facts[m])
        BY <2>2, UpdateChanges DEF TrailsInOrder, TypeOK, IsMap, Stored
      <3>2. CASE m = n
        BY <2>2, <3>1, <3>2, UpdateChanges, ChangeStaysInOrder
      <3>3. CASE m \in Withdrawn(n, image)
        BY <2>2, <3>1, <3>3, UpdateChanges, ChangeStaysInOrder
      <3>4. CASE m \notin {n} \cup Withdrawn(n, image)
        BY <2>2, <3>1, <3>4, UpdateChanges
      <3>5. QED
        BY <3>2, <3>3, <3>4
    <2>3. ASSUME NEW n \in Id, DeleteNode(n) PROVE TrailsInOrder' /\ BackupInOrder'
      BY <2>3 DEF DeleteNode, TrailsInOrder, BackupInOrder, Stored
    <2>4. ASSUME NEW e, NEW link, AddEdge(e, link) \/ RestoreEdge(e, link) \/ DeleteEdge(e)
          PROVE  TrailsInOrder' /\ BackupInOrder'
      BY <2>4 DEF AddEdge, RestoreEdge, DeleteEdge, TrailsInOrder, BackupInOrder, Stored
    <2>5. ASSUME NEW n, NEW model, SetEmbedding(n, model) \/ DeleteEmbeddings(n, model)
          PROVE  TrailsInOrder' /\ BackupInOrder'
      BY <2>5 DEF SetEmbedding, DeleteEmbeddings, TrailsInOrder, BackupInOrder, Stored
    <2>6. ASSUME NEW n \in DOMAIN backup.facts, NEW incoming \in Copies(n), RestoreNode(n, incoming)
          PROVE  TrailsInOrder' /\ BackupInOrder'
      <3>1. Stored' = Stored \cup {n} /\ facts'[n] = incoming /\ backup' = backup
            /\ \A k \in Stored \ {n} : facts'[k] = facts[k]
        BY <2>6, StoredAfterPut DEF RestoreNode
      <3>2. InOrder(incoming)
        BY CopiesAreInOrder
      <3>3. QED
        BY <3>1, <3>2 DEF TrailsInOrder, BackupInOrder
    <2>7. ASSUME NEW n, NEW version, RestoreVersion(n, version) PROVE TrailsInOrder' /\ BackupInOrder'
      BY <2>7 DEF RestoreVersion, TrailsInOrder, BackupInOrder, Stored
    <2>8. CASE Export
      BY <2>8 DEF Export, TrailsInOrder, BackupInOrder, Stored
    <2>9. CASE (\E at \in Clocks : SetClock(at)) \/ UNCHANGED vars
      BY <2>9 DEF SetClock, vars, TrailsInOrder, BackupInOrder, Stored
    <2>10. QED
      BY <2>1, <2>2, <2>3, <2>4, <2>5, <2>6, <2>7, <2>8, <2>9 DEF Next, Write, Import
  <1>3. QED
    BY <1>1, <1>2, StoreTypeOK, PTL DEF Spec

-----------------------------------------------------------------------------
(* The record only grows, and erasure takes the conclusions.               *)

LEMMA AppendExtends ==
  ASSUME NEW S, NEW s \in Seq(S), NEW x \in S
  PROVE  IsPrefix(s, Append(s, x)) /\ IsPrefix(s, s)
  <1>1. Len(s) \in Nat /\ Len(Append(s, x)) = Len(s) + 1
    OBVIOUS
  <1>2. SubSeq(s, 1, Len(s)) = SubSeq(Append(s, x), 1, Len(s))
    OBVIOUS
  <1>3. QED
    BY <1>1, <1>2 DEF IsPrefix

\* What RecordOnlyGrows asks of one fact that stays.
Grows(n) ==
  /\ facts'[n].content = facts[n].content
  /\ IsPrefix(facts[n].anchors, facts'[n].anchors)
  /\ IsPrefix(versions[n], versions'[n])

LEMMA UntouchedGrows ==
  ASSUME TypeOK, NEW m \in Stored, facts'[m] = facts[m], versions'[m] = versions[m]
  PROVE  Grows(m)
  <1>1. facts[m].anchors \in Seq(Anchor) /\ versions[m] \in Seq(Version)
    BY DEF TypeOK, IsMap, Stored, Fact
  <1>2. IsPrefix(facts[m].anchors, facts[m].anchors) /\ IsPrefix(versions[m], versions[m])
    BY <1>1 DEF IsPrefix
  <1>3. QED
    BY <1>2 DEF Grows

LEMMA ChangeGrows ==
  ASSUME TypeOK, NEW m \in Stored, NEW image \in Image, NEW event \in Event \cup {"modified"},
         ChangesTo(m, image, event)
  PROVE  Grows(m)
  <1> DEFINE anchor  == [at |-> StampFor(m), event |-> event]
             version == [at |-> StampFor(m), event |-> event, before |-> facts[m].image, after |-> image]
  <1>1. /\ facts[m].anchors \in Seq(Anchor) /\ anchor \in Anchor
        /\ versions[m] \in Seq(Version) /\ version \in Version
    BY StampForIsMoment DEF TypeOK, IsMap, Stored, Fact, Anchor, Version
  <1>2. facts'[m] = Amended(m, image, event) /\ versions'[m] = Recorded(m, image, event)
    BY DEF ChangesTo
  <1>3. /\ facts'[m].content = facts[m].content
        /\ facts'[m].anchors = Append(facts[m].anchors, anchor)
        /\ versions'[m] = Append(versions[m], version)
    BY <1>2, AmendedIsFact
  <1> HIDE DEF anchor, version
  <1>4. QED
    BY <1>1, <1>3, AppendExtends DEF Grows

\* For every store: whatever is updated, withdrawn or imported, a fact that stays
\* keeps its content and everything on its record.
THEOREM StoreRecordOnlyGrows == Spec => RecordOnlyGrows
  <1>1. TypeOK /\ StoredAreMinted /\ [Next]_vars => [\A m \in Stored \cap Stored' : Grows(m)]_vars
    <2> SUFFICES ASSUME TypeOK, StoredAreMinted, Next, NEW m \in Stored \cap Stored' PROVE Grows(m)
      OBVIOUS
    <2>1. ASSUME NEW n \in Id, NEW content, NEW image, AddNode(n, content, image) PROVE Grows(m)
      <3>1. n \notin Stored
        BY <2>1 DEF AddNode, StoredAreMinted
      <3>2. facts'[m] = facts[m] /\ versions'[m] = versions[m]
        BY <2>1, <3>1, StoredAfterPut DEF AddNode
      <3>3. QED
        BY <3>2, UntouchedGrows
    <2>2. ASSUME NEW n \in Id, NEW image \in Images, NEW event \in Event, UpdateNode(n, image, event)
          PROVE  Grows(m)
      <3>1. m \in Id
        BY DEF TypeOK, IsMap, Stored
      <3>2. CASE m = n
        BY <2>2, <3>2, UpdateChanges, ChangeGrows
      <3>3. CASE m \in Withdrawn(n, image)
        BY <2>2, <3>3, UpdateChanges, ChangeGrows
      <3>4. CASE m \notin {n} \cup Withdrawn(n, image)
        BY <2>2, <3>1, <3>4, UpdateChanges, UntouchedGrows
      <3>5. QED
        BY <3>2, <3>3, <3>4
    <2>3. ASSUME NEW n \in Id, DeleteNode(n) PROVE Grows(m)
      <3>1. facts'[m] = facts[m] /\ versions'[m] = versions[m]
        BY <2>3 DEF DeleteNode, Stored, TypeOK, IsMap
      <3>2. QED
        BY <3>1, UntouchedGrows
    <2>4. ASSUME NEW e, NEW link, AddEdge(e, link) \/ RestoreEdge(e, link) \/ DeleteEdge(e) PROVE Grows(m)
      BY <2>4, UntouchedGrows DEF AddEdge, RestoreEdge, DeleteEdge
    <2>5. ASSUME NEW n, NEW model, SetEmbedding(n, model) \/ DeleteEmbeddings(n, model) PROVE Grows(m)
      BY <2>5, UntouchedGrows DEF SetEmbedding, DeleteEmbeddings
    <2>6. ASSUME NEW n \in DOMAIN backup.facts, NEW incoming \in Copies(n), RestoreNode(n, incoming)
          PROVE  Grows(m)
      <3>1. /\ facts'[n] = incoming
            /\ \A k \in Stored \ {n} : facts'[k] = facts[k] /\ versions'[k] = versions[k]
        BY <2>6, StoredAfterPut DEF RestoreNode, TypeOK, IsMap, Stored
      <3>2. CASE m = n
        <4> DEFINE version == [at     |-> StampAfter(n, incoming), event |-> "restored",
                               before |-> facts[n].image, after |-> incoming.image]
        <4>1. incoming.content = facts[n].content /\ IsPrefix(facts[n].anchors, incoming.anchors)
          BY <2>6, <3>2 DEF RestoreNode, Restorable
        <4>2. versions[n] \in Seq(Version) /\ facts[n] \in Fact /\ incoming \in Fact
          BY <3>2, CopiesAreFacts DEF TypeOK, IsMap, Stored
        <4>3. \/ versions'[n] = versions[n]
              \/ version \in Version /\ versions'[n] = Append(versions[n], version)
          BY <2>6, <4>2 DEF RestoreNode, TypeOK, Version, Fact
        <4> HIDE DEF version
        <4>4. IsPrefix(versions[n], versions'[n])
          <5>1. CASE versions'[n] = versions[n]
            BY <4>2, <5>1 DEF IsPrefix
          <5>2. CASE version \in Version /\ versions'[n] = Append(versions[n], version)
            BY <4>2, <5>2, AppendExtends
          <5>3. QED
            BY <4>3, <5>1, <5>2
        <4>5. QED
          BY <3>1, <3>2, <4>1, <4>4 DEF Grows
      <3>3. CASE m # n
        BY <3>1, <3>3, UntouchedGrows
      <3>4. QED
        BY <3>2, <3>3
    <2>7. ASSUME NEW n \in DOMAIN backup.facts, NEW k \in DOMAIN backup.versions[n],
                 RestoreVersion(n, backup.versions[n][k])
          PROVE  Grows(m)
      <3>1. facts' = facts /\ m \in Id
        BY <2>7 DEF RestoreVersion, TypeOK, IsMap, Stored
      <3>2. CASE m = n
        <4>1. versions[n] \in Seq(Version) /\ backup.versions[n] \in Seq(Version)
          BY <3>1, <3>2 DEF TypeOK, BackupOK
        <4>2. backup.versions[n][k] \in Version
          BY <4>1, EntriesOfSeq
        <4>3. versions'[n] = Append(versions[n], backup.versions[n][k])
          BY <2>7, <3>1, <3>2 DEF RestoreVersion, TypeOK
        <4>4. facts[m].anchors \in Seq(Anchor)
          BY DEF TypeOK, IsMap, Stored, Fact
        <4>5. IsPrefix(facts[m].anchors, facts'[m].anchors)
          BY <3>1, <4>4 DEF IsPrefix
        <4>6. IsPrefix(versions[n], versions'[n])
          BY <4>1, <4>2, <4>3, AppendExtends
        <4>7. QED
          BY <3>1, <3>2, <4>5, <4>6 DEF Grows
      <3>3. CASE m # n
        BY <2>7, <3>1, <3>3, UntouchedGrows DEF RestoreVersion, TypeOK
      <3>4. QED
        BY <3>2, <3>3
    <2>8. CASE Export \/ (\E at \in Clocks : SetClock(at))
      BY <2>8, UntouchedGrows DEF Export, SetClock
    <2>9. QED
      BY <2>1, <2>2, <2>3, <2>4, <2>5, <2>6, <2>7, <2>8 DEF Next, Write, Import
  <1>2. [\A m \in Stored \cap Stored' : Grows(m)]_vars =>
          [\A n \in Stored \cap Stored' :
             /\ facts'[n].content = facts[n].content
             /\ IsPrefix(facts[n].anchors, facts'[n].anchors)
             /\ IsPrefix(versions[n], versions'[n])]_vars
    BY DEF Grows
  <1>3. QED
    BY <1>1, <1>2, StoreTypeOK, MintedInvariant, PTL DEF Spec, RecordOnlyGrows

\* What rests on a fact that rests on the root rests on the root.
LEMMA DependentsAreTransitive ==
  ASSUME NEW g, NEW n, NEW m \in DependentsOf(g, n)
  PROVE  DependentsOf(g, m) \subseteq {n} \cup DependentsOf(g, n)
  <1> SUFFICES ASSUME NEW k \in DependentsOf(g, m), k # n,
                      NEW S \in SUBSET (DOMAIN g \cup {n}), n \in S, Closed(g, S)
               PROVE  k \in S
    BY DEF DependentsOf
  <1> DEFINE T == S \cap DOMAIN g
  <1>1. m \in S /\ m \in DOMAIN g
    BY DEF DependentsOf
  <1>2. m \in T /\ T \in SUBSET (DOMAIN g \cup {m})
    BY <1>1
  <1>3. Closed(g, T)
    BY DEF Closed
  <1>4. k \in T
    BY <1>2, <1>3 DEF DependentsOf
  <1>5. QED
    BY <1>4

\* For every number of facts and every graph, circles included: an erasure
\* leaves no conclusion drawn from anything it erased, and takes nothing else.
THEOREM StoreErasureTakesConclusions == Spec => ErasureTakesConclusions
  <1> DEFINE Conclusive ==
        /\ \A n \in Stored \ Stored' : DependentsOf(Sources, n) \cap Stored' = {}
        /\ Stored \ Stored' # {} =>
             \E n \in Id : Stored \ Stored' \subseteq {n} \cup DependentsOf(Sources, n)
  <1>1. Next => Conclusive
    <2> SUFFICES ASSUME Next PROVE Conclusive
      OBVIOUS
    <2>1. CASE \E n \in Id : DeleteNode(n)
      <3>1. PICK n \in Id : Stored' = Stored \ Erased(n)
        BY <2>1 DEF DeleteNode, Stored
      <3>2. ASSUME NEW m \in Stored \ Stored' PROVE DependentsOf(Sources, m) \subseteq Erased(n)
        <4>1. CASE m = n
          BY <4>1 DEF Erased
        <4>2. CASE m \in DependentsOf(Sources, n)
          BY <4>2, DependentsAreTransitive DEF Erased
        <4>3. QED
          BY <3>1, <4>1, <4>2 DEF Erased
      <3>3. QED
        BY <3>1, <3>2 DEF Erased
    <2>2. CASE ~ \E n \in Id : DeleteNode(n)
      <3>1. Stored \subseteq Stored'
        BY <2>2 DEF Next, Write, Import, AddNode, UpdateNode, AddEdge, DeleteEdge, SetEmbedding, DeleteEmbeddings,
                    RestoreNode, RestoreVersion, RestoreEdge, Export, SetClock, Put, Stored
      <3>2. QED
        BY <3>1
    <2>3. QED
      BY <2>1, <2>2
  <1> HIDE DEF Conclusive
  <1>2. [Next]_vars => [Conclusive]_vars
    BY <1>1
  <1>3. Spec => [][Conclusive]_vars
    BY <1>2, PTL DEF Spec
  <1>4. QED
    BY <1>3 DEF ErasureTakesConclusions, Conclusive

-----------------------------------------------------------------------------
(* What a fact takes with it when it stops being true.                     *)

\* What the root itself names as its sources does not matter to what rests on it.
LEMMA RootsOwnSources ==
  ASSUME NEW g, NEW h, NEW root, DOMAIN g = DOMAIN h, \A n \in DOMAIN g \ {root} : g[n] = h[n]
  PROVE  DependentsOf(g, root) = DependentsOf(h, root)
  <1>1. \A S : root \in S => (Closed(g, S) <=> Closed(h, S))
    BY DEF Closed
  <1>2. QED
    BY <1>1 DEF DependentsOf

\* One changed fact: its new state, and one version more.
LEMMA ChangeIsOneVersion ==
  ASSUME TypeOK, NEW m \in Stored, NEW image \in Image, NEW event \in Event \cup {"modified"},
         ChangesTo(m, image, event)
  PROVE  facts'[m].image = image /\ Len(versions'[m]) = Len(versions[m]) + 1
  <1> DEFINE version == [at |-> StampFor(m), event |-> event, before |-> facts[m].image, after |-> image]
  <1>1. versions[m] \in Seq(Version) /\ version \in Version
    BY StampForIsMoment DEF TypeOK, IsMap, Stored, Fact, Version
  <1>2. facts'[m].image = image /\ versions'[m] = Append(versions[m], version)
    <2>1. facts'[m] = Amended(m, image, event) /\ versions'[m] = Recorded(m, image, event)
      BY DEF ChangesTo
    <2>2. Amended(m, image, event).image = image
      BY AmendedIsFact
    <2>3. Recorded(m, image, event) = Append(versions[m], version)
      BY AmendedIsFact
    <2>4. QED
      BY <2>1, <2>2, <2>3
  <1> HIDE DEF version
  <1>3. QED
    BY <1>1, <1>2, AppendedSeq

\* A step that ends a fact, or gives one no end again, by a change made here is
\* an update: an import that changes a fact records it as "restored".
LEMMA OnlyUpdatesChange ==
  ASSUME TypeOK, StoredAreMinted, Next, NEW n \in Id, ChangedHere(n), facts'[n].image # facts[n].image
  PROVE  \E t \in Id, image \in Images, event \in Event : UpdateNode(t, image, event)
  <1> SUFFICES ASSUME ~ \E t \in Id, image \in Images, event \in Event : UpdateNode(t, image, event)
               PROVE  FALSE
    OBVIOUS
  <1>1. n \in Stored /\ n \in Stored' /\ versions'[n] # <<>> /\ Last(versions'[n]).event # "restored"
    BY DEF ChangedHere
  <1>2. ASSUME NEW t, NEW content, NEW image, AddNode(t, content, image) PROVE FALSE
    <2>1. t # n
      BY <1>1, <1>2 DEF AddNode, StoredAreMinted
    <2>2. QED
      BY <1>1, <1>2, <2>1, StoredAfterPut DEF AddNode
  <1>3. ASSUME NEW t, DeleteNode(t) PROVE FALSE
    BY <1>1, <1>3 DEF DeleteNode, Stored
  <1>4. ASSUME NEW t \in DOMAIN backup.facts, NEW incoming \in Copies(t), RestoreNode(t, incoming) PROVE FALSE
    <2> DEFINE version == [at     |-> StampAfter(t, incoming), event |-> "restored",
                           before |-> facts[t].image, after |-> incoming.image]
    <2>1. t = n /\ facts'[n] = incoming
      BY <1>1, <1>4, StoredAfterPut DEF RestoreNode
    <2>2. versions' = [versions EXCEPT ![n] = Append(@, version)] /\ StampAfter(t, incoming) \in Moment
      BY <1>1, <1>4, <2>1 DEF RestoreNode
    <2>3. versions[n] \in Seq(Version) /\ version \in Version /\ version.event = "restored"
      BY <1>1, <2>1, <2>2, CopiesAreFacts DEF TypeOK, IsMap, Stored, Version, Fact
    <2> HIDE DEF version
    <2>4. versions'[n] = Append(versions[n], version)
      BY <2>2 DEF TypeOK
    <2>5. Last(versions'[n]) = version
      BY <2>3, <2>4, AppendedSeq DEF Last
    <2>6. QED
      BY <1>1, <2>3, <2>5
  <1>5. \A e, link : ~ AddEdge(e, link) /\ ~ RestoreEdge(e, link) /\ ~ DeleteEdge(e)
    BY <1>1 DEF AddEdge, RestoreEdge, DeleteEdge
  <1>6. \A t, model : ~ SetEmbedding(t, model) /\ ~ DeleteEmbeddings(t, model) /\ ~ RestoreVersion(t, model)
    BY <1>1 DEF SetEmbedding, DeleteEmbeddings, RestoreVersion
  <1>7. ~ Export /\ \A at : ~ SetClock(at)
    BY <1>1 DEF Export, SetClock
  <1>8. QED
    BY <1>2, <1>3, <1>4, <1>5, <1>6, <1>7 DEF Next, Write, Import

\* For every number of facts and every graph: ending a fact ends, in the same
\* step and on the record, each conclusion in force that rests on it.
THEOREM StoreInvalidationWithdraws == Spec => InvalidationWithdraws
  <1> DEFINE Withdraws(n) ==
        \A m \in RetractionsFor(Sources', LiveAt(facts'[n].image.validTo), n) :
          facts'[m].image.validTo = facts'[n].image.validTo /\ Len(versions'[m]) = Len(versions[m]) + 1
  <1>1. ASSUME TypeOK, StoredAreMinted, Next, Ended # {}
        PROVE  /\ \A n \in Ended : Withdraws(n)
               /\ \E n \in Ended : \A m \in Ended \ {n} : facts'[m].image.retracted
    <2>1. PICK t \in Id, image \in Images, event \in Event : UpdateNode(t, image, event)
      BY <1>1, OnlyUpdatesChange DEF Ended
    <2> DEFINE gone == Withdrawn(t, image)
               until == image.validTo
    <2>2. /\ t \in Stored /\ Stored' = Stored /\ image \in Image
          /\ ChangesTo(t, image, event)
          /\ \A m \in gone : /\ m \in Stored \ {t}
                             /\ Retracted(m, until) \in Image
                             /\ ChangesTo(m, Retracted(m, until), "modified")
          /\ \A m \in Id \ ({t} \cup gone) : m \in Stored => facts'[m] = facts[m]
      BY <1>1, <2>1, UpdateChanges
    <2>3. facts'[t].image = image /\ Len(versions'[t]) = Len(versions[t]) + 1
      BY <1>1, <2>2, ChangeIsOneVersion
    <2>4. \A m \in gone : facts'[m].image = Retracted(m, until) /\ Len(versions'[m]) = Len(versions[m]) + 1
      BY <1>1, <2>2, ChangeIsOneVersion
    <2>5. \A m \in gone : /\ facts'[m].image.validTo = until
                         /\ facts'[m].image.retracted
                         /\ facts'[m].image.sources = facts[m].image.sources
      <3>1. \A m \in gone : facts[m].image \in Image
        BY <1>1, <2>2 DEF TypeOK, IsMap, Stored, Fact
      <3>2. QED
        BY <2>4, <3>1 DEF Retracted, Image
    <2>6. Ended \subseteq {t} \cup gone
      BY <2>2 DEF Ended, ChangedHere
    <2>7. /\ facts[t].image.validTo = Null /\ until # Null
          /\ gone = RetractionsFor(Sources, LiveAt(until), t)
      <3>1. gone # {} \/ (facts[t].image.validTo = Null /\ until # Null)
        BY <1>1, <2>3, <2>6 DEF Ended
      <3>2. QED
        BY <3>1 DEF Withdrawn
    <2>8. \A n \in {t} \cup gone : facts'[n].image.validTo = until /\ Len(versions'[n]) = Len(versions[n]) + 1
      BY <2>3, <2>4, <2>5
    <2> HIDE DEF gone, until
    <2>9. ASSUME NEW n \in Ended
          PROVE  RetractionsFor(Sources', LiveAt(until), n) \subseteq {t} \cup gone
      <3> DEFINE g == Among(Sources, LiveAt(until))
                 h == Among(Sources', LiveAt(until))
      <3>1. DOMAIN g = DOMAIN h /\ \A m \in DOMAIN g \ {t} : g[m] = h[m]
        <4>1. DOMAIN g = Stored /\ DOMAIN h = Stored
          BY <2>2 DEF Among, Sources
        <4>2. ASSUME NEW m \in Stored \ {t} PROVE Sources[m] = Sources'[m]
          <5>1. m \in Id
            BY <1>1 DEF TypeOK, IsMap, Stored
          <5>2. facts'[m].image.sources = facts[m].image.sources
            BY <2>2, <2>5, <5>1
          <5>3. QED
            BY <2>2, <5>2 DEF Sources
        <4>3. QED
          BY <2>2, <4>1, <4>2 DEF Among, Sources
      <3>2. gone = DependentsOf(h, t)
        BY <2>7, <3>1, RootsOwnSources DEF RetractionsFor
      <3> HIDE DEF g, h
      <3>3. DependentsOf(h, n) \subseteq {t} \cup gone
        BY <2>6, <3>2, DependentsAreTransitive
      <3>4. QED
        BY <3>3 DEF RetractionsFor, h
    <2>10. \A n \in Ended : Withdraws(n)
      <3> SUFFICES ASSUME NEW n \in Ended PROVE Withdraws(n)
        OBVIOUS
      <3>1. facts'[n].image.validTo = until
        BY <2>6, <2>8
      <3>2. QED
        BY <2>8, <2>9, <3>1
    <2>11. \E n \in Ended : \A m \in Ended \ {n} : facts'[m].image.retracted
      <3>1. CASE t \in Ended
        BY <2>5, <2>6, <3>1
      <3>2. CASE t \notin Ended
        BY <1>1, <2>5, <2>6, <3>2
      <3>3. QED
        BY <3>1, <3>2
    <2>12. QED
      BY <2>10, <2>11
  <1>2. TypeOK /\ StoredAreMinted /\ [Next]_vars =>
          [Ended # {} => /\ \A n \in Ended : Withdraws(n)
                         /\ \E n \in Ended : \A m \in Ended \ {n} : facts'[m].image.retracted]_vars
    BY <1>1
  <1>3. QED
    BY <1>2, StoreTypeOK, MintedInvariant, PTL DEF Spec, InvalidationWithdraws

\* For every number of facts: giving a fact no end again changes no other fact.
THEOREM StoreReopeningTouchesNothingElse == Spec => ReopeningTouchesNothingElse
  <1> DEFINE Alone(n) ==
        ChangedHere(n) /\ facts[n].image.validTo # Null /\ facts'[n].image.validTo = Null =>
          \A m \in Stored \ {n} : m \in Stored' /\ facts'[m] = facts[m]
  <1>1. ASSUME TypeOK, StoredAreMinted, Next, NEW n \in Id, ChangedHere(n),
               facts[n].image.validTo # Null, facts'[n].image.validTo = Null,
               NEW m \in Stored \ {n}
        PROVE  m \in Stored' /\ facts'[m] = facts[m]
    <2>1. PICK t \in Id, image \in Images, event \in Event : UpdateNode(t, image, event)
      BY <1>1, OnlyUpdatesChange
    <2>2. n \in {t} \cup Withdrawn(t, image) /\ n \in Stored
      BY <1>1, <2>1, UpdateChanges DEF ChangedHere
    <2>3. n \notin Withdrawn(t, image)
      <3> SUFFICES ASSUME n \in Withdrawn(t, image) PROVE FALSE
        OBVIOUS
      <3>1. image.validTo # Null /\ image.validTo \in Moment \cup {Null}
        BY <1>1, <2>1, UpdateChanges DEF Withdrawn, Image
      <3>2. facts'[n].image = Retracted(n, image.validTo)
        BY <1>1, <2>1, <2>2, UpdateChanges, ChangeIsOneVersion
      <3>3. QED
        BY <1>1, <2>2, <3>1, <3>2, RetractedIsImage
    <2>4. n = t /\ facts'[t].image = image
      BY <1>1, <2>1, <2>2, <2>3, UpdateChanges, ChangeIsOneVersion
    <2>5. Withdrawn(t, image) = {}
      BY <1>1, <2>4 DEF Withdrawn
    <2>6. m \in Id
      BY <1>1 DEF TypeOK, IsMap, Stored
    <2>7. QED
      BY <1>1, <2>1, <2>4, <2>5, <2>6, UpdateChanges
  <1>2. TypeOK /\ StoredAreMinted /\ [Next]_vars => [\A n \in Id : Alone(n)]_vars
    BY <1>1
  <1>3. QED
    BY <1>2, StoreTypeOK, MintedInvariant, PTL DEF Spec, ReopeningTouchesNothingElse

\* A trail only grows, and never runs backwards, whatever is imported over it
\* and however the clock is set.
THEOREM StoreRecordGrowsInOrder == Spec => RecordGrowsInOrder
  BY StoreTrailsInOrder, StoreRecordOnlyGrows, PTL DEF RecordGrowsInOrder

\* A fact that stops being true takes its conclusions along, and one that is
\* true again brings none back.
THEOREM StoreWithdrawalIsExact == Spec => WithdrawalIsExact
  BY StoreInvalidationWithdraws, StoreReopeningTouchesNothingElse, PTL DEF WithdrawalIsExact
=============================================================================
