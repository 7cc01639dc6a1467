------------------------ MODULE RecentlyDeleted_proofs ------------------------
(***************************************************************************)
(* What holds of erasing and of the bin (RecentlyDeleted) for any facts,   *)
(* sources, days and clock, whatever is restored, purged or cut short.     *)
(***************************************************************************)
EXTENDS RecentlyDeleted, TLAPS

-----------------------------------------------------------------------------
(* The inductive invariant.                                                *)

\* The record of a fact in the bin says when its deletion was asked for and
\* where it came from.
RecordsOK ==
  \A n \in Binned :
    LET record == facts[n].record IN
    /\ asked[n] = record.at /\ home[n] = record.from
    /\ record.with # Nil => record.with \in minted /\ record.at # Null

\* A fact still to be written has not changed since the call wrote its first:
\* it goes into the bin with that one, which waits, or returns with that one,
\* which no longer does.
Pending(m) ==
  LET fact == facts[m] IN
  \/ /\ call.kind = "erase" /\ m \notin Binned
     /\ \E n \in Binned \ {m} :
          /\ facts[n].record.at = call.at /\ facts[n].record.with = Nil
          /\ call.writes[m] = [fact EXCEPT !.tier = "PendingDeletion",
                                           !.record = [at |-> call.at, from |-> fact.tier, with |-> n]]
  \/ call.kind = "restore" /\ m \in Binned /\ fact.record.with \notin Binned \cup {Nil} /\ call.writes[m] = Returned(m)
WritesOK == \A m \in DOMAIN call.writes : Pending(m)

CallOK ==
  /\ call.kind = "none" => call = Idle
  /\ call.at <= now
  /\ call.kind = "restore" => call.todo = {}
  /\ call.kind = "purge" => /\ DOMAIN call.writes = {} /\ call.todo \cap Stored \subseteq Binned
                            /\ Binned \subseteq call.binned

\* What a receipt says so far.
EraseOK ==
  call.kind = "erase" =>
    /\ Stored \subseteq call.stored /\ call.erased = call.stored \ Stored
    /\ call.chosen \subseteq call.stored /\ call.todo \subseteq call.chosen
    /\ call.chosen \subseteq call.todo \cup call.erased \cup call.held \cup call.refused
    /\ DOMAIN call.writes \subseteq call.held /\ call.held \subseteq Binned \cup DOMAIN call.writes
    /\ Binned \ call.binned \subseteq call.held
    /\ IF call.grace THEN call.erased = {} ELSE call.held = {}

\* A fact waits no longer than the one it was binned with, which was binned on
\* its own account.
Together ==
  ~torn =>
    \A n \in Binned \ DOMAIN call.writes :
      LET fact == facts[n].record.with IN
      fact \in Stored => /\ fact \in Binned
                         /\ facts[fact].record.at = facts[n].record.at /\ facts[fact].record.with = Nil

IInv == TypeOK /\ RecordsOK /\ WritesOK /\ CallOK /\ EraseOK /\ Together

-----------------------------------------------------------------------------

LEMMA ClosureIsStored ==
  ASSUME NEW n PROVE Closure(n) \subseteq Stored \ {n}
  BY DEF Closure, DependentsOf, Graph, Stored


LEMMA InitIInv == Init => IInv
  <1> SUFFICES ASSUME Init PROVE IInv
    OBVIOUS
  <1>1. Stored = {} /\ Binned = {} /\ facts \in [Stored -> Fact]
    BY DEF Init, Stored, Binned
  <1>2. /\ DOMAIN call.writes = {} /\ call.writes \in [DOMAIN call.writes -> Fact]
        /\ call.kind = "none" /\ call = Idle /\ call.at = 0 /\ now = 0
    BY DEF Init, Idle
  <1>3. call \in CallState
    BY BoundsAssumption DEF Init, Idle, CallState
  <1>4. TypeOK
    <2>1. now \in 0..MaxNow
      BY BoundsAssumption DEF Init
    <2>. minted \subseteq Id /\ Stored \subseteq minted /\ torn \in BOOLEAN
      BY <1>1 DEF Init
    <2>2. asked \in [Id -> 0..MaxNow \cup {Null}] /\ home \in [Id -> Kept]
      BY TiersAssumption DEF Init
    <2>3. QED
      BY <1>1, <1>2, <1>3, <2>1, <2>2 DEF TypeOK
  <1>5. QED
    BY <1>1, <1>2, <1>4 DEF IInv, RecordsOK, WritesOK, CallOK, EraseOK, Together

\* What the history variables note of a change to the facts.
LEMMA BecomesNotes ==
  ASSUME TypeOK, RecordsOK, NEW new, NEW at \in 0..MaxNow \cup {Null}, Becomes(new, at),
         new \in [DOMAIN new -> Fact], DOMAIN new \subseteq Id,
         \A n \in DOMAIN new :
           new[n].tier = "PendingDeletion" =>
             IF n \in Binned
             THEN /\ new[n].record.from = facts[n].record.from
                  /\ \/ new[n].record.at = facts[n].record.at
                     \/ facts[n].record.at = Null /\ new[n].record.at = at /\ at # Null
             ELSE /\ new[n].record.at = at
                  /\ n \in Stored /\ at # Null => new[n].record.from = facts[n].tier
  PROVE  /\ facts' = new
         /\ Stored' = DOMAIN new
         /\ Binned' = {n \in DOMAIN new : new[n].tier = "PendingDeletion"}
         /\ asked' \in [Id -> 0..MaxNow \cup {Null}]
         /\ home' \in [Id -> Kept]
         /\ \A n \in Binned' : asked'[n] = facts'[n].record.at /\ home'[n] = facts'[n].record.from
  <1>1. facts' = new
    BY DEF Becomes
  <1>2. Stored' = DOMAIN new /\ Binned' = {n \in DOMAIN new : new[n].tier = "PendingDeletion"}
    BY <1>1 DEF Stored, Binned
  <1> DEFINE entered == {n \in DOMAIN new : new[n].tier = "PendingDeletion" /\ n \notin Binned}
             started == {n \in DOMAIN new \cap Binned : new[n].tier = "PendingDeletion"
                                                        /\ facts[n].record.at = Null /\ new[n].record.at # Null}
  <1>3. /\ asked' = [n \in Id |-> IF n \in entered \cup started THEN at
                                  ELSE IF n \in DOMAIN new /\ new[n].tier = "PendingDeletion" THEN asked[n] ELSE Null]
        /\ home' = [n \in Id |-> IF n \in entered /\ n \in Stored /\ at # Null THEN facts[n].tier
                                 ELSE IF n \in entered THEN new[n].record.from
                                 ELSE IF n \in DOMAIN new /\ new[n].tier = "PendingDeletion" THEN home[n]
                                 ELSE "FullRetention"]
    BY DEF Becomes
  <1>4. \A n \in DOMAIN new : new[n].record.from \in Kept /\ new[n].record.at \in 0..MaxNow \cup {Null}
    BY DEF Fact, Record
  <1>5. \A n \in Stored \ Binned : facts[n].tier \in Kept
    BY DEF TypeOK, Fact, Tier, Binned
  <1>6. asked' \in [Id -> 0..MaxNow \cup {Null}]
    BY <1>3 DEF TypeOK
  <1>7. home' \in [Id -> Kept]
    BY <1>3, <1>4, <1>5, TiersAssumption DEF TypeOK
  <1>8. ASSUME NEW n \in Binned' PROVE asked'[n] = facts'[n].record.at /\ home'[n] = facts'[n].record.from
    <2>1. n \in DOMAIN new /\ n \in Id /\ new[n].tier = "PendingDeletion" /\ facts'[n] = new[n]
      BY <1>1, <1>2
    <2>2. CASE n \in Binned
      <3>1. asked[n] = facts[n].record.at /\ home[n] = facts[n].record.from /\ n \notin entered
        BY <2>2 DEF RecordsOK
      <3>2. QED
        BY <1>3, <2>1, <2>2, <3>1
    <2>3. CASE n \notin Binned
      BY <1>3, <2>1, <2>3
    <2>4. QED
      BY <2>2, <2>3
  <1>9. QED
    BY <1>1, <1>2, <1>6, <1>7, <1>8

-----------------------------------------------------------------------------
(* Steps that leave the facts as they are.                                 *)

LEMMA FactsStay ==
  ASSUME IInv, UNCHANGED <<facts, minted, asked, home>>, call' \in CallState', torn' \in BOOLEAN,
         now' \in 0..MaxNow,
         \/ call'.kind = call.kind /\ call'.at = call.at /\ call'.writes = call.writes /\ torn' = torn
         \/ call'.writes = <<>> /\ torn' = (torn \/ call.writes # <<>>)
  PROVE  TypeOK' /\ RecordsOK' /\ WritesOK' /\ Together'
  <1>1. Stored' = Stored /\ Binned' = Binned
    BY DEF Stored, Binned
  <1>2. DOMAIN call'.writes \subseteq Stored' /\ call'.writes \in [DOMAIN call'.writes -> Fact]
    <2>1. CASE call'.writes = call.writes
      BY <1>1, <2>1 DEF IInv, TypeOK
    <2>2. CASE call'.writes = <<>>
      BY <2>2
    <2>3. QED
      BY <2>1, <2>2
  <1>3. TypeOK'
    BY <1>1, <1>2 DEF IInv, TypeOK
  <1>4. RecordsOK'
    BY <1>1 DEF IInv, RecordsOK
  <1>5. WritesOK'
    <2>1. ASSUME NEW m \in DOMAIN call'.writes PROVE Pending(m)'
      <3>1. m \in DOMAIN call.writes /\ call'.kind = call.kind /\ call'.at = call.at /\ call'.writes = call.writes
        BY <2>1
      <3>2. Pending(m)
        BY <3>1 DEF IInv, WritesOK
      <3>3. QED
        BY <1>1, <3>1, <3>2 DEF Pending, Returned
    <2>2. QED
      BY <2>1 DEF WritesOK
  <1>6. ASSUME ~torn' PROVE ~torn /\ DOMAIN call'.writes = DOMAIN call.writes
    BY <1>6 DEF IInv, TypeOK
  <1>7. Together'
    BY <1>1, <1>6 DEF IInv, Together
  <1>8. QED
    BY <1>3, <1>4, <1>5, <1>7
LEMMA EraseWhereIInv ==
  ASSUME IInv, NEW chosen \in SUBSET Id, NEW grace \in BOOLEAN, EraseWhere(chosen, grace) PROVE IInv'
  <1>1. /\ UNCHANGED <<facts, minted, now, asked, home, torn>>
        /\ Stored' = Stored /\ Binned' = Binned /\ Stored \subseteq Id /\ Binned \subseteq Stored
        /\ call = Idle /\ chosen \subseteq Stored /\ now \in 0..MaxNow
    BY DEF IInv, TypeOK, EraseWhere, history, Stored, Binned
  <1>2. call' = [kind |-> "erase", at |-> now, grace |-> grace, todo |-> chosen, writes |-> <<>>, binned |-> Binned,
                 immediately |-> FALSE, chosen |-> chosen, erased |-> {}, held |-> {}, refused |-> {}, stored |-> Stored]
    BY DEF EraseWhere, Idle
  <1>3. call' \in CallState'
    BY <1>1, <1>2 DEF CallState
  <1>4. call'.writes = <<>> /\ torn' = (torn \/ call.writes # <<>>) /\ torn' \in BOOLEAN
    BY <1>1, <1>2 DEF Idle, IInv, TypeOK
  <1>5. TypeOK' /\ RecordsOK' /\ WritesOK' /\ Together'
    BY <1>1, <1>3, <1>4, FactsStay
  <1>6. CallOK'
    BY <1>1, <1>2 DEF CallOK
  <1>7. EraseOK'
    BY <1>1, <1>2 DEF EraseOK
  <1>8. QED
    BY <1>5, <1>6, <1>7 DEF IInv

LEMMA PurgeDeletedIInv ==
  ASSUME IInv, NEW only \in SUBSET Id, NEW immediately \in BOOLEAN, PurgeDeleted(only, immediately) PROVE IInv'
  <1>1. /\ UNCHANGED <<facts, minted, now, asked, home, torn>>
        /\ Stored' = Stored /\ Binned' = Binned /\ Stored \subseteq Id /\ Binned \subseteq Stored
        /\ call = Idle /\ now \in 0..MaxNow
    BY DEF IInv, TypeOK, PurgeDeleted, history, Stored, Binned
  <1>2. call' = [kind |-> "purge", at |-> now, grace |-> FALSE, todo |-> Binned \cap only, writes |-> <<>>,
                 binned |-> Binned, immediately |-> immediately,
                 chosen |-> {}, erased |-> {}, held |-> {}, refused |-> {}, stored |-> {}]
    BY DEF PurgeDeleted, Idle
  <1>3. call' \in CallState'
    BY <1>1, <1>2 DEF CallState
  <1>4. call'.writes = <<>> /\ torn' = (torn \/ call.writes # <<>>) /\ torn' \in BOOLEAN
    BY <1>1, <1>2 DEF Idle, IInv, TypeOK
  <1>5. TypeOK' /\ RecordsOK' /\ WritesOK' /\ Together'
    BY <1>1, <1>3, <1>4, FactsStay
  <1>6. CallOK'
    BY <1>1, <1>2 DEF CallOK
  <1>7. EraseOK'
    BY <1>2 DEF EraseOK
  <1>8. QED
    BY <1>5, <1>6, <1>7 DEF IInv

LEMMA CallEndsIInv ==
  ASSUME IInv, Answer \/ Stop PROVE IInv'
  <1>1. /\ UNCHANGED <<facts, minted, now, asked, home>> /\ call' = Idle /\ now \in 0..MaxNow
        /\ torn' = (torn \/ call.writes # <<>>) /\ torn' \in BOOLEAN
    BY DEF IInv, TypeOK, Answer, Stop, history
  <1>2. call'.kind = "none" /\ call'.writes = <<>> /\ call'.at = 0
    BY <1>1 DEF Idle
  <1>3. call' \in CallState'
    BY <1>1, BoundsAssumption DEF Idle, CallState
  <1>4. TypeOK' /\ RecordsOK' /\ WritesOK' /\ Together'
    BY <1>1, <1>2, <1>3, FactsStay
  <1>5. CallOK'
    BY <1>1, <1>2 DEF CallOK
  <1>6. EraseOK'
    BY <1>2 DEF EraseOK
  <1>7. QED
    BY <1>4, <1>5, <1>6 DEF IInv

LEMMA NextDayIInv ==
  ASSUME IInv, NextDay PROVE IInv'
  <1>1. /\ UNCHANGED <<facts, minted, call, asked, home, torn>> /\ now' \in 0..MaxNow /\ now <= now'
        /\ call.at \in 0..MaxNow /\ now \in 0..MaxNow
    BY BoundsAssumption DEF IInv, TypeOK, CallState, NextDay, history
  <1>2. Stored' = Stored /\ Binned' = Binned /\ call' \in CallState' /\ torn' \in BOOLEAN
    BY <1>1 DEF IInv, TypeOK, CallState, Stored, Binned
  <1>3. TypeOK' /\ RecordsOK' /\ WritesOK' /\ Together'
    BY <1>1, <1>2, FactsStay
  <1>4. CallOK'
    BY <1>1, <1>2 DEF IInv, CallOK
  <1>5. EraseOK'
    BY <1>1, <1>2 DEF IInv, EraseOK
  <1>6. QED
    BY <1>3, <1>4, <1>5 DEF IInv

\* A chosen fact is done with, and the facts stay as they are.
LEMMA ErasePassesIInv ==
  ASSUME IInv, NEW n \in Id, EraseDone(n) \/ EraseRefused(n) \/ EraseAgain(n) PROVE IInv'
  <1>1. /\ UNCHANGED <<facts, minted, now, asked, home, torn>>
        /\ Stored' = Stored /\ Binned' = Binned /\ now \in 0..MaxNow /\ torn' \in BOOLEAN
        /\ call \in CallState /\ call.kind = "erase"
    BY DEF IInv, TypeOK, EraseDone, EraseRefused, EraseAgain, Turn, history, Stored, Binned
  <1>2. PICK held \in SUBSET Id, refused \in SUBSET Id :
          /\ call' = [call EXCEPT !.todo = @ \ {n}, !.held = held, !.refused = refused]
          /\ call.held \subseteq held /\ call.refused \subseteq refused
          /\ n \in call.erased \cup held \cup refused
          /\ held = call.held \/ (held = call.held \cup {n} /\ n \in Binned /\ call.grace)
    <2>1. call.held \in SUBSET Id /\ call.refused \in SUBSET Id
      BY <1>1 DEF CallState
    <2>2. CASE EraseDone(n)
      <3>1. call' = [call EXCEPT !.todo = @ \ {n}, !.held = call.held, !.refused = call.refused]
        BY <1>1, <2>2 DEF EraseDone, CallState
      <3>2. QED
        BY <2>1, <2>2, <3>1 DEF EraseDone
    <2>3. CASE EraseRefused(n)
      <3>1. call' = [call EXCEPT !.todo = @ \ {n}, !.held = call.held, !.refused = call.refused \cup {n}]
        BY <1>1, <2>3 DEF EraseRefused, CallState
      <3>2. QED
        BY <2>1, <3>1
    <2>4. CASE EraseAgain(n)
      <3>1. call' = [call EXCEPT !.todo = @ \ {n}, !.held = call.held \cup {n}, !.refused = call.refused]
        BY <1>1, <2>4 DEF EraseAgain, CallState
      <3>2. QED
        BY <2>1, <2>4, <3>1 DEF EraseAgain
    <2>5. QED
      BY <2>2, <2>3, <2>4
  <1>3. /\ call' \in CallState'
        /\ call'.kind = call.kind /\ call'.at = call.at /\ call'.writes = call.writes
        /\ call'.todo = call.todo \ {n} /\ call'.held = held /\ call'.refused = refused
        /\ call'.erased = call.erased /\ call'.chosen = call.chosen /\ call'.stored = call.stored
        /\ call'.binned = call.binned /\ call'.grace = call.grace
    BY <1>1, <1>2 DEF CallState
  <1>4. TypeOK' /\ RecordsOK' /\ WritesOK' /\ Together'
    BY <1>1, <1>3, FactsStay
  <1>5. CallOK'
    BY <1>1, <1>3 DEF IInv, CallOK
  <1>6. EraseOK'
    BY <1>1, <1>2, <1>3 DEF IInv, EraseOK
  <1>7. QED
    BY <1>4, <1>5, <1>6 DEF IInv

LEMMA PurgePassesIInv ==
  ASSUME IInv, NEW n \in Id, PurgePasses(n) PROVE IInv'
  <1>1. /\ UNCHANGED <<facts, minted, now, asked, home, torn>>
        /\ Stored' = Stored /\ Binned' = Binned /\ now \in 0..MaxNow /\ torn' \in BOOLEAN
        /\ call \in CallState /\ call.kind = "purge" /\ call' = [call EXCEPT !.todo = @ \ {n}]
    BY DEF IInv, TypeOK, PurgePasses, history, Stored, Binned
  <1>2. /\ call' \in CallState'
        /\ call'.kind = call.kind /\ call'.at = call.at /\ call'.writes = call.writes
        /\ call'.todo = call.todo \ {n} /\ call'.binned = call.binned
    BY <1>1 DEF CallState
  <1>3. TypeOK' /\ RecordsOK' /\ WritesOK' /\ Together'
    BY <1>1, <1>2, FactsStay
  <1>4. CallOK'
    BY <1>1, <1>2 DEF IInv, CallOK
  <1>5. EraseOK'
    BY <1>1, <1>2 DEF EraseOK
  <1>6. QED
    BY <1>3, <1>4, <1>5 DEF IInv

-----------------------------------------------------------------------------
(* Steps that write over one fact.                                         *)

LEMMA OneFactChanges ==
  ASSUME TypeOK, RecordsOK, NEW n \in Stored, NEW fact \in Fact, NEW at \in 0..MaxNow \cup {Null},
         Becomes([facts EXCEPT ![n] = fact], at),
         fact.tier = "PendingDeletion" =>
           IF n \in Binned
           THEN /\ fact.record.from = facts[n].record.from
                /\ \/ fact.record.at = facts[n].record.at
                   \/ facts[n].record.at = Null /\ fact.record.at = at /\ at # Null
           ELSE /\ fact.record.at = at
                /\ at # Null => fact.record.from = facts[n].tier
  PROVE  /\ Stored' = Stored
         /\ Binned' = IF fact.tier = "PendingDeletion" THEN Binned \cup {n} ELSE Binned \ {n}
         /\ facts'[n] = fact /\ \A m \in Stored \ {n} : facts'[m] = facts[m]
         /\ facts' \in [Stored' -> Fact]
         /\ asked' \in [Id -> 0..MaxNow \cup {Null}]
         /\ home' \in [Id -> Kept]
         /\ \A m \in Binned' : asked'[m] = facts'[m].record.at /\ home'[m] = facts'[m].record.from
  <1> DEFINE new == [facts EXCEPT ![n] = fact]
  <1>1. /\ DOMAIN new = Stored /\ new \in [DOMAIN new -> Fact] /\ DOMAIN new \subseteq Id
        /\ new[n] = fact /\ \A m \in Stored \ {n} : new[m] = facts[m]
    BY DEF TypeOK, Stored
  <1>2. \A m \in Stored : m \notin Binned => facts[m].tier # "PendingDeletion"
    BY DEF Binned
  <1>3. Becomes(new, at)
    OBVIOUS
  <1> HIDE DEF new
  <1>4. \A m \in DOMAIN new :
          new[m].tier = "PendingDeletion" =>
            IF m \in Binned
            THEN /\ new[m].record.from = facts[m].record.from
                 /\ \/ new[m].record.at = facts[m].record.at
                    \/ facts[m].record.at = Null /\ new[m].record.at = at /\ at # Null
            ELSE /\ new[m].record.at = at
                 /\ m \in Stored /\ at # Null => new[m].record.from = facts[m].tier
    BY <1>1, <1>2
  <1>5. /\ facts' = new
        /\ Stored' = DOMAIN new
        /\ Binned' = {m \in DOMAIN new : new[m].tier = "PendingDeletion"}
        /\ asked' \in [Id -> 0..MaxNow \cup {Null}]
        /\ home' \in [Id -> Kept]
        /\ \A m \in Binned' : asked'[m] = facts'[m].record.at /\ home'[m] = facts'[m].record.from
    BY <1>1, <1>3, <1>4, BecomesNotes
  <1>6. Binned' = IF fact.tier = "PendingDeletion" THEN Binned \cup {n} ELSE Binned \ {n}
    BY <1>1, <1>5 DEF Binned
  <1>7. QED
    BY <1>1, <1>5, <1>6

LEMMA UpdateIInv ==
  ASSUME IInv, NEW n \in Id, NEW tier \in Tier, NEW sources \in Sources[n], Update(n, tier, sources) PROVE IInv'
  <1> DEFINE fact == [facts[n] EXCEPT !.tier = tier, !.sources = sources]
  <1>1. /\ UNCHANGED <<minted, now, call, torn>> /\ call = Idle /\ n \in Stored /\ facts[n] \in Fact
        /\ sources \in SUBSET Id /\ Becomes([facts EXCEPT ![n] = fact], Null)
        /\ n \in Binned => tier = "PendingDeletion"
    BY SourcesAssumption DEF IInv, TypeOK, Update, Stored
  <1>2. fact \in Fact /\ fact.tier = tier /\ fact.record = facts[n].record
    BY <1>1 DEF Fact
  <1>3. n \notin Binned => facts[n].record = NoRecord
    BY <1>1 DEF IInv, TypeOK
  <1>4. NoRecord.at = Null /\ NoRecord.with = Nil
    BY DEF NoRecord
  <1> HIDE DEF fact
  <1>5. /\ Stored' = Stored
        /\ Binned' = IF fact.tier = "PendingDeletion" THEN Binned \cup {n} ELSE Binned \ {n}
        /\ facts'[n] = fact /\ \A m \in Stored \ {n} : facts'[m] = facts[m]
        /\ facts' \in [Stored' -> Fact]
        /\ asked' \in [Id -> 0..MaxNow \cup {Null}]
        /\ home' \in [Id -> Kept]
        /\ \A m \in Binned' : asked'[m] = facts'[m].record.at /\ home'[m] = facts'[m].record.from
    BY <1>1, <1>2, <1>3, <1>4, OneFactChanges DEF IInv, Null
  <1>6. Binned \subseteq Binned' /\ Binned' \subseteq Binned \cup {n} /\ Binned \subseteq Stored
    BY <1>1, <1>2, <1>5 DEF Binned
  <1>7. \A m \in Stored : facts'[m].record = facts[m].record
    BY <1>2, <1>5
  <1>8. call \in CallState /\ call' = Idle /\ DOMAIN Idle.writes = {} /\ Idle.kind = "none"
    BY <1>1 DEF IInv, TypeOK, Idle
  <1>9. TypeOK'
    BY <1>1, <1>5, <1>6, <1>7, <1>8 DEF IInv, TypeOK, CallState
  <1>10. RecordsOK'
    BY <1>1, <1>3, <1>4, <1>5, <1>6, <1>7 DEF IInv, RecordsOK
  <1>11. WritesOK' /\ CallOK' /\ EraseOK'
    BY <1>1, <1>8 DEF IInv, WritesOK, CallOK, EraseOK
  <1>12. Nil \notin Stored
    BY NilAssumption DEF IInv, TypeOK
  <1>13. Together'
    BY <1>1, <1>3, <1>4, <1>5, <1>6, <1>7, <1>8, <1>12 DEF IInv, Together
  <1>14. QED
    BY <1>9, <1>10, <1>11, <1>13 DEF IInv

LEMMA EraseIntoBinIInv ==
  ASSUME IInv, NEW n \in Id, EraseIntoBin(n) PROVE IInv'
  <1> DEFINE joining == Closure(n) \ Binned
             fact == Waiting(n, Nil)
  <1>1. /\ UNCHANGED <<minted, now, torn>> /\ call.kind = "erase" /\ DOMAIN call.writes = {} /\ n \in call.todo
        /\ call.grace /\ ~(n \in Binned /\ facts[n].record.at # Null)
        /\ Becomes([facts EXCEPT ![n] = fact], call.at)
        /\ call' = [call EXCEPT !.todo = @ \ {n}, !.held = @ \cup {n} \cup joining,
                                !.writes = [m \in joining |-> Waiting(m, n)]]
    BY DEF EraseIntoBin, Turn
  <1>2. n \in Stored /\ facts[n] \in Fact
    BY <1>1 DEF IInv, TypeOK, EraseOK
  <1>3. joining \subseteq Stored \ {n} /\ joining \subseteq Id
    BY ClosureIsStored DEF IInv, TypeOK
  <1>4. call \in CallState /\ call.at \in 0..MaxNow /\ call.at # Null /\ now \in 0..MaxNow /\ torn \in BOOLEAN
    BY BoundsAssumption DEF IInv, TypeOK, CallState, Null
  <1>5. \A m \in Stored : m \notin Binned => facts[m].tier \in Kept
    BY DEF IInv, TypeOK, Fact, Tier, Binned
  <1>6. ASSUME NEW m \in Stored, NEW with \in Id \cup {Nil}
        PROVE  /\ Waiting(m, with) \in Fact /\ Waiting(m, with).tier = "PendingDeletion"
               /\ Waiting(m, with).record.at = call.at /\ Waiting(m, with).record.with = with
               /\ Waiting(m, with).record.from = IF m \in Binned THEN facts[m].record.from ELSE facts[m].tier
    <2> DEFINE from == IF m \in Binned THEN facts[m].record.from ELSE facts[m].tier
    <2>1. facts[m] \in Fact /\ from \in Kept
      BY <1>5 DEF IInv, TypeOK, Fact, Record
    <2> DEFINE record == [at |-> call.at, from |-> from, with |-> with]
    <2>2. Waiting(m, with) = [facts[m] EXCEPT !.tier = "PendingDeletion", !.record = record]
      BY DEF Waiting
    <2> HIDE DEF from
    <2>3. record \in Record /\ record.at = call.at /\ record.with = with /\ record.from = from
      BY <1>4, <2>1 DEF Record
    <2> HIDE DEF record
    <2>4. /\ Waiting(m, with) \in Fact /\ Waiting(m, with).tier = "PendingDeletion"
          /\ Waiting(m, with).record = record
      BY <2>1, <2>2, <2>3 DEF Fact, Tier
    <2>5. QED
      BY <2>3, <2>4 DEF from
  <1>7. /\ fact \in Fact /\ fact.tier = "PendingDeletion" /\ fact.record.at = call.at /\ fact.record.with = Nil
        /\ fact.record.from = IF n \in Binned THEN facts[n].record.from ELSE facts[n].tier
    BY <1>2, <1>6
  <1>8. ASSUME NEW m \in joining
        PROVE  Waiting(m, n) = [facts[m] EXCEPT !.tier = "PendingDeletion",
                                                !.record = [at |-> call.at, from |-> facts[m].tier, with |-> n]]
    BY DEF Waiting
  <1> HIDE DEF fact, joining
  <1>9. /\ Stored' = Stored /\ Binned' = Binned \cup {n}
        /\ facts'[n] = fact /\ \A m \in Stored \ {n} : facts'[m] = facts[m]
        /\ facts' \in [Stored' -> Fact]
        /\ asked' \in [Id -> 0..MaxNow \cup {Null}]
        /\ home' \in [Id -> Kept]
        /\ \A m \in Binned' : asked'[m] = facts'[m].record.at /\ home'[m] = facts'[m].record.from
    BY <1>1, <1>2, <1>4, <1>7, OneFactChanges DEF IInv
  <1>10. /\ call'.kind = call.kind /\ call'.at = call.at /\ call'.todo = call.todo \ {n}
         /\ call'.held = call.held \cup {n} \cup joining /\ call'.writes = [m \in joining |-> Waiting(m, n)]
         /\ call'.erased = call.erased /\ call'.chosen = call.chosen /\ call'.stored = call.stored
         /\ call'.binned = call.binned /\ call'.grace = call.grace /\ call'.refused = call.refused
         /\ call' \in CallState'
    BY <1>1, <1>3, <1>4 DEF CallState
  <1>11. /\ DOMAIN call'.writes = joining /\ call'.writes \in [joining -> Fact]
         /\ \A m \in joining : call'.writes[m] = Waiting(m, n)
    BY <1>3, <1>6, <1>10
  <1>12. TypeOK'
    BY <1>1, <1>3, <1>4, <1>9, <1>10, <1>11 DEF IInv, TypeOK
  <1>13. RecordsOK'
    BY <1>1, <1>7, <1>9 DEF IInv, RecordsOK, Binned
  <1>14. WritesOK'
    <2>1. ASSUME NEW m \in joining PROVE Pending(m)'
      <3>1. /\ m \notin Binned' /\ n \in Binned' \ {m} /\ facts'[m] = facts[m]
            /\ facts'[n].record.at = call'.at /\ facts'[n].record.with = Nil
        BY <1>3, <1>7, <1>9, <1>10, <2>1 DEF joining
      <3>2. call'.writes[m] = [facts'[m] EXCEPT !.tier = "PendingDeletion",
                                                !.record = [at |-> call'.at, from |-> facts'[m].tier, with |-> n]]
        BY ZenonT(60), <1>8, <1>10, <1>11, <3>1
      <3>3. QED
        BY <1>1, <1>10, <3>1, <3>2 DEF Pending
    <2>2. QED
      BY <1>11, <2>1 DEF WritesOK
  <1>15. CallOK'
    BY <1>1, <1>4, <1>10 DEF IInv, CallOK
  <1>16. EraseOK'
    BY <1>1, <1>9, <1>10, <1>11 DEF IInv, EraseOK
  <1>17. Together'
    <2> SUFFICES ASSUME ~torn, NEW k \in Binned' \ joining, facts'[k].record.with \in Stored
                 PROVE  LET with == facts'[k].record.with IN
                        /\ with \in Binned'
                        /\ facts'[with].record.at = facts'[k].record.at /\ facts'[with].record.with = Nil
      BY <1>1, <1>9, <1>11 DEF Together
    <2>1. k # n
      BY <1>7, <1>9, NilAssumption DEF IInv, TypeOK
    <2>2. k \in Binned /\ facts'[k] = facts[k] /\ facts[k].record.with # Nil
      BY <1>9, <2>1, NilAssumption DEF IInv, TypeOK, Binned
    <2>3. LET with == facts[k].record.with IN
          /\ with \in Binned /\ facts[with].record.at = facts[k].record.at /\ facts[with].record.with = Nil
          /\ facts[k].record.at # Null
      BY <1>1, <2>2 DEF IInv, Together, RecordsOK
    <2>4. facts[k].record.with # n
      BY <1>1, <2>3
    <2>5. QED
      BY <1>9, <2>2, <2>3, <2>4
  <1>18. QED
    BY <1>12, <1>13, <1>14, <1>15, <1>16, <1>17 DEF IInv

LEMMA ReturnedIsAFact ==
  ASSUME NEW m, facts[m] \in Fact
  PROVE  Returned(m) \in Fact /\ Returned(m).tier # "PendingDeletion" /\ Returned(m).record = NoRecord
  <1>1. facts[m].record.from \in Kept /\ facts[m].record.from \in Tier
    BY DEF Fact, Record, Tier
  <1>2. NoRecord \in Record
    BY TiersAssumption DEF NoRecord, Record
  <1>3. QED
    BY <1>1, <1>2, TiersAssumption DEF Returned, Fact

LEMMA RestoreDeletedIInv ==
  ASSUME IInv, NEW n \in Id, RestoreDeleted(n) PROVE IInv'
  <1> DEFINE fact == Returned(n)
             joined == Companions(n) \ {n}
  <1>1. /\ UNCHANGED <<minted, now, torn>> /\ call = Idle /\ n \in Binned
        /\ Becomes([facts EXCEPT ![n] = fact], Null)
        /\ call' = [Idle EXCEPT !.kind = "restore", !.writes = [m \in joined |-> Returned(m)]]
    BY DEF RestoreDeleted
  <1>2. /\ joined \subseteq Binned \ {n} /\ Binned \subseteq Stored /\ Stored \subseteq Id
        /\ \A m \in joined : facts[m].record.with = n
    BY DEF IInv, TypeOK, Companions, Binned
  <1>3. ASSUME NEW m \in Binned
        PROVE  Returned(m) \in Fact /\ Returned(m).tier # "PendingDeletion" /\ Returned(m).record = NoRecord
    BY <1>2, ReturnedIsAFact DEF IInv, TypeOK
  <1>4. now \in 0..MaxNow /\ torn \in BOOLEAN /\ 0 \in 0..MaxNow
    BY BoundsAssumption DEF IInv, TypeOK
  <1> HIDE DEF fact, joined
  <1>5. fact \in Fact /\ fact.tier # "PendingDeletion" /\ fact.record = NoRecord
    BY <1>1, <1>3 DEF fact
  <1>6. /\ Stored' = Stored /\ Binned' = Binned \ {n}
        /\ facts'[n] = fact /\ \A m \in Stored \ {n} : facts'[m] = facts[m]
        /\ facts' \in [Stored' -> Fact]
        /\ asked' \in [Id -> 0..MaxNow \cup {Null}]
        /\ home' \in [Id -> Kept]
        /\ \A m \in Binned' : asked'[m] = facts'[m].record.at /\ home'[m] = facts'[m].record.from
    BY <1>1, <1>2, <1>5, OneFactChanges DEF IInv
  <1>7. call' = [kind |-> "restore", at |-> 0, grace |-> FALSE, todo |-> {}, writes |-> [m \in joined |-> Returned(m)],
                 binned |-> {}, immediately |-> FALSE, chosen |-> {}, erased |-> {}, held |-> {}, refused |-> {},
                 stored |-> {}]
    BY <1>1 DEF Idle
  <1>8. /\ DOMAIN call'.writes = joined /\ call'.writes \in [joined -> Fact]
        /\ \A m \in joined : call'.writes[m] = Returned(m)
    BY <1>2, <1>3, <1>7
  <1>9. call' \in CallState'
    BY <1>4, <1>7 DEF CallState
  <1>10. TypeOK'
    BY <1>1, <1>2, <1>4, <1>5, <1>6, <1>8, <1>9 DEF IInv, TypeOK
  <1>11. RecordsOK'
    BY <1>1, <1>2, <1>6 DEF IInv, RecordsOK
  <1>12. WritesOK'
    <2>1. ASSUME NEW m \in joined PROVE Pending(m)'
      <3>1. m \in Binned' /\ facts'[m] = facts[m] /\ facts'[m].record.with \notin Binned' \cup {Nil}
        BY <1>2, <1>6, <2>1, NilAssumption
      <3>2. call'.writes[m] = Returned(m)'
        BY <1>8, <3>1 DEF Returned
      <3>3. QED
        BY <1>7, <3>1, <3>2 DEF Pending
    <2>2. QED
      BY <1>8, <2>1 DEF WritesOK
  <1>13. CallOK' /\ EraseOK'
    <2>1. call'.kind = "restore" /\ call'.at = 0 /\ call'.todo = {}
      BY <1>7
    <2>2. 0 <= now
      BY <1>4
    <2>3. QED
      BY <1>1, <2>1, <2>2 DEF CallOK, EraseOK
  <1>14. Together'
    <2> SUFFICES ASSUME ~torn, NEW k \in Binned' \ joined, facts'[k].record.with \in Stored
                 PROVE  LET with == facts'[k].record.with IN
                        /\ with \in Binned'
                        /\ facts'[with].record.at = facts'[k].record.at /\ facts'[with].record.with = Nil
      BY <1>1, <1>6, <1>8 DEF Together
    <2>1. k \in Binned /\ k # n /\ facts'[k] = facts[k] /\ facts[k].record.with # n
      BY <1>2, <1>6 DEF joined, Companions
    <2>2. LET with == facts[k].record.with IN
          with \in Binned /\ facts[with].record.at = facts[k].record.at /\ facts[with].record.with = Nil
      BY <1>1, <2>1 DEF IInv, Together, Idle
    <2>3. QED
      BY <1>2, <1>6, <2>1, <2>2
  <1>15. QED
    BY <1>10, <1>11, <1>12, <1>13, <1>14 DEF IInv

LEMMA WriteNextIInv ==
  ASSUME IInv, NEW n \in Id, WriteNext(n) PROVE IInv'
  <1> DEFINE fact == call.writes[n]
  <1>1. /\ UNCHANGED <<minted, now, torn>> /\ n \in DOMAIN call.writes
        /\ Becomes([facts EXCEPT ![n] = fact], call.at)
        /\ call' = [call EXCEPT !.writes = Without(@, {n})]
    BY DEF WriteNext
  <1>2. /\ n \in Stored /\ fact \in Fact /\ facts[n] \in Fact /\ call \in CallState /\ torn \in BOOLEAN
        /\ now \in 0..MaxNow /\ call.at \in 0..MaxNow /\ call.at # Null /\ Nil \notin Stored /\ Binned \subseteq Stored
        /\ DOMAIN call.writes \subseteq Stored /\ Stored \subseteq minted /\ minted \subseteq Id
    BY <1>1, BoundsAssumption, NilAssumption DEF IInv, TypeOK, CallState, Null, Binned
  <1>3. /\ call'.kind = call.kind /\ call'.at = call.at /\ call'.todo = call.todo /\ call'.held = call.held
        /\ call'.erased = call.erased /\ call'.chosen = call.chosen /\ call'.stored = call.stored
        /\ call'.binned = call.binned /\ call'.grace = call.grace /\ call'.refused = call.refused
        /\ call'.writes = Without(call.writes, {n}) /\ call' \in CallState'
    BY <1>1, <1>2 DEF CallState
  <1>4. /\ DOMAIN call'.writes = DOMAIN call.writes \ {n}
        /\ call'.writes \in [DOMAIN call'.writes -> Fact]
        /\ \A m \in DOMAIN call'.writes : call'.writes[m] = call.writes[m]
    BY <1>3 DEF IInv, TypeOK, Without
  <1>5. CallOK' /\ call.kind # "none"
    <2>1. call.kind # "none" /\ call.kind # "purge"
      BY <1>1 DEF IInv, CallOK, Idle
    <2>2. QED
      BY <1>1, <1>3, <2>1 DEF IInv, CallOK
  <1>6. Pending(n) /\ \A m \in DOMAIN call.writes : Pending(m)
    BY <1>1 DEF IInv, WritesOK
  <1>7. CASE call.kind = "erase"
    <2>1. PICK root \in Binned \ {n} :
            /\ facts[root].record.at = call.at /\ facts[root].record.with = Nil
            /\ fact = [facts[n] EXCEPT !.tier = "PendingDeletion",
                                       !.record = [at |-> call.at, from |-> facts[n].tier, with |-> root]]
      BY <1>6, <1>7 DEF Pending
    <2>2. n \notin Binned
      BY <1>6, <1>7 DEF Pending
    <2>3. /\ fact.tier = "PendingDeletion" /\ fact.record.at = call.at /\ fact.record.with = root
          /\ fact.record.from = facts[n].tier
      BY <1>2, <2>1 DEF Fact
    <2> HIDE DEF fact
    <2>4. /\ Stored' = Stored /\ Binned' = Binned \cup {n}
          /\ facts'[n] = fact /\ \A m \in Stored \ {n} : facts'[m] = facts[m]
          /\ facts' \in [Stored' -> Fact]
          /\ asked' \in [Id -> 0..MaxNow \cup {Null}]
          /\ home' \in [Id -> Kept]
          /\ \A m \in Binned' : asked'[m] = facts'[m].record.at /\ home'[m] = facts'[m].record.from
      BY <1>1, <1>2, <2>2, <2>3, OneFactChanges DEF IInv
    <2>5. TypeOK'
      <3>1. \A m \in Stored' \ Binned' : facts'[m].record = NoRecord
        BY <2>4 DEF IInv, TypeOK
      <3>2. DOMAIN call'.writes \subseteq Stored' /\ minted' \subseteq Id /\ Stored' \subseteq minted'
        BY <1>1, <1>2, <1>4, <2>4
      <3>3. QED
        BY <1>1, <1>2, <1>3, <1>4, <2>4, <3>1, <3>2 DEF TypeOK
    <2>6. RecordsOK'
      <3>1. ASSUME NEW m \in Binned', facts'[m].record.with # Nil
            PROVE  facts'[m].record.with \in minted /\ facts'[m].record.at # Null
        <4>1. CASE m = n
          <5>1. facts'[m].record.with = root /\ facts'[m].record.at = call.at
            BY <2>3, <2>4, <4>1
          <5>2. root \in minted /\ call.at # Null
            BY <1>2, <2>1
          <5>3. QED
            BY <5>1, <5>2
        <4>2. CASE m # n
          BY <1>2, <2>4, <3>1, <4>2 DEF IInv, RecordsOK
        <4>3. QED
          BY <4>1, <4>2
      <3>2. QED
        BY <1>1, <2>4, <3>1 DEF RecordsOK
    <2>7. ASSUME NEW m \in DOMAIN call'.writes PROVE Pending(m)'
      <3>1. PICK n0 \in Binned \ {m} :
              /\ facts[n0].record.at = call.at /\ facts[n0].record.with = Nil
              /\ call.writes[m] = [facts[m] EXCEPT !.tier = "PendingDeletion",
                                                   !.record = [at |-> call.at, from |-> facts[m].tier, with |-> n0]]
        BY <1>4, <1>6, <1>7, <2>7 DEF Pending
      <3>2. m \notin Binned /\ m \in Stored \ {n}
        BY <1>2, <1>4, <1>6, <1>7, <2>7 DEF Pending
      <3>3. n0 \in Binned' \ {m} /\ facts'[n0] = facts[n0] /\ facts'[m] = facts[m] /\ m \notin Binned'
        BY <1>2, <2>2, <2>4, <3>1, <3>2
      <3>4. QED
        BY ZenonT(60), <1>3, <1>4, <1>7, <2>7, <3>1, <3>3 DEF Pending
    <2>8. WritesOK'
      BY <2>7 DEF WritesOK
    <2>9. EraseOK'
      BY ZenonT(60), <1>1, <1>3, <1>4, <2>4 DEF IInv, EraseOK
    <2>10. Together'
      <3> SUFFICES ASSUME ~torn, NEW k \in Binned' \ DOMAIN call'.writes, facts'[k].record.with \in Stored
                   PROVE  LET with == facts'[k].record.with IN
                          /\ with \in Binned'
                          /\ facts'[with].record.at = facts'[k].record.at /\ facts'[with].record.with = Nil
        BY <1>1, <2>4 DEF Together
      <3>1. CASE k = n
        BY <1>2, <2>1, <2>3, <2>4, <3>1
      <3>2. CASE k # n
        <4>1. k \in Binned \ DOMAIN call.writes /\ facts'[k] = facts[k]
          BY <1>2, <1>4, <2>4, <3>2
        <4>2. LET with == facts[k].record.with IN
              with \in Binned /\ facts[with].record.at = facts[k].record.at /\ facts[with].record.with = Nil
          BY <4>1 DEF IInv, Together
        <4>3. QED
          BY <1>2, <2>2, <2>4, <4>1, <4>2
      <3>3. QED
        BY <3>1, <3>2
    <2>11. QED
      BY <1>5, <2>5, <2>6, <2>8, <2>9, <2>10 DEF IInv
  <1>8. CASE call.kind = "restore"
    <2>1. n \in Binned /\ facts[n].record.with \notin Binned \cup {Nil} /\ fact = Returned(n)
      BY <1>6, <1>8 DEF Pending
    <2>2. fact.tier # "PendingDeletion" /\ fact.record = NoRecord
      BY <1>2, <2>1, ReturnedIsAFact
    <2> HIDE DEF fact
    <2>3. /\ Stored' = Stored /\ Binned' = Binned \ {n}
          /\ facts'[n] = fact /\ \A m \in Stored \ {n} : facts'[m] = facts[m]
          /\ facts' \in [Stored' -> Fact]
          /\ asked' \in [Id -> 0..MaxNow \cup {Null}]
          /\ home' \in [Id -> Kept]
          /\ \A m \in Binned' : asked'[m] = facts'[m].record.at /\ home'[m] = facts'[m].record.from
      BY <1>1, <1>2, <2>2, OneFactChanges DEF IInv
    <2>4. TypeOK'
      BY ZenonT(60), <1>1, <1>2, <1>3, <1>4, <2>2, <2>3 DEF IInv, TypeOK
    <2>5. RecordsOK'
      BY <1>1, <1>2, <2>3 DEF IInv, RecordsOK
    <2>6. ASSUME NEW m \in DOMAIN call'.writes PROVE Pending(m)'
      <3>1. m \in Binned /\ facts[m].record.with \notin Binned \cup {Nil} /\ call.writes[m] = Returned(m)
        BY <1>4, <1>6, <1>8, <2>6 DEF Pending
      <3>2. m \in Binned' /\ facts'[m] = facts[m]
        BY <1>2, <1>4, <2>3, <2>6, <3>1
      <3>3. QED
        BY <1>3, <1>4, <1>8, <2>3, <2>6, <3>1, <3>2 DEF Pending, Returned
    <2>7. WritesOK'
      BY <2>6 DEF WritesOK
    <2>8. EraseOK'
      BY <1>3, <1>8 DEF EraseOK
    <2>9. Together'
      <3> SUFFICES ASSUME ~torn, NEW k \in Binned' \ DOMAIN call'.writes, facts'[k].record.with \in Stored
                   PROVE  LET with == facts'[k].record.with IN
                          /\ with \in Binned'
                          /\ facts'[with].record.at = facts'[k].record.at /\ facts'[with].record.with = Nil
        BY <1>1, <2>3 DEF Together
      <3>1. k \in Binned \ DOMAIN call.writes /\ facts'[k] = facts[k]
        BY <1>2, <1>4, <2>3
      <3>2. LET with == facts[k].record.with IN
            with \in Binned /\ facts[with].record.at = facts[k].record.at /\ facts[with].record.with = Nil
        BY <3>1 DEF IInv, Together
      <3>3. facts[k].record.with # n
        BY <2>1, <3>2
      <3>4. QED
        BY <1>2, <2>3, <3>1, <3>2, <3>3
    <2>10. QED
      BY <1>5, <2>4, <2>5, <2>7, <2>8, <2>9 DEF IInv
  <1>9. QED
    BY <1>6, <1>7, <1>8 DEF Pending

-----------------------------------------------------------------------------
(* Steps that add a fact or take facts away.                               *)

LEMMA AddIInv ==
  ASSUME IInv, NEW n \in Id, NEW fact \in NewFact(n), Add(n, fact) PROVE IInv'
  <1> DEFINE new == Over(facts, [m \in {n} |-> fact])
             at == fact.record.at
  <1>1. /\ UNCHANGED <<now, call, torn>> /\ call = Idle /\ n \notin minted /\ minted' = minted \cup {n}
        /\ Becomes(new, at) /\ (fact.record # NoRecord => fact.tier = "PendingDeletion")
    BY DEF Add
  <1>2. fact \in Fact /\ fact.record.with = Nil
    BY TiersAssumption, SourcesAssumption DEF NewFact, Fact, Record, NoRecord, Tier
  <1>3. /\ Stored \subseteq minted /\ minted \subseteq Id /\ Binned \subseteq Stored /\ n \notin Stored
        /\ facts \in [Stored -> Fact] /\ Nil \notin Id
    BY <1>1, NilAssumption DEF IInv, TypeOK, Binned
  <1>4. /\ DOMAIN new = Stored \cup {n} /\ new \in [DOMAIN new -> Fact] /\ DOMAIN new \subseteq Id
        /\ new[n] = fact /\ \A m \in Stored : new[m] = facts[m]
    BY <1>2, <1>3 DEF Over, Stored
  <1>5. at \in 0..MaxNow \cup {Null}
    BY <1>2 DEF Fact, Record
  <1> HIDE DEF new, at
  <1>6. \A m \in DOMAIN new :
          new[m].tier = "PendingDeletion" =>
            IF m \in Binned
            THEN /\ new[m].record.from = facts[m].record.from
                 /\ \/ new[m].record.at = facts[m].record.at
                    \/ facts[m].record.at = Null /\ new[m].record.at = at /\ at # Null
            ELSE /\ new[m].record.at = at
                 /\ m \in Stored /\ at # Null => new[m].record.from = facts[m].tier
    BY <1>3, <1>4 DEF Binned, at
  <1>7. /\ facts' = new
        /\ Stored' = DOMAIN new
        /\ Binned' = {m \in DOMAIN new : new[m].tier = "PendingDeletion"}
        /\ asked' \in [Id -> 0..MaxNow \cup {Null}]
        /\ home' \in [Id -> Kept]
        /\ \A m \in Binned' : asked'[m] = facts'[m].record.at /\ home'[m] = facts'[m].record.from
    BY <1>1, <1>4, <1>5, <1>6, BecomesNotes DEF IInv
  <1>8. Binned' \subseteq Binned \cup {n} /\ Binned \subseteq Binned' /\ (n \notin Binned' => fact.record = NoRecord)
    BY <1>1, <1>4, <1>7 DEF Binned
  <1>9. call \in CallState /\ DOMAIN call.writes = {} /\ call.kind = "none"
    BY <1>1 DEF IInv, TypeOK, Idle
  <1>10. TypeOK'
    <2>1. \A m \in Stored' \ Binned' : facts'[m].record = NoRecord
      BY <1>4, <1>7, <1>8 DEF IInv, TypeOK
    <2>2. call' \in CallState' /\ DOMAIN call'.writes \subseteq Stored' /\ call'.writes \in [DOMAIN call'.writes -> Fact]
      BY <1>1, <1>9 DEF IInv, TypeOK, CallState
    <2>3. Stored' \subseteq minted' /\ minted' \subseteq Id /\ facts' \in [Stored' -> Fact]
      BY <1>1, <1>3, <1>4, <1>7
    <2>4. QED
      BY <1>1, <1>7, <2>1, <2>2, <2>3 DEF IInv, TypeOK
  <1>11. RecordsOK'
    <2>1. ASSUME NEW m \in Binned', facts'[m].record.with # Nil
          PROVE  facts'[m].record.with \in minted' /\ facts'[m].record.at # Null
      BY <1>1, <1>2, <1>3, <1>4, <1>7, <1>8, <2>1 DEF IInv, RecordsOK
    <2>2. QED
      BY <1>7, <2>1 DEF RecordsOK
  <1>12. WritesOK' /\ CallOK' /\ EraseOK'
    BY <1>1, <1>9 DEF IInv, WritesOK, CallOK, EraseOK
  <1>13. Together'
    <2> SUFFICES ASSUME ~torn, NEW k \in Binned', facts'[k].record.with \in Stored'
                 PROVE  LET with == facts'[k].record.with IN
                        /\ with \in Binned'
                        /\ facts'[with].record.at = facts'[k].record.at /\ facts'[with].record.with = Nil
      BY <1>1 DEF Together
    <2>1. k # n
      BY <1>2, <1>3, <1>4, <1>7
    <2>2. k \in Binned /\ facts'[k] = facts[k] /\ facts[k].record.with # Nil
      BY <1>3, <1>4, <1>7, <1>8, <2>1
    <2>3. facts[k].record.with \in Stored
      BY <1>1, <1>4, <1>7, <2>2 DEF IInv, RecordsOK
    <2>4. LET with == facts[k].record.with IN
          with \in Binned /\ facts[with].record.at = facts[k].record.at /\ facts[with].record.with = Nil
      BY <1>9, <2>2, <2>3 DEF IInv, Together
    <2>5. QED
      BY <1>3, <1>4, <1>7, <1>8, <2>2, <2>4
  <1>14. QED
    BY <1>10, <1>11, <1>12, <1>13 DEF IInv

\* Facts go, and no fact that stays changes.
LEMMA FactsGo ==
  ASSUME IInv, NEW gone, Becomes(Without(facts, gone), Null), UNCHANGED <<minted, now, torn>>,
         DOMAIN call.writes = {}, call' \in CallState', call'.writes = call.writes
  PROVE  /\ Stored' = Stored \ gone /\ Binned' = Binned \ gone
         /\ TypeOK' /\ RecordsOK' /\ WritesOK' /\ Together'
  <1> DEFINE new == Without(facts, gone)
  <1>1. /\ DOMAIN new = Stored \ gone /\ new \in [DOMAIN new -> Fact] /\ DOMAIN new \subseteq Id
        /\ \A m \in DOMAIN new : new[m] = facts[m]
    BY DEF IInv, TypeOK, Without, Stored
  <1>2. Becomes(new, Null)
    OBVIOUS
  <1>3. Null \in 0..MaxNow \cup {Null} /\ Binned \subseteq Stored
    BY DEF Binned
  <1> HIDE DEF new
  <1>4. \A m \in DOMAIN new :
          new[m].tier = "PendingDeletion" =>
            IF m \in Binned
            THEN /\ new[m].record.from = facts[m].record.from
                 /\ \/ new[m].record.at = facts[m].record.at
                    \/ facts[m].record.at = Null /\ new[m].record.at = Null /\ Null # Null
            ELSE /\ new[m].record.at = Null
                 /\ m \in Stored /\ Null # Null => new[m].record.from = facts[m].tier
    BY <1>1 DEF Binned
  <1>5. /\ facts' = new
        /\ Stored' = DOMAIN new
        /\ Binned' = {m \in DOMAIN new : new[m].tier = "PendingDeletion"}
        /\ asked' \in [Id -> 0..MaxNow \cup {Null}]
        /\ home' \in [Id -> Kept]
        /\ \A m \in Binned' : asked'[m] = facts'[m].record.at /\ home'[m] = facts'[m].record.from
    BY <1>1, <1>2, <1>3, <1>4, BecomesNotes DEF IInv
  <1>6. Stored' = Stored \ gone /\ Binned' = Binned \ gone
    BY <1>1, <1>5 DEF Binned
  <1>7. TypeOK'
    <2>1. \A m \in Stored' \ Binned' : facts'[m].record = NoRecord
      BY <1>1, <1>5, <1>6 DEF IInv, TypeOK
    <2>2. DOMAIN call'.writes = {} /\ call'.writes \in [DOMAIN call'.writes -> Fact]
      BY DEF IInv, TypeOK
    <2>3. Stored' \subseteq minted' /\ minted' \subseteq Id /\ facts' \in [Stored' -> Fact]
      BY <1>1, <1>5 DEF IInv, TypeOK
    <2>4. QED
      BY <1>5, <2>1, <2>2, <2>3 DEF IInv, TypeOK
  <1>8. RecordsOK'
    BY <1>1, <1>3, <1>5, <1>6 DEF IInv, RecordsOK
  <1>9. WritesOK'
    BY DEF WritesOK
  <1>10. Together'
    BY <1>1, <1>3, <1>5, <1>6 DEF IInv, Together
  <1>11. QED
    BY <1>6, <1>7, <1>8, <1>9, <1>10

LEMMA EraseAtOnceIInv ==
  ASSUME IInv, NEW n \in Id, EraseAtOnce(n) PROVE IInv'
  <1> DEFINE gone == {n} \cup Closure(n)
  <1>1. /\ UNCHANGED <<minted, now, torn>> /\ call.kind = "erase" /\ DOMAIN call.writes = {} /\ n \in call.todo
        /\ ~call.grace /\ n \notin call.erased /\ Becomes(Without(facts, gone), Null)
        /\ call' = [call EXCEPT !.todo = @ \ {n}, !.erased = @ \cup gone]
    BY DEF EraseAtOnce, Turn
  <1>2. n \in Stored /\ gone \subseteq Stored /\ Stored \subseteq Id /\ n \in gone /\ call \in CallState
    BY <1>1, ClosureIsStored DEF IInv, TypeOK, EraseOK
  <1> HIDE DEF gone
  <1>3. /\ call'.kind = call.kind /\ call'.at = call.at /\ call'.todo = call.todo \ {n} /\ call'.held = call.held
        /\ call'.erased = call.erased \cup gone /\ call'.chosen = call.chosen /\ call'.stored = call.stored
        /\ call'.binned = call.binned /\ call'.grace = call.grace /\ call'.refused = call.refused
        /\ call'.writes = call.writes /\ call' \in CallState'
    BY <1>1, <1>2 DEF CallState
  <1>4. Stored' = Stored \ gone /\ Binned' = Binned \ gone /\ TypeOK' /\ RecordsOK' /\ WritesOK' /\ Together'
    BY <1>1, <1>3, FactsGo
  <1>5. CallOK'
    BY <1>1, <1>3 DEF IInv, CallOK
  <1>6. EraseOK'
    BY <1>1, <1>2, <1>3, <1>4 DEF IInv, EraseOK
  <1>7. QED
    BY <1>4, <1>5, <1>6 DEF IInv

LEMMA PurgeFactIInv ==
  ASSUME IInv, NEW n \in Id, PurgeFact(n) PROVE IInv'
  <1> DEFINE gone == {n} \cup Closure(n)
  <1>1. /\ UNCHANGED <<minted, now, torn>> /\ call.kind = "purge" /\ Becomes(Without(facts, gone), Null)
        /\ call' = [call EXCEPT !.todo = @ \ {n}] /\ call \in CallState /\ DOMAIN call.writes = {}
    BY DEF IInv, TypeOK, CallOK, PurgeFact
  <1> HIDE DEF gone
  <1>2. /\ call'.kind = call.kind /\ call'.at = call.at /\ call'.todo = call.todo \ {n}
        /\ call'.binned = call.binned /\ call'.writes = call.writes /\ call' \in CallState'
    BY <1>1 DEF CallState
  <1>3. Stored' = Stored \ gone /\ Binned' = Binned \ gone /\ TypeOK' /\ RecordsOK' /\ WritesOK' /\ Together'
    BY <1>1, <1>2, FactsGo
  <1>4. CallOK'
    BY <1>1, <1>2, <1>3 DEF IInv, CallOK
  <1>5. EraseOK'
    BY <1>1, <1>2 DEF EraseOK
  <1>6. QED
    BY <1>3, <1>4, <1>5 DEF IInv

LEMMA NextIInv ==
  ASSUME IInv, [Next]_vars PROVE IInv'
  <1>1. CASE UNCHANGED vars
    <2>1. /\ Stored' = Stored /\ Binned' = Binned
          /\ UNCHANGED <<facts, minted, now, call, asked, home, torn>>
      BY <1>1 DEF vars, Stored, Binned
    <2>2. CallState' = CallState
      BY <2>1 DEF CallState
    <2>3. TypeOK' /\ RecordsOK' /\ CallOK' /\ EraseOK' /\ Together'
      BY <2>1, <2>2 DEF IInv, TypeOK, RecordsOK, CallOK, EraseOK, Together
    <2>4. ASSUME NEW m \in DOMAIN call.writes, Pending(m) PROVE Pending(m)'
      BY <2>1, <2>4 DEF Pending, Returned
    <2>5. WritesOK'
      BY <2>1, <2>4 DEF IInv, WritesOK
    <2>6. QED
      BY <2>3, <2>5 DEF IInv
  <1>2. ASSUME NEW n \in Id, NEW fact \in NewFact(n), Add(n, fact) PROVE IInv'
    BY <1>2, AddIInv
  <1>3. ASSUME NEW n \in Id, NEW tier \in Tier, NEW sources \in Sources[n], Update(n, tier, sources) PROVE IInv'
    BY <1>3, UpdateIInv
  <1>4. ASSUME NEW chosen \in SUBSET Id, NEW grace \in Grace, EraseWhere(chosen, grace) PROVE IInv'
    BY <1>4, EraseWhereIInv, BoundsAssumption
  <1>5. ASSUME NEW n \in Id, EraseDone(n) \/ EraseRefused(n) \/ EraseAgain(n) PROVE IInv'
    BY <1>5, ErasePassesIInv
  <1>6. ASSUME NEW n \in Id, EraseAtOnce(n) PROVE IInv'
    BY <1>6, EraseAtOnceIInv
  <1>7. ASSUME NEW n \in Id, EraseIntoBin(n) PROVE IInv'
    BY <1>7, EraseIntoBinIInv
  <1>8. ASSUME NEW n \in Id, RestoreDeleted(n) PROVE IInv'
    BY <1>8, RestoreDeletedIInv
  <1>9. ASSUME NEW only \in SUBSET Id, NEW immediately \in BOOLEAN, PurgeDeleted(only, immediately) PROVE IInv'
    BY <1>9, PurgeDeletedIInv
  <1>10. ASSUME NEW n \in Id, PurgeFact(n) PROVE IInv'
    BY <1>10, PurgeFactIInv
  <1>11. ASSUME NEW n \in Id, PurgePasses(n) PROVE IInv'
    BY <1>11, PurgePassesIInv
  <1>12. ASSUME NEW n \in Id, WriteNext(n) PROVE IInv'
    BY <1>12, WriteNextIInv
  <1>13. CASE Answer \/ Stop
    BY <1>13, CallEndsIInv
  <1>14. CASE NextDay
    BY <1>14, NextDayIInv
  <1>15. QED
    BY <1>1, <1>2, <1>3, <1>4, <1>5, <1>6, <1>7, <1>8, <1>9, <1>10, <1>11, <1>12, <1>13, <1>14 DEF Next

LEMMA IInvHolds == Spec => []IInv
  <1>1. IInv /\ [Next]_vars => IInv'
    BY NextIInv
  <1>2. QED
    BY <1>1, InitIInv, PTL DEF Spec

-----------------------------------------------------------------------------

\* The bin holds facts with the record of their deletion, and, unless a process
\* ended half-way through a deletion or a return, a conclusion waits there only
\* as long as the fact it was binned with (eraseNode, restoreDeleted, purgeDeleted).
THEOREM RecentlyDeletedBinIsSound == Spec => []BinIsSound
  <1>1. ASSUME IInv, ~torn, call.writes = <<>>, NEW n \in Binned, facts[n].record.with \in Stored
        PROVE  facts[n].record.with \in Binned /\ facts[facts[n].record.with].record.at = facts[n].record.at
    BY <1>1 DEF IInv, Together
  <1>2. IInv => BinIsSound
    BY <1>1 DEF IInv, BinIsSound, CompanionsWaitTogether
  <1>3. QED
    BY <1>2, IInvHolds, PTL

\* The receipt of an erasure request (eraseWhere) is true and complete: every
\* chosen fact is gone, waiting, or refused, and nothing else went or waits for it.
THEOREM RecentlyDeletedReceiptIsTrue == Spec => []ReceiptIsTrue
  <1>1. IInv => ReceiptIsTrue
    BY DEF IInv, EraseOK, ReceiptIsTrue
  <1>2. QED
    BY <1>1, IInvHolds, PTL

\* Of the steps of a purge only making a fact final changes what is stored.
LEMMA PurgeErases ==
  ASSUME IInv, Next, call.kind = "purge", Stored' # Stored
  PROVE  \E n \in Id : PurgeFact(n)
  <1>1. facts' # facts
    BY DEF Stored
  <1>2. call # Idle /\ DOMAIN call.writes = {}
    BY DEF Idle, IInv, CallOK
  <1>3. QED
    BY <1>1, <1>2 DEF Next, Add, Update, EraseWhere, EraseDone, EraseRefused, EraseAtOnce, EraseAgain, EraseIntoBin,
                      Turn, RestoreDeleted, PurgeDeleted, PurgePasses, WriteNext, Answer, Stop, NextDay

\* A purge takes only what is due and what rests on it: a fact whose deletion was
\* asked for at least the configured days ago, unless it was told to be immediate,
\* and never a conclusion alone while its fact waits (purgeDeleted), whatever was
\* deleted, restored or cut short before.
THEOREM RecentlyDeletedPurgesWhatIsDue == Spec => PurgesWhatIsDue
  <1>1. ASSUME IInv, NEW n \in Id, PurgeFact(n)
        PROVE  /\ Stored \ Stored' = {n} \cup Closure(n) /\ n \in Binned /\ n \notin Stored'
               /\ facts[n].record.with \notin Binned
               /\ ~call.immediately => asked[n] # Null /\ asked[n] + Days <= now
    <2>1. n \in Binned /\ n \in Stored /\ Due(n) /\ Binned \subseteq call.binned
      BY <1>1 DEF IInv, CallOK, PurgeFact, Binned
    <2>2. Stored' = Stored \ ({n} \cup Closure(n))
      BY <1>1 DEF PurgeFact, Becomes, Without, Stored
    <2>3. asked[n] = facts[n].record.at /\ call.at <= now /\ call.at \in Nat /\ now \in Nat
      BY <1>1, <2>1, BoundsAssumption DEF IInv, RecordsOK, CallOK, TypeOK, CallState
    <2>4. asked[n] # Null => asked[n] \in Nat
      BY <1>1, BoundsAssumption DEF IInv, TypeOK
    <2>5. ~call.immediately => asked[n] # Null /\ asked[n] + Days <= call.at
      BY <2>1, <2>3 DEF Due, Final
    <2>6. ~call.immediately => asked[n] + Days <= now
      BY <2>3, <2>4, <2>5, BoundsAssumption
    <2>7. QED
      BY <2>1, <2>2, <2>5, <2>6, ClosureIsStored DEF Due
  <1>2. ASSUME IInv, [Next]_vars, NEW n \in Stored \ Stored', call.kind = "purge", facts[n].record.with \in Stored'
        PROVE  \/ facts[n].record.with \notin Binned
               \/ \E m \in Stored \ Stored' : m # n /\ n \in Closure(m)
    <2>1. PICK m \in Id : PurgeFact(m)
      BY <1>2, PurgeErases DEF vars, Stored
    <2>2. CASE m = n
      BY <1>1, <1>2, <2>1, <2>2
    <2>3. CASE m # n
      BY <1>1, <1>2, <2>1, <2>3
    <2>4. QED
      BY <2>2, <2>3
  <1>3. ASSUME IInv, [Next]_vars, call.kind = "purge", ~call.immediately, Stored # Stored'
        PROVE  \E n \in Binned \ Stored' : /\ Stored \ Stored' = {n} \cup Closure(n)
                                           /\ asked[n] # Null /\ asked[n] + Days <= now
    <2>1. PICK m \in Id : PurgeFact(m)
      BY <1>3, PurgeErases DEF vars, Stored
    <2>2. QED
      BY <1>1, <1>3, <2>1
  <1>4. Spec => NeverOnItsOwn
    <2>1. IInv /\ [Next]_vars => [\A n \in Stored \ Stored' :
             call.kind = "purge" /\ n \in Binned /\ facts[n].record.with \in Stored' =>
               \/ facts[n].record.with \notin Binned
               \/ \E m \in Stored \ Stored' : m # n /\ n \in Closure(m)]_vars
      BY <1>2
    <2>2. QED
      BY <2>1, IInvHolds, PTL DEF Spec, NeverOnItsOwn
  <1>5. Spec => DaysAreKept
    <2>1. IInv /\ [Next]_vars => [call.kind = "purge" /\ ~call.immediately /\ Stored # Stored' =>
             \E n \in Binned \ Stored' :
               /\ Stored \ Stored' = {n} \cup Closure(n)
               /\ asked[n] # Null /\ asked[n] + Days <= now]_vars
      BY <1>3
    <2>2. QED
      BY <2>1, IInvHolds, PTL DEF Spec, DaysAreKept
  <1>6. QED
    BY <1>4, <1>5 DEF PurgesWhatIsDue

\* A fact leaves the bin only for the tier it was in before (restoreDeleted), also
\* when its deletion or its return stopped half-way and was asked for again.
THEOREM RecentlyDeletedComesBackWhereItWas == Spec => ComesBackWhereItWas
  <1>1. ASSUME IInv, [Next]_vars, NEW n \in Binned, n \in Stored', facts'[n].tier # "PendingDeletion"
        PROVE  facts'[n].tier = home[n]
    <2>1. /\ n \in Stored /\ facts[n].tier = "PendingDeletion" /\ facts[n] \in Fact /\ facts'[n] # facts[n]
          /\ home[n] = facts[n].record.from /\ facts \in [Stored -> Fact]
      BY <1>1 DEF IInv, TypeOK, RecordsOK, Binned
    <2>2. facts' # facts
      BY <2>1
    <2>3. Returned(n).tier = home[n]
      BY <2>1 DEF Returned, Fact
    <2>4. ASSUME NEW m \in Id, NEW fact \in NewFact(m), Add(m, fact) PROVE FALSE
      <3>1. m # n /\ facts' = Over(facts, [k \in {m} |-> fact])
        BY <1>1, <2>1, <2>4 DEF Add, Becomes, IInv, TypeOK
      <3>2. QED
        BY <2>1, <3>1 DEF Over, Stored
    <2>5. ASSUME NEW m \in Id, NEW tier \in Tier, NEW sources \in Sources[m], Update(m, tier, sources) PROVE FALSE
      <3>1. /\ facts' = [facts EXCEPT ![m] = [@ EXCEPT !.tier = tier, !.sources = sources]]
            /\ m \in Binned => tier = "PendingDeletion"
        BY <2>5 DEF Update, Becomes
      <3>2. QED
        BY <1>1, <2>1, <3>1 DEF Fact
    <2>6. ASSUME NEW gone, facts' = Without(facts, gone) PROVE FALSE
      BY <1>1, <2>1, <2>6 DEF Without, Stored
    <2>7. ASSUME NEW m \in Id, EraseIntoBin(m) PROVE FALSE
      <3>1. facts' = [facts EXCEPT ![m] = Waiting(m, Nil)] /\ Waiting(n, Nil).tier = "PendingDeletion"
        BY <2>1, <2>7 DEF EraseIntoBin, Becomes, Waiting, Fact
      <3>2. QED
        BY <1>1, <2>1, <3>1
    <2>8. ASSUME NEW m \in Id, RestoreDeleted(m) PROVE facts'[n].tier = home[n]
      <3>1. facts' = [facts EXCEPT ![m] = Returned(m)]
        BY <2>8 DEF RestoreDeleted, Becomes
      <3>2. QED
        BY <2>1, <2>3, <3>1
    <2>9. ASSUME NEW m \in Id, WriteNext(m) PROVE facts'[n].tier = home[n]
      <3>1. facts' = [facts EXCEPT ![m] = call.writes[m]] /\ m \in DOMAIN call.writes
        BY <2>9 DEF WriteNext, Becomes
      <3>2. m = n /\ facts'[n] = call.writes[n]
        BY <2>1, <3>1
      <3>3. call.writes[n] = Returned(n)
        BY <1>1, <3>1, <3>2 DEF IInv, WritesOK, Pending
      <3>4. QED
        BY <2>3, <3>2, <3>3
    <2>10. QED
      BY <1>1, <2>2, <2>4, <2>5, <2>6, <2>7, <2>8, <2>9
         DEF Next, EraseWhere, EraseDone, EraseRefused, EraseAtOnce, EraseAgain, PurgeDeleted, PurgeFact, PurgePasses,
             Answer, Stop, NextDay, Becomes, vars
  <1>2. IInv /\ [Next]_vars =>
          [\A n \in Binned : n \in Stored' /\ facts'[n].tier # "PendingDeletion" => facts'[n].tier = home[n]]_vars
    BY <1>1
  <1>3. QED
    BY <1>2, IInvHolds, PTL DEF Spec, ComesBackWhereItWas
=============================================================================
