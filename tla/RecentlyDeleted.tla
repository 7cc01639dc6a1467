--------------------------- MODULE RecentlyDeleted ---------------------------
(***************************************************************************)
(* Erasing through a governed store (src/src/governance/governed-store.ts, *)
(* eraseNode and eraseWhere), and the bin an erasure may wait in           *)
(* (src/src/governance/recently-deleted.ts).                               *)
(*                                                                         *)
(* Every call runs in the store's queue, so one runs at a time; GovernedStore *)
(* models the queue.  But a call is several transactions: a fact and its   *)
(* conclusions are binned and restored one after another, a purge and an   *)
(* erasure request go fact by fact, and the process may end in between.    *)
(* Another process on the same database is not held back by the queue      *)
(* (docs/policies/ENFORCEMENT.md) and is not modelled.                     *)
(*                                                                         *)
(* What the policies say is any verdict at any time: a fact locked since   *)
(* its deletion was asked for is a refusal at the purge.  Days are counted *)
(* as days.  Of a fact's image only its retention tier, its deletion       *)
(* record and the facts it was concluded from matter here.                 *)
(***************************************************************************)
EXTENDS Integers, DerivedFacts

CONSTANTS Id,         \* node ids
          Kept,       \* the tiers outside the bin
          Sources,    \* id -> the sets of facts it may be concluded from
          Grace,      \* whether erasures wait in Recently deleted, for each handle there is
          Days,       \* recentlyDeleted.days
          MaxNow      \* bound: the clock stops here

ASSUME TiersAssumption == "FullRetention" \in Kept /\ "PendingDeletion" \notin Kept
ASSUME SourcesAssumption == Sources \in [Id -> SUBSET SUBSET Id]
ASSUME BoundsAssumption == Grace \in SUBSET BOOLEAN /\ Days \in Nat /\ MaxNow \in Nat

Nil == "nil"   \* no fact
Null == -1     \* no moment
ASSUME NilAssumption == Nil \notin Id

Tier == Kept \cup {"PendingDeletion"}
Record == [at : 0..MaxNow \cup {Null}, from : Kept, with : Id \cup {Nil}]
Fact == [tier : Tier, record : Record, sources : SUBSET Id]

VARIABLES facts,   \* the stored facts
          minted,  \* every id handed out
          now,     \* today
          call,    \* the call in the queue's head, or Idle
          asked,   \* history variable: when the deletion of a fact in the bin was first asked for
          home,    \* history variable: the tier a fact was in before the bin
          torn     \* history variable: a process ended between two writes of one fact's deletion
                   \* or return

vars == <<facts, minted, now, call, asked, home, torn>>
history == <<asked, home, torn>>

\* No request, or one that cannot be read.
NoRecord == [at |-> Null, from |-> "FullRetention", with |-> Nil]

Idle == [kind |-> "none", at |-> 0, grace |-> FALSE, todo |-> {}, writes |-> <<>>, binned |-> {}, immediately |-> FALSE,
         chosen |-> {}, erased |-> {}, held |-> {}, refused |-> {}, stored |-> {}]

Init ==
  /\ facts = <<>>
  /\ minted = {}
  /\ now = 0
  /\ call = Idle
  /\ asked = [n \in Id |-> Null]
  /\ home = [n \in Id |-> "FullRetention"]
  /\ torn = FALSE

Stored == DOMAIN facts
Binned == {n \in Stored : facts[n].tier = "PendingDeletion"}
Graph == [n \in Stored |-> facts[n].sources]
Closure(n) == DependentsOf(Graph, n)

\* The facts with some of them written over, and without some of them.
Over(f, writes) == [n \in DOMAIN f \cup DOMAIN writes |-> IF n \in DOMAIN writes THEN writes[n] ELSE f[n]]
Without(f, gone) == [n \in DOMAIN f \ gone |-> f[n]]

\* The facts change, and the history variables note who entered the bin, when
\* that was asked for, and from where.
Becomes(new, at) ==
  LET entered == {n \in DOMAIN new : new[n].tier = "PendingDeletion" /\ n \notin Binned}
      started == {n \in DOMAIN new \cap Binned : new[n].tier = "PendingDeletion"
                                                 /\ facts[n].record.at = Null /\ new[n].record.at # Null}
  IN
  /\ facts' = new
  /\ asked' = [n \in Id |-> IF n \in entered \cup started THEN at
                            ELSE IF n \in DOMAIN new /\ new[n].tier = "PendingDeletion" THEN asked[n] ELSE Null]
  /\ home' = [n \in Id |-> IF n \in entered /\ n \in Stored /\ at # Null THEN facts[n].tier
                           ELSE IF n \in entered THEN new[n].record.from
                           ELSE IF n \in DOMAIN new /\ new[n].tier = "PendingDeletion" THEN home[n]
                           ELSE "FullRetention"]

-----------------------------------------------------------------------------
(* Writing facts.                                                          *)

\* A new fact, which a backup may bring in the bin with the request it was
\* exported with, or without one.
Add(n, fact) ==
  /\ call = Idle
  /\ n \in Id \ minted
  /\ fact.record # NoRecord => fact.tier = "PendingDeletion" /\ fact.record.at <= now
  /\ minted' = minted \cup {n}
  /\ Becomes(Over(facts, [m \in {n} |-> fact]), fact.record.at)
  /\ UNCHANGED <<now, call, torn>>

\* A fact is updated.  An actor who may erase may also put one in the bin by
\* hand: no request is recorded.
Update(n, tier, sources) ==
  /\ call = Idle
  /\ n \in Stored
  /\ n \in Binned => tier = "PendingDeletion"
  /\ Becomes([facts EXCEPT ![n] = [@ EXCEPT !.tier = tier, !.sources = sources]], Null)
  /\ UNCHANGED <<minted, now, call, torn>>

-----------------------------------------------------------------------------
(* Erasing: deleteNode, which is a request for one fact, and eraseWhere.   *)

EraseWhere(chosen, grace) ==
  /\ call = Idle
  /\ chosen \subseteq Stored
  /\ chosen # {}
  /\ call' = [Idle EXCEPT !.kind = "erase", !.at = now, !.grace = grace, !.todo = chosen, !.chosen = chosen,
                          !.stored = Stored, !.binned = Binned]
  /\ UNCHANGED <<facts, minted, now, history>>

\* The next chosen fact, once the one before it is done with.
Turn(n) == call.kind = "erase" /\ call.writes = <<>> /\ n \in call.todo

\* Already gone, or binned, with a fact it was concluded from.
EraseDone(n) ==
  /\ Turn(n)
  /\ n \in call.erased \cup call.held
  /\ call' = [call EXCEPT !.todo = @ \ {n}]
  /\ UNCHANGED <<facts, minted, now, history>>

\* A policy refuses the fact or one that rests on it.
EraseRefused(n) ==
  /\ Turn(n)
  /\ n \notin call.erased \cup call.held
  /\ call' = [call EXCEPT !.todo = @ \ {n}, !.refused = @ \cup {n}]
  /\ UNCHANGED <<facts, minted, now, history>>

\* Without Recently deleted the fact goes with all that rests on it.
EraseAtOnce(n) ==
  /\ Turn(n)
  /\ ~call.grace
  /\ n \notin call.erased
  /\ LET gone == {n} \cup Closure(n) IN
       /\ Becomes(Without(facts, gone), Null)
       /\ call' = [call EXCEPT !.todo = @ \ {n}, !.erased = @ \cup gone]
  /\ UNCHANGED <<minted, now, torn>>

\* A variant that leaves the fact off the receipt.
EraseAgainUnreported(n) ==
  /\ Turn(n)
  /\ call.grace
  /\ n \notin call.held
  /\ n \in Binned
  /\ facts[n].record.at # Null
  /\ call' = [call EXCEPT !.todo = @ \ {n}]
  /\ UNCHANGED <<facts, minted, now, history>>

\* With it, a fact whose clock runs is left alone.
EraseAgain(n) ==
  /\ Turn(n)
  /\ call.grace
  /\ n \notin call.held
  /\ n \in Binned
  /\ facts[n].record.at # Null
  /\ call' = [call EXCEPT !.todo = @ \ {n}, !.held = @ \cup {n}]
  /\ UNCHANGED <<facts, minted, now, history>>

\* A variant that forgets the tier.
WaitingFromNowhere(n, with) ==
  [facts[n] EXCEPT !.tier = "PendingDeletion", !.record = [at |-> call.at, from |-> "FullRetention", with |-> with]]

\* A fact as it waits in the bin, from this call on.
Waiting(n, with) ==
  [facts[n] EXCEPT !.tier = "PendingDeletion",
     !.record = [at |-> call.at, from |-> IF n \in Binned THEN facts[n].record.from ELSE facts[n].tier, with |-> with]]

\* The fact is binned, then, one by one, the conclusions that are not in the bin
\* yet, marked with it.
EraseIntoBin(n) ==
  /\ Turn(n)
  /\ call.grace
  /\ n \notin call.held
  /\ ~(n \in Binned /\ facts[n].record.at # Null)
  /\ LET joining == Closure(n) \ Binned IN
       /\ Becomes([facts EXCEPT ![n] = Waiting(n, Nil)], call.at)
       /\ call' = [call EXCEPT !.todo = @ \ {n}, !.held = @ \cup {n} \cup joining,
                               !.writes = [m \in joining |-> Waiting(m, n)]]
  /\ UNCHANGED <<minted, now, torn>>

-----------------------------------------------------------------------------
(* Restoring and purging.                                                  *)

\* A variant that leaves the request on the fact.
ReturnedWithRecord(n) == [facts[n] EXCEPT !.tier = facts[n].record.from]

\* A fact as it was before the bin.
Returned(n) == [facts[n] EXCEPT !.tier = facts[n].record.from, !.record = NoRecord]

Companions(n) == {m \in Binned : facts[m].record.with = n}

\* A variant that brings back only the fact.
RestoreDeletedAlone(n) ==
  /\ call = Idle
  /\ n \in Binned
  /\ facts[n].record.with \notin Binned
  /\ Becomes([facts EXCEPT ![n] = Returned(n)], Null)
  /\ call' = [Idle EXCEPT !.kind = "restore"]
  /\ UNCHANGED <<minted, now, torn>>

\* A fact binned with another comes back with that one.  Otherwise it comes
\* back, and then, one by one, what was binned with it.
RestoreDeleted(n) ==
  /\ call = Idle
  /\ n \in Binned
  /\ facts[n].record.with \notin Binned
  /\ Becomes([facts EXCEPT ![n] = Returned(n)], Null)
  /\ call' = [Idle EXCEPT !.kind = "restore", !.writes = [m \in Companions(n) \ {n} |-> Returned(m)]]
  /\ UNCHANGED <<minted, now, torn>>

PurgeDeleted(only, immediately) ==
  /\ call = Idle
  /\ call' = [Idle EXCEPT !.kind = "purge", !.at = now, !.todo = Binned \cap only,
                          !.binned = Binned, !.immediately = immediately]
  /\ UNCHANGED <<facts, minted, now, history>>

Final(n) == facts[n].record.at # Null /\ facts[n].record.at + Days <= call.at

\* A variant that counts a fact without a request as due, and one that looks only
\* at the facts still in the bin.
DueUnrecorded(n) == facts[n].record.with \notin call.binned /\ (call.immediately \/ facts[n].record.at + Days <= call.at)
DueOnItsOwn(n) == call.immediately \/ Final(n)

\* What the purge may make final now: not a conclusion whose fact was in the
\* bin when the purge began.
Due(n) == facts[n].record.with \notin call.binned /\ (call.immediately \/ Final(n))

\* A fact that is due goes with all that rests on it.
PurgeFact(n) ==
  /\ call.kind = "purge"
  /\ n \in call.todo \cap Stored
  /\ Due(n)
  /\ Becomes(Without(facts, {n} \cup Closure(n)), Null)
  /\ call' = [call EXCEPT !.todo = @ \ {n}]
  /\ UNCHANGED <<minted, now, torn>>

\* One that is gone, is not due, cannot be seen, or that a policy keeps, stays as
\* it is.
PurgePasses(n) ==
  /\ call.kind = "purge"
  /\ n \in call.todo
  /\ call' = [call EXCEPT !.todo = @ \ {n}]
  /\ UNCHANGED <<facts, minted, now, history>>

-----------------------------------------------------------------------------
(* Calls go on, end, or are cut short.                                     *)

\* The next fact of a deletion or a return is written.
WriteNext(n) ==
  /\ n \in DOMAIN call.writes
  /\ Becomes([facts EXCEPT ![n] = call.writes[n]], call.at)
  /\ call' = [call EXCEPT !.writes = Without(@, {n})]
  /\ UNCHANGED <<minted, now, torn>>

\* The call is answered; that of an erasure request with its receipt.
Answer ==
  /\ call # Idle
  /\ call.todo = {}
  /\ call.writes = <<>>
  /\ call' = Idle
  /\ UNCHANGED <<facts, minted, now, history>>

\* The process ends, or the store fails.
Stop ==
  /\ call # Idle
  /\ call' = Idle
  /\ torn' = (torn \/ call.writes # <<>>)
  /\ UNCHANGED <<facts, minted, now, asked, home>>

NextDay ==
  /\ now < MaxNow
  /\ now' = now + 1
  /\ UNCHANGED <<facts, minted, call, history>>

NewFact(n) ==
  {[tier |-> t, record |-> NoRecord, sources |-> S] : t \in Tier, S \in Sources[n]}
  \cup {[tier |-> "PendingDeletion", record |-> [NoRecord EXCEPT !.at = at], sources |-> S] : at \in 0..MaxNow, S \in Sources[n]}

Next ==
  \/ \E n \in Id : \E fact \in NewFact(n) : Add(n, fact)
  \/ \E n \in Id : \E tier \in Tier, sources \in Sources[n] : Update(n, tier, sources)
  \/ \E chosen \in SUBSET Id, grace \in Grace : EraseWhere(chosen, grace)
  \/ \E n \in Id : EraseDone(n)
  \/ \E n \in Id : EraseRefused(n)
  \/ \E n \in Id : EraseAtOnce(n)
  \/ \E n \in Id : EraseAgain(n)
  \/ \E n \in Id : EraseIntoBin(n)
  \/ \E n \in Id : RestoreDeleted(n)
  \/ \E only \in SUBSET Id, immediately \in BOOLEAN : PurgeDeleted(only, immediately)
  \/ \E n \in Id : PurgeFact(n)
  \/ \E n \in Id : PurgePasses(n)
  \/ \E n \in Id : WriteNext(n)
  \/ Answer
  \/ Stop
  \/ NextDay

Spec == Init /\ [][Next]_vars

-----------------------------------------------------------------------------

CallState ==
  [kind : {"none", "erase", "restore", "purge"}, at : 0..MaxNow, grace : BOOLEAN, immediately : BOOLEAN,
   writes : {call.writes}, todo : SUBSET Id, chosen : SUBSET Id, stored : SUBSET Id,
   binned : SUBSET Id, erased : SUBSET Id, held : SUBSET Id, refused : SUBSET Id]

TypeOK ==
  /\ Stored \subseteq minted /\ minted \subseteq Id
  /\ facts \in [Stored -> Fact]
  /\ \A n \in Stored \ Binned : facts[n].record = NoRecord
  /\ now \in 0..MaxNow
  /\ call \in CallState
  /\ DOMAIN call.writes \subseteq Stored /\ call.writes \in [DOMAIN call.writes -> Fact]
  /\ asked \in [Id -> 0..MaxNow \cup {Null}]
  /\ home \in [Id -> Kept]
  /\ torn \in BOOLEAN

\* A conclusion waits only as long as the fact it was binned with, however
\* deletions of its several sources, restores and purges follow one another,
\* unless a process ended in the middle of a deletion or a return.
\* (GOVERNANCE.md:318-321.)
CompanionsWaitTogether ==
  ~torn /\ call.writes = <<>> =>
    \A n \in Binned :
      LET fact == facts[n].record.with IN
      fact \in Stored => fact \in Binned /\ facts[fact].record.at = facts[n].record.at

\* The bin holds facts with the record of their deletion, and their companions.
BinIsSound == TypeOK /\ CompanionsWaitTogether

\* "Never a conclusion on its own": what a purge erases while the fact it was
\* binned with waits, it erases along with another fact it rests on.
\* (recently-deleted.ts:160-161.)
NeverOnItsOwn ==
  [][\A n \in Stored \ Stored' :
       call.kind = "purge" /\ n \in Binned /\ facts[n].record.with \in Stored' =>
         \/ facts[n].record.with \notin Binned
         \/ \E m \in Stored \ Stored' : m # n /\ n \in Closure(m)]_vars

\* The days are a minimum, whatever deletions, returns and ended processes came
\* before: a purge that was not told to be immediate erases only a fact whose
\* deletion was asked for that long ago, and what rests on it; never, on a
\* clock, one whose deletion nobody asked for.  (GOVERNANCE.md:286-300.)
DaysAreKept ==
  [][call.kind = "purge" /\ ~call.immediately /\ Stored # Stored' =>
       \E n \in Binned \ Stored' :
         /\ Stored \ Stored' = {n} \cup Closure(n)
         /\ asked[n] # Null /\ asked[n] + Days <= now]_vars

\* A purge takes what is due, and nothing else.
PurgesWhatIsDue == NeverOnItsOwn /\ DaysAreKept

\* A fact that leaves the bin goes back to the tier it was in when it was
\* deleted, with its fact or on its own, and also when the deletion or the
\* return stopped half-way and was asked for again.  (GOVERNANCE.md:279-280.)
ComesBackWhereItWas ==
  [][\A n \in Binned : n \in Stored' /\ facts'[n].tier # "PendingDeletion" => facts'[n].tier = home[n]]_vars

\* A receipt is true and complete: every chosen fact is gone, in the bin, or was
\* refused; all it says is erased is gone and all it says is held is in the bin;
\* and nothing else went, or went into the bin, for this request.
\* (governed-store.ts, eraseWhere; docs/ERASURE.md.)
ReceiptIsTrue ==
  call.kind = "erase" /\ call.todo = {} /\ call.writes = <<>> =>
    /\ call.chosen \subseteq call.erased \cup call.held \cup call.refused
    /\ call.erased = call.stored \ Stored
    /\ call.held \subseteq Binned
    /\ Binned \ call.binned \subseteq call.held

\* "A conclusion cannot be restored on its own while its fact waits"
\* (docs/GOVERNANCE.md:320), where both wait for a recorded request.
NoneRestoredWhileItsFactWaits ==
  [][\A n \in Binned :
       /\ call = Idle /\ call'.kind = "restore"
       /\ n \in Stored' /\ facts'[n].tier # "PendingDeletion"
       /\ asked[n] # Null
       => \A m \in facts[n].sources \cap Binned : m = n \/ asked[m] = Null]_vars
=============================================================================
