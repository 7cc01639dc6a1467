---------------------------- MODULE GovernedStore ----------------------------
(***************************************************************************)
(* Governed handles over memory stores: src/src/governance/governed-store.ts *)
(* with cascade.ts.  A call that changes facts joins the queue of its store *)
(* (serialise), and once at the head reads the fact, awaits the policies,  *)
(* and writes; other calls, reads and raw writers run between its awaits.  *)
(*                                                                         *)
(* The audit sink is one of two kinds.  The store's own audit_events table *)
(* takes the event in the transaction of the change.  Any other sink is    *)
(* written after it, and once it fails every handle that writes to it      *)
(* refuses further changes until the process restarts (POISONED_AUDIT).    *)
(*                                                                         *)
(* A queue belongs to one store object in one process.  Handles of several *)
(* processes on one database are several queues on it.  The two checks of  *)
(* the sink are synchronous with what follows them, so each is part of the *)
(* step it opens.  Deletions wait in Recently deleted only on a handle     *)
(* that asks for it; this module is the handle that does not.              *)
(***************************************************************************)
EXTENDS Integers, Sequences, FiniteSets, DerivedFacts

CONSTANTS Id, Actor, Label, Binned, RestsOn, Sees, MayWrite, Shaped, MayUpdate, MayErase, Call,
          Queue,
          Database,
          Of,          \* queue -> the database its store object is open on
          Setups       \* the ways the store is set up and used

Policy == INSTANCE AtomicGovernance WITH facts <- <<>>, trail <- <<>>, asked <- <<>>
Nothing == Policy!Nothing
Image == Policy!Image
Verb == Policy!Verb
Request == [actor : Actor, verb : Verb, target : Id, image : Image]

ASSUME IdsAssumption == Binned \subseteq Label /\ RestsOn \in [Id -> SUBSET Id]
ASSUME PoliciesAssumption ==
  /\ Sees \subseteq Actor \X Label
  /\ MayWrite \subseteq Actor \X Label
  /\ Shaped \in [Label -> Label]
  /\ MayUpdate \subseteq Actor \X Label \X Label
  /\ MayErase \subseteq Actor \X Label
ASSUME QueuesAssumption == Of \in [Queue -> Database] /\ "none" \notin Queue

\* Whether the sink is the store's own table; what someone writes through the
\* inner store; the calls made; and a bound: no call is made once a trail is this
\* long.
ASSUME SetupsAssumption ==
  \A s \in Setups :
    /\ s.ownTable \in BOOLEAN
    /\ s.raw \subseteq [target : Id, image : Image]
    /\ s.asks \subseteq [verb : Verb, target : Id, image : Image]
    /\ s.maxEvents \in Nat

VARIABLES setup,      \* one of Setups
          facts,      \* database -> its stored facts
          trail,      \* database -> the "allowed" events of its changes
          minted,     \* database -> every id it handed out
          context,    \* the actor the host is serving
          calls,      \* call -> its queue, its step, its request, what it read and judged
          queue,      \* queue -> the calls in it, the one that runs first
          poisoned,   \* the sink has failed
          unrecorded  \* history variable: changes whose event the sink failed to take,
                      \* in this process's lifetime

vars == <<setup, facts, trail, minted, context, calls, queue, poisoned, unrecorded>>

Idle == [step |-> "idle", queue |-> "none", request |-> Nothing, found |-> Nothing, others |-> {}]

Init ==
  /\ setup \in Setups
  /\ facts = [d \in Database |-> <<>>]
  /\ trail = [d \in Database |-> <<>>]
  /\ minted = [d \in Database |-> {}]
  /\ context \in Actor
  /\ calls = [c \in Call |-> Idle]
  /\ queue = [q \in Queue |-> <<>>]
  /\ poisoned = FALSE
  /\ unrecorded = 0

OwnTable == setup.ownTable
Db(c) == Of[calls[c].queue]
Usable == ~poisoned

\* The call is over, resolved or rejected, and the next one in its queue runs.
Settle(c) ==
  /\ calls' = [calls EXCEPT ![c] = Idle]
  /\ queue' = [queue EXCEPT ![calls[c].queue] = Tail(@)]

Goto(c, step) == calls' = [calls EXCEPT ![c].step = step] /\ UNCHANGED queue

\* An event beside no change goes to the sink, which takes it or fails; only a
\* sink beside the database is then trusted no more.
RecordBesideNoChange == poisoned' \in {poisoned, ~OwnTable}

-----------------------------------------------------------------------------
(* A call and its steps.                                                   *)

\* A host serves one actor after another.
Serve(actor) ==
  /\ actor # context
  /\ context' = actor
  /\ UNCHANGED <<setup, facts, trail, minted, calls, queue, poisoned, unrecorded>>

\* The call is made: who asks is fixed now (authorise), the argument copied.  A
\* new fact's id is a fresh random one, so it is as good as chosen here.
Ask(c, q, ask) ==
  /\ calls[c] = Idle
  /\ \A d \in Database : Len(trail[d]) < setup.maxEvents
  /\ ask.verb = "add" => ask.target \notin minted[Of[q]]
  /\ minted' = IF ask.verb = "add" THEN [minted EXCEPT ![Of[q]] = @ \cup {ask.target}] ELSE minted
  /\ LET request == [actor |-> context, verb |-> ask.verb, target |-> ask.target, image |-> ask.image]
     IN calls' = [calls EXCEPT ![c] = [Idle EXCEPT !.step = "queued", !.queue = q, !.request = request]]
  /\ queue' = [queue EXCEPT ![q] = Append(@, c)]
  /\ UNCHANGED <<setup, facts, trail, context, poisoned, unrecorded>>

\* Variants: a call starts as soon as it is made; a call is made in the name of
\* whoever the host serves when it starts.
BeginAtOnce(c) ==
  /\ calls[c].step = "queued"
  /\ IF Usable THEN Goto(c, "reading") ELSE Settle(c)
  /\ UNCHANGED <<setup, facts, trail, minted, context, poisoned, unrecorded>>
BeginInContext(c) ==
  /\ calls[c].step = "queued"
  /\ c = Head(queue[calls[c].queue])
  /\ IF Usable
     THEN calls' = [calls EXCEPT ![c].step = "reading", ![c].request.actor = context] /\ UNCHANGED queue
     ELSE Settle(c)
  /\ UNCHANGED <<setup, facts, trail, minted, context, poisoned, unrecorded>>

\* The head of the queue starts, unless the sink has failed.
Begin(c) ==
  /\ calls[c].step = "queued"
  /\ c = Head(queue[calls[c].queue])
  /\ IF Usable THEN Goto(c, "reading") ELSE Settle(c)
  /\ UNCHANGED <<setup, facts, trail, minted, context, poisoned, unrecorded>>

\* The target is read.  A call about a fact that is not there, or that its actor
\* cannot see, ends here: both look the same, the second is audited as denied.
Look(c) ==
  LET request == calls[c].request
      found == Policy!Found(facts[Db(c)], request.target)
  IN
  /\ calls[c].step = "reading"
  /\ IF Policy!Meets(request, found)
     THEN /\ calls' = [calls EXCEPT ![c].step = "judging", ![c].found = found]
          /\ UNCHANGED <<queue, poisoned>>
     ELSE /\ Settle(c)
          /\ IF found = Nothing THEN UNCHANGED poisoned ELSE RecordBesideNoChange
  /\ UNCHANGED <<setup, facts, trail, minted, context, unrecorded>>

\* The other facts the call will change, read while the policies are asked.
Others(c) ==
  LET f == facts[Db(c)]
      request == calls[c].request
  IN IF calls[c].found = Nothing \/ request.target \notin DOMAIN f THEN {} ELSE Policy!Closure(f, request)

\* A variant in which a refusal never settles.
JudgeJamming(c) ==
  LET others == Others(c)
      images == {facts[Db(c)][n] : n \in others}
  IN
  /\ calls[c].step = "judging"
  /\ Policy!Allows(calls[c].request, calls[c].found, images)
  /\ calls' = [calls EXCEPT ![c].step = "writing", ![c].others = others]
  /\ UNCHANGED <<setup, facts, trail, minted, context, queue, poisoned, unrecorded>>

\* The policies judge the change and every change it brings about as one; a
\* refusal is audited.
Judge(c) ==
  LET others == Others(c)
      images == {facts[Db(c)][n] : n \in others}
  IN
  /\ calls[c].step = "judging"
  /\ IF Policy!Allows(calls[c].request, calls[c].found, images)
     THEN /\ calls' = [calls EXCEPT ![c].step = "writing", ![c].others = others]
          /\ UNCHANGED <<queue, poisoned>>
     ELSE Settle(c) /\ RecordBesideNoChange
  /\ UNCHANGED <<setup, facts, trail, minted, context, unrecorded>>

\* The change as the inner store makes it, on the facts as they are now.
CanApply(c) == calls[c].request.verb = "update" => calls[c].request.target \in DOMAIN facts[Db(c)]
Change(c) == facts' = [facts EXCEPT ![Db(c)] = Policy!Applied(@, calls[c].request)]
Attest(c) == trail' = [trail EXCEPT ![Db(c)] = Append(@, Policy!Event(calls[c].request, calls[c].others))]

\* A variant without the second check of the sink.
WriteUnchecked(c) ==
  /\ calls[c].step = "writing"
  /\ \/ Settle(c) /\ UNCHANGED <<facts, trail>>
     \/ CanApply(c) /\ OwnTable /\ Change(c) /\ Attest(c) /\ Settle(c)
     \/ CanApply(c) /\ ~OwnTable /\ Change(c) /\ Goto(c, "recording") /\ UNCHANGED trail
  /\ UNCHANGED <<setup, minted, context, poisoned, unrecorded>>

\* commitAudited.  The sink is checked again.  The store may refuse the change,
\* or roll it back with an event that cannot be appended.
Write(c) ==
  /\ calls[c].step = "writing"
  /\ \/ Settle(c) /\ UNCHANGED <<facts, trail>>
     \/ Usable /\ CanApply(c) /\ OwnTable /\ Change(c) /\ Attest(c) /\ Settle(c)
     \/ Usable /\ CanApply(c) /\ ~OwnTable /\ Change(c) /\ Goto(c, "recording") /\ UNCHANGED trail
  /\ UNCHANGED <<setup, minted, context, poisoned, unrecorded>>

\* A variant that forgets the failure.
RecordUnlatched(c) ==
  /\ calls[c].step = "recording"
  /\ Settle(c)
  /\ \/ Attest(c) /\ UNCHANGED unrecorded
     \/ unrecorded' = unrecorded + 1 /\ UNCHANGED trail
  /\ UNCHANGED <<setup, facts, minted, context, poisoned>>

\* The event of a change already made goes to a sink beside the database.
Record(c) ==
  /\ calls[c].step = "recording"
  /\ Settle(c)
  /\ \/ Attest(c) /\ UNCHANGED <<poisoned, unrecorded>>
     \/ poisoned' = TRUE /\ unrecorded' = unrecorded + 1 /\ UNCHANGED trail
  /\ UNCHANGED <<setup, facts, minted, context>>

-----------------------------------------------------------------------------
(* Around the calls.                                                       *)

\* A read is not queued.  Its event may be the one the sink fails on.
Read ==
  /\ RecordBesideNoChange
  /\ UNCHANGED <<setup, facts, trail, minted, context, calls, queue, unrecorded>>

RawWrite(d, n, image) ==
  /\ \/ facts' = [facts EXCEPT ![d] = [m \in DOMAIN @ \cup {n} |-> IF m = n THEN image ELSE @[m]]]
     \/ facts' = [facts EXCEPT ![d] = [m \in DOMAIN @ \ {n} |-> @[m]]]
  /\ minted' = [minted EXCEPT ![d] = @ \cup {n}]
  /\ UNCHANGED <<setup, trail, context, calls, queue, poisoned, unrecorded>>

\* A process ends and starts again: that of one queue, or of all that share a sink
\* beside the database.
Restart(q) ==
  LET gone == {c \in Call : calls[c] # Idle /\ (OwnTable => calls[c].queue = q)} IN
  /\ calls' = [c \in Call |-> IF c \in gone THEN Idle ELSE calls[c]]
  /\ queue' = [p \in Queue |-> IF OwnTable /\ p # q THEN queue[p] ELSE <<>>]
  /\ poisoned' = FALSE
  /\ unrecorded' = 0
  /\ UNCHANGED <<setup, facts, trail, minted, context>>

Step(c) == Begin(c) \/ Look(c) \/ Judge(c) \/ Write(c) \/ Record(c)

Next ==
  \/ \E actor \in Actor : Serve(actor)
  \/ \E c \in Call, q \in Queue, ask \in setup.asks : Ask(c, q, ask)
  \/ \E c \in Call : Begin(c)
  \/ \E c \in Call : Look(c)
  \/ \E c \in Call : Judge(c)
  \/ \E c \in Call : Write(c)
  \/ \E c \in Call : Record(c)
  \/ Read
  \/ \E d \in Database, write \in setup.raw : RawWrite(d, write.target, write.image)
  \/ \E q \in Queue : Restart(q)

Spec == Init /\ [][Next]_vars

\* The event loop runs every promise job that is ready; the store, the policies
\* and the sink answer.
FairSpec == Spec /\ \A c \in Call : WF_vars(Step(c))

-----------------------------------------------------------------------------

Steps == {"queued", "reading", "judging", "writing", "recording"}
CallRecord ==
  [step : Steps, queue : Queue, request : Request, found : Image \cup {Nothing}, others : SUBSET Id]
Stored(f) == DOMAIN f \subseteq Id /\ f \in [DOMAIN f -> Image]
AuditEvent == [actor : Actor, verb : Verb, ids : SUBSET Id]

\* A call is in its queue, once, from when it is made until it ends, and only the
\* head has begun.
QueuesOK ==
  \A q \in Queue :
    /\ \A j, k \in DOMAIN queue[q] : queue[q][j] = queue[q][k] => j = k
    /\ {queue[q][k] : k \in DOMAIN queue[q]} = {c \in Call : calls[c].queue = q}
    /\ \A k \in DOMAIN queue[q] : k > 1 => calls[queue[q][k]].step = "queued"

\* Types, and: calls run one at a time, in the order they were made.  (serialise,
\* governed-store.ts:253-260.)
TypeOK ==
  /\ setup \in Setups
  /\ QueuesOK
  /\ DOMAIN facts = Database /\ \A d \in Database : Stored(facts[d])
  /\ trail \in [Database -> Seq(AuditEvent)]
  /\ minted \in [Database -> SUBSET Id]
  /\ context \in Actor
  /\ calls \in [Call -> CallRecord \cup {Idle}]
  /\ queue \in [Queue -> Seq(Call)]
  /\ poisoned \in BOOLEAN
  /\ unrecorded \in Nat

\* With the store's own table, one store object and no raw writer, a governed call is
\* one step although it awaits: decided on the very facts it changes, by what the
\* actor who asked may see and do, and attested with all it changed by an event in
\* the same step; or it leaves nothing.  (governed-store.ts:232-253; ENFORCEMENT.md,
\* "Authorisation and the mutation it authorises are one step".)
TheDatabase == CHOOSE d \in Database : TRUE
OneStore == \E q \in Queue : Queue = {q} /\ Database = {Of[q]}
Governed == OneStore /\ OwnTable /\ setup.raw = {}
GovernedFacts == IF Governed THEN facts[TheDatabase] ELSE <<>>
GovernedTrail == IF Governed THEN trail[TheDatabase] ELSE <<>>
Requests == [c \in Call |-> IF Governed THEN calls[c].request ELSE Nothing]
Atomic == INSTANCE AtomicGovernance WITH facts <- GovernedFacts, trail <- GovernedTrail, asked <- Requests
Implements == Atomic!Spec

\* Until the process restarts a failed sink leaves one change without its event
\* and no more, whatever is in flight: "That one" is a bound
\* (docs/policies/ENFORCEMENT.md:29; governed-store.ts:99-109).
OneUnrecorded == unrecorded <= 1

\* Once the sink has failed no governed call changes anything: what changes facts
\* from then on is no step of a call.  (governed-store.ts:99-109.)
NothingChangesOncePoisoned == [][poisoned /\ calls' # calls => facts' = facts]_vars

\* The two bounds a failed sink sets.
StopsOncePoisoned == []OneUnrecorded /\ NothingChangesOncePoisoned

\* Every call ends: a refusal, a failed sink or a failed write does not jam the
\* queue for the calls behind it.  (serialise, governed-store.ts:253-260.)
EveryCallEnds == \A c \in Call : calls[c].step = "queued" ~> calls[c] = Idle

\* Calls run one at a time, in the order they were made, and each has its turn.
CallsTakeTurns == []TypeOK /\ EveryCallEnds
=============================================================================
