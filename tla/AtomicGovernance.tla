-------------------------- MODULE AtomicGovernance --------------------------
(***************************************************************************)
(* What a governed store promises, without its awaits and its queue: a     *)
(* call that changes facts is decided, carried out and attested in one     *)
(* step.  (docs/policies/ENFORCEMENT.md, "Authorisation and the mutation   *)
(* it authorises are one step".)  GovernedStore implements this.           *)
(*                                                                         *)
(* A policy set is the data its hooks decide by.  Facts carry a label,     *)
(* which stands for all that policies look at; what a fact was concluded   *)
(* from is fixed by its id.                                                *)
(***************************************************************************)
EXTENDS Sequences, DerivedFacts

CONSTANTS Id,         \* node ids
          Actor,
          Label,
          Binned,     \* the labels of facts in Recently deleted
          RestsOn,    \* id -> the ids it was concluded from
          Sees,       \* <<actor, label>>: beforeRead lets the fact through
          MayWrite,   \* <<actor, label>>: beforeWrite does not refuse
          Shaped,     \* label -> the label beforeWrite gives it
          MayUpdate,  \* <<actor, label, new label>>: beforeUpdate does not refuse
          MayErase,   \* <<actor, label>>: a policy allows erasure and none refuses
          Call        \* calls under way at the same time

Image == [label : Label, ended : BOOLEAN]
Verb == {"add", "update", "restore", "erase"}
Request == [actor : Actor, verb : Verb, target : Id, image : Image]
Nothing == [nothing |-> TRUE]   \* no call, and no fact

-----------------------------------------------------------------------------
(* One call, on the facts f it finds.                                      *)

Graph(f) == [n \in DOMAIN f |-> RestsOn[n]]
Standing(f) == {n \in DOMAIN f : ~f[n].ended}

\* The facts a call changes besides its target: what rests on an erased fact,
\* and what stands on one that stops being true.
Closure(f, request) ==
  CASE request.verb = "erase" -> DependentsOf(Graph(f), request.target)
    [] request.verb = "update" /\ request.image.ended /\ ~f[request.target].ended ->
         RetractionsFor(Graph(f), Standing(f), request.target)
    [] OTHER -> {}

\* The image a write leaves on its target.
Written(request) ==
  IF request.verb \in {"add", "restore"}
  THEN [request.image EXCEPT !.label = Shaped[@]]
  ELSE request.image

\* Changing what decides when a fact is erased takes the right to erase it.
TouchesDeletion(old, new) == old # new /\ {old, new} \cap Binned # {}

\* beforeUpdate, and beforeErase where the change touches a deletion.
Updates(actor, old, new) ==
  /\ <<actor, old, new>> \in MayUpdate
  /\ TouchesDeletion(old, new) => <<actor, old>> \in MayErase

\* The policies' verdict on a request, given the fact the target is found as and
\* the other facts it would change.
Allows(request, found, others) ==
  CASE request.verb = "add" -> <<request.actor, request.image.label>> \in MayWrite
    [] request.verb = "update" ->
         /\ Updates(request.actor, found.label, request.image.label)
         /\ \A fact \in others : <<request.actor, fact.label, fact.label>> \in MayUpdate
    [] request.verb = "erase" -> \A fact \in others \cup {found} : <<request.actor, fact.label>> \in MayErase
    [] request.verb = "restore" ->
         /\ <<request.actor, request.image.label>> \in MayWrite
         /\ found # Nothing =>
              /\ <<request.actor, found.label>> \in Sees
              /\ Updates(request.actor, found.label, Written(request).label)

Found(f, n) == IF n \in DOMAIN f THEN f[n] ELSE Nothing

\* An update or an erasure needs a fact, and one its actor can see.
Meets(request, found) ==
  request.verb \in {"update", "erase"} => found # Nothing /\ <<request.actor, found.label>> \in Sees

Permitted(f, request) ==
  LET found == Found(f, request.target) IN
  /\ Meets(request, found)
  /\ Allows(request, found, {f[n] : n \in Closure(f, request)})

\* The facts a call leaves behind.
Applied(f, request) ==
  LET others == Closure(f, request)
      gone == others \cup {request.target}
  IN IF request.verb = "erase" THEN [n \in DOMAIN f \ gone |-> f[n]]
     ELSE [n \in DOMAIN f \cup {request.target} |->
             IF n = request.target THEN Written(request)
             ELSE IF n \in others THEN [f[n] EXCEPT !.ended = TRUE]
             ELSE f[n]]

Event(request, others) == [actor |-> request.actor, verb |-> request.verb, ids |-> {request.target} \cup others]

-----------------------------------------------------------------------------

VARIABLES facts,  \* the stored facts: id -> image
          trail,  \* the "allowed" events of changes, oldest first
          asked   \* call -> its request, or Nothing

vars == <<facts, trail, asked>>

Init ==
  /\ facts = <<>>
  /\ trail = <<>>
  /\ asked = [c \in Call |-> Nothing]

\* Any request may be made.
Ask(c) ==
  /\ asked[c] = Nothing
  /\ asked'[c] \in Request
  /\ asked' = [asked EXCEPT ![c] = asked'[c]]
  /\ UNCHANGED <<facts, trail>>

\* The call goes through: its fact and its event land together.
Do(c) ==
  /\ asked[c] # Nothing
  /\ Permitted(facts, asked[c])
  /\ facts' = Applied(facts, asked[c])
  /\ trail' = Append(trail, Event(asked[c], Closure(facts, asked[c])))
  /\ asked' = [asked EXCEPT ![c] = Nothing]

\* Calls are refused, or lost with their process, and leave nothing behind.
Refuse(calls) ==
  /\ asked' = [c \in Call |-> IF c \in calls THEN Nothing ELSE asked[c]]
  /\ UNCHANGED <<facts, trail>>

Next ==
  \/ \E c \in Call : Ask(c)
  \/ \E c \in Call : Do(c)
  \/ \E calls \in SUBSET Call : Refuse(calls)

Spec == Init /\ [][Next]_vars
=============================================================================
