------------------------- MODULE GovernedStore_proofs -------------------------
(***************************************************************************)
(* What holds of governed calls (GovernedStore) for any policies, facts,   *)
(* calls, store objects and databases; and, for one store object with its  *)
(* own audit table, that the calls implement AtomicGovernance.             *)
(***************************************************************************)
EXTENDS GovernedStore, FiniteSetTheorems, TLAPS

-----------------------------------------------------------------------------
(* What a request does to the facts.                                       *)

LEMMA ClosureIsStored ==
  ASSUME NEW f, NEW request PROVE Policy!Closure(f, request) \subseteq DOMAIN f
  BY DEF Policy!Closure, Policy!DependentsOf, Policy!RetractionsFor, Policy!Among, Policy!Graph

LEMMA WrittenIsImage ==
  ASSUME NEW request \in Request PROVE Policy!Written(request) \in Image
  BY PoliciesAssumption DEF Policy!Written, Request, Image, Policy!Image

LEMMA AppliedIsStored ==
  ASSUME NEW f, Stored(f), NEW request \in Request PROVE Stored(Policy!Applied(f, request))
  <1> DEFINE others == Policy!Closure(f, request)
  <1>1. request.target \in Id /\ DOMAIN f \subseteq Id /\ \A n \in DOMAIN f : f[n] \in Image
    BY DEF Request, Stored
  <1>2. \A n \in DOMAIN f : [f[n] EXCEPT !.ended = TRUE] \in Image
    BY <1>1 DEF Image, Policy!Image
  <1>3. CASE request.verb = "erase"
    BY <1>1, <1>3 DEF Policy!Applied, Stored
  <1>4. CASE request.verb # "erase"
    <2> DEFINE image(n) == IF n = request.target THEN Policy!Written(request)
                           ELSE IF n \in others THEN [f[n] EXCEPT !.ended = TRUE]
                           ELSE f[n]
    <2>1. Policy!Applied(f, request) = [n \in DOMAIN f \cup {request.target} |-> image(n)]
      BY <1>4 DEF Policy!Applied
    <2>2. \A n \in DOMAIN f \cup {request.target} : image(n) \in Image
      BY <1>1, <1>2, WrittenIsImage
    <2> HIDE DEF image
    <2>3. QED
      BY <1>1, <2>1, <2>2 DEF Stored
  <1>5. QED
    BY <1>3, <1>4

-----------------------------------------------------------------------------
(* Queues.                                                                 *)

\* QueuesOK says this of each queue.
InTurn(q) ==
  /\ \A j, k \in DOMAIN queue[q] : queue[q][j] = queue[q][k] => j = k
  /\ {queue[q][k] : k \in DOMAIN queue[q]} = {c \in Call : calls[c].queue = q}
  /\ \A k \in DOMAIN queue[q] : k > 1 => calls[queue[q][k]].step = "queued"

LEMMA QueuesInTurn == QueuesOK' <=> \A q \in Queue : InTurn(q)'
  BY DEF QueuesOK, InTurn

\* The call that has begun is the head of its queue.
LEMMA BegunIsHead ==
  ASSUME TypeOK, NEW c \in Call, calls[c] # Idle, calls[c].step # "queued"
  PROVE  /\ calls[c].queue \in Queue /\ calls[c].request \in Request
         /\ queue[calls[c].queue] # <<>> /\ c = Head(queue[calls[c].queue])
  <1> DEFINE q == calls[c].queue
  <1>1. calls[c] \in CallRecord
    BY DEF TypeOK
  <1>2. q \in Queue /\ calls[c].request \in Request
    BY <1>1 DEF CallRecord
  <1>3. queue[q] \in Seq(Call)
    BY <1>2 DEF TypeOK
  <1>4. PICK k \in DOMAIN queue[q] : queue[q][k] = c
    BY <1>2 DEF TypeOK, QueuesOK
  <1>5. k = 1
    BY <1>2, <1>3, <1>4 DEF TypeOK, QueuesOK
  <1>6. QED
    BY <1>2, <1>3, <1>4, <1>5

\* In a queue whose head leaves the others keep their order.
LEMMA TailOfQueue ==
  ASSUME NEW s \in Seq(Call), s # <<>>
  PROVE  /\ Tail(s) \in Seq(Call)
         /\ DOMAIN Tail(s) = 1..(Len(s) - 1)
         /\ DOMAIN s = 1..Len(s) /\ Len(s) \in Nat \ {0}
         /\ \A k \in DOMAIN Tail(s) : Tail(s)[k] = s[k + 1]
  OBVIOUS

LEMMA AppendToQueue ==
  ASSUME NEW s \in Seq(Call), NEW c \in Call
  PROVE  /\ Append(s, c) \in Seq(Call)
         /\ DOMAIN Append(s, c) = 1..(Len(s) + 1)
         /\ DOMAIN s = 1..Len(s) /\ Len(s) \in Nat
         /\ \A k \in DOMAIN s : Append(s, c)[k] = s[k]
         /\ Append(s, c)[Len(s) + 1] = c
  OBVIOUS

LEMMA SettleQueuesOK ==
  ASSUME TypeOK, NEW c \in Call, calls[c] # Idle, Settle(c),
         c = Head(queue[calls[c].queue]), queue[calls[c].queue] # <<>>
  PROVE  /\ QueuesOK'
         /\ calls' \in [Call -> CallRecord \cup {Idle}]
         /\ queue' \in [Queue -> Seq(Call)]
  <1>1. PICK q \in Queue : q = calls[c].queue /\ queue[q] \in Seq(Call)
    BY DEF TypeOK, CallRecord
  <1> DEFINE s == queue[q]
  <1>2. /\ queue' \in [Queue -> Seq(Call)]
        /\ queue'[q] = Tail(s) /\ \A p \in Queue \ {q} : queue'[p] = queue[p]
    BY <1>1, TailOfQueue DEF TypeOK, Settle
  <1>3. /\ calls' \in [Call -> CallRecord \cup {Idle}]
        /\ calls'[c] = Idle /\ \A d \in Call \ {c} : calls'[d] = calls[d]
    BY DEF TypeOK, Settle
  <1>4. Idle.queue = "none" /\ "none" \notin Queue
    BY QueuesAssumption DEF Idle
  <1>5. ASSUME NEW p \in Queue, p # q
        PROVE  InTurn(p)'
    <2>1. {d \in Call : calls'[d].queue = p} = {d \in Call : calls[d].queue = p}
      BY <1>1, <1>3, <1>4, <1>5
    <2>2. \A k \in DOMAIN queue[p] : queue[p][k] \in Call /\ queue[p][k] # c
      <3>1. \A k \in DOMAIN queue[p] : queue[p][k] \in {d \in Call : calls[d].queue = p}
        BY DEF TypeOK, QueuesOK
      <3>2. QED
        BY <1>1, <1>5, <3>1
    <2>3. QED
      BY <1>2, <1>3, <1>5, <2>1, <2>2 DEF TypeOK, QueuesOK, InTurn
  <1>6. InTurn(q)'
    <2>1. /\ DOMAIN Tail(s) = 1..(Len(s) - 1) /\ DOMAIN s = 1..Len(s) /\ Len(s) \in Nat \ {0}
          /\ \A k \in DOMAIN Tail(s) : Tail(s)[k] = s[k + 1]
      BY <1>1, TailOfQueue
    <2>2. /\ \A j, k \in DOMAIN s : s[j] = s[k] => j = k
          /\ {s[k] : k \in DOMAIN s} = {d \in Call : calls[d].queue = q}
          /\ \A k \in DOMAIN s : k > 1 => calls[s[k]].step = "queued"
      BY <1>1 DEF TypeOK, QueuesOK
    <2>3. s[1] = c
      BY <1>1
    <2> HIDE DEF s
    <2>4. \A j, k \in DOMAIN Tail(s) : Tail(s)[j] = Tail(s)[k] => j = k
      BY <2>1, <2>2
    <2>5. \A k \in DOMAIN Tail(s) : k + 1 \in DOMAIN s /\ k + 1 > 1 /\ Tail(s)[k] # c
      BY <2>1, <2>2, <2>3
    <2>6. {Tail(s)[k] : k \in DOMAIN Tail(s)} = {d \in Call : calls[d].queue = q} \ {c}
      <3>1. ASSUME NEW d \in {d \in Call : calls[d].queue = q} \ {c}
            PROVE  \E k \in DOMAIN Tail(s) : Tail(s)[k] = d
        <4>1. PICK j \in DOMAIN s : s[j] = d
          BY <2>2, <3>1
        <4>2. j # 1
          BY <2>3, <3>1, <4>1
        <4>3. j - 1 \in DOMAIN Tail(s) /\ (j - 1) + 1 = j
          BY <2>1, <4>2
        <4>4. QED
          BY <2>1, <4>1, <4>3
      <3>2. ASSUME NEW k \in DOMAIN Tail(s)
            PROVE  Tail(s)[k] \in {d \in Call : calls[d].queue = q} \ {c}
        <4>1. Tail(s)[k] = s[k + 1] /\ k + 1 \in DOMAIN s
          BY <2>1, <2>5
        <4>2. s[k + 1] \in {d \in Call : calls[d].queue = q}
          BY <2>2, <4>1
        <4>3. QED
          BY <2>5, <4>1, <4>2
      <3>3. QED
        BY <3>1, <3>2
    <2>7. {d \in Call : calls'[d].queue = q} = {d \in Call : calls[d].queue = q} \ {c}
      BY <1>1, <1>3, <1>4
    <2>8. \A k \in DOMAIN Tail(s) : k > 1 => calls'[Tail(s)[k]].step = "queued"
      <3>1. \A k \in DOMAIN Tail(s) : Tail(s)[k] \in Call \ {c} /\ calls[Tail(s)[k]].step = "queued"
        BY <2>1, <2>2, <2>5, <2>6
      <3>2. QED
        BY <1>3, <3>1
    <2>9. QED
      BY <1>2, <2>4, <2>6, <2>7, <2>8 DEF InTurn
  <1>7. QED
    BY <1>2, <1>3, <1>5, <1>6, QueuesInTurn

\* A call that goes on keeps its place, at the head.
LEMMA GoOnQueuesOK ==
  ASSUME TypeOK, NEW c \in Call, calls[c] # Idle, NEW call \in CallRecord,
         calls' = [calls EXCEPT ![c] = call], call.queue = calls[c].queue,
         c = Head(queue[calls[c].queue]), UNCHANGED queue
  PROVE  /\ QueuesOK'
         /\ calls' \in [Call -> CallRecord \cup {Idle}]
         /\ calls'[c] = call /\ \A d \in Call \ {c} : calls'[d] = calls[d]
  <1>1. /\ calls' \in [Call -> CallRecord \cup {Idle}]
        /\ calls'[c] = call /\ \A d \in Call \ {c} : calls'[d] = calls[d]
    BY DEF TypeOK
  <1>2. ASSUME NEW q \in Queue PROVE InTurn(q)'
    <2>1. queue[q] \in Seq(Call) /\ InTurn(q)
      BY DEF TypeOK, QueuesOK, InTurn
    <2>2. {d \in Call : calls'[d].queue = q} = {d \in Call : calls[d].queue = q}
      BY <1>1
    <2>3. \A k \in DOMAIN queue[q] : k > 1 => calls'[queue[q][k]].step = "queued"
      <3>1. ASSUME NEW k \in DOMAIN queue[q], k > 1 PROVE calls'[queue[q][k]].step = "queued"
        <4>1. queue[q][k] \in {d \in Call : calls[d].queue = q} /\ calls[queue[q][k]].step = "queued"
          BY <2>1, <3>1 DEF InTurn
        <4>2. queue[q][k] # c
          <5>1. SUFFICES ASSUME queue[q][k] = c PROVE FALSE
            OBVIOUS
          <5>2. 1 \in DOMAIN queue[q] /\ c = queue[q][1]
            BY <2>1, <3>1, <4>1, <5>1
          <5>3. QED
            BY <2>1, <3>1, <5>1, <5>2 DEF InTurn
        <4>3. QED
          BY <1>1, <4>1, <4>2
      <3>2. QED
        BY <3>1
    <2>4. QED
      BY <2>1, <2>2, <2>3 DEF InTurn
  <1>3. QED
    BY <1>1, <1>2, QueuesInTurn

\* A call that is made goes to the end of its queue.
LEMMA AskQueuesOK ==
  ASSUME TypeOK, NEW c \in Call, calls[c] = Idle, NEW q \in Queue, NEW call \in CallRecord,
         call.queue = q, call.step = "queued",
         calls' = [calls EXCEPT ![c] = call],
         queue' = [queue EXCEPT ![q] = Append(@, c)]
  PROVE  /\ QueuesOK'
         /\ calls' \in [Call -> CallRecord \cup {Idle}]
         /\ queue' \in [Queue -> Seq(Call)]
  <1> DEFINE s == queue[q]
  <1>1. s \in Seq(Call)
    BY DEF TypeOK
  <1>2. /\ queue' \in [Queue -> Seq(Call)]
        /\ queue'[q] = Append(s, c) /\ \A p \in Queue \ {q} : queue'[p] = queue[p]
    BY <1>1, AppendToQueue DEF TypeOK
  <1>3. /\ calls' \in [Call -> CallRecord \cup {Idle}]
        /\ calls'[c] = call /\ \A d \in Call \ {c} : calls'[d] = calls[d]
    BY DEF TypeOK
  <1>4. calls[c].queue = "none" /\ "none" \notin Queue
    BY QueuesAssumption DEF Idle
  <1>5. \A p \in Queue : {d \in Call : calls'[d].queue = p} =
                         {d \in Call : calls[d].queue = p} \cup (IF p = q THEN {c} ELSE {})
    BY <1>3, <1>4
  <1>6. \A p \in Queue : /\ InTurn(p)
                         /\ \A k \in DOMAIN queue[p] : queue[p][k] \in Call \ {c}
    <2>1. ASSUME NEW p \in Queue PROVE InTurn(p)
      BY DEF TypeOK, QueuesOK, InTurn
    <2>2. ASSUME NEW p \in Queue, NEW k \in DOMAIN queue[p] PROVE queue[p][k] \in Call \ {c}
      <3>1. queue[p][k] \in {d \in Call : calls[d].queue = p}
        BY <2>1, <2>2 DEF InTurn
      <3>2. QED
        BY <1>4, <3>1
    <2>3. QED
      BY <2>1, <2>2
  <1>7. ASSUME NEW p \in Queue, p # q PROVE InTurn(p)'
    BY <1>2, <1>3, <1>5, <1>6, <1>7 DEF InTurn
  <1>8. InTurn(q)'
    <2>1. /\ DOMAIN Append(s, c) = 1..(Len(s) + 1)
          /\ DOMAIN s = 1..Len(s) /\ Len(s) \in Nat
          /\ \A k \in DOMAIN s : Append(s, c)[k] = s[k]
          /\ Append(s, c)[Len(s) + 1] = c
      BY <1>1, AppendToQueue
    <2>2. /\ \A j, k \in DOMAIN s : s[j] = s[k] => j = k
          /\ {s[k] : k \in DOMAIN s} = {d \in Call : calls[d].queue = q}
          /\ \A k \in DOMAIN s : k > 1 => calls[s[k]].step = "queued"
          /\ \A k \in DOMAIN s : s[k] \in Call \ {c}
      BY <1>6 DEF InTurn
    <2> DEFINE t == queue'[q]
    <2>3. /\ DOMAIN t = 1..(Len(s) + 1)
          /\ \A k \in DOMAIN s : t[k] = s[k]
          /\ t[Len(s) + 1] = c
      BY <1>2, <2>1
    <2> HIDE DEF s, t
    <2>4. \A j, k \in DOMAIN t : t[j] = t[k] => j = k
      BY <2>1, <2>2, <2>3
    <2>5. {t[k] : k \in DOMAIN t} = {s[k] : k \in DOMAIN s} \cup {c}
      BY <2>1, <2>3
    <2>6. {t[k] : k \in DOMAIN t} = {d \in Call : calls'[d].queue = q}
      BY <1>5, <2>2, <2>5
    <2>7. \A k \in DOMAIN t : k > 1 => calls'[t[k]].step = "queued"
      <3>1. ASSUME NEW k \in DOMAIN t, k > 1 PROVE calls'[t[k]].step = "queued"
        <4>1. CASE k = Len(s) + 1
          BY <1>3, <2>3, <4>1
        <4>2. CASE k \in DOMAIN s
          BY <1>3, <2>2, <2>3, <3>1, <4>2
        <4>3. QED
          BY <2>1, <2>3, <4>1, <4>2
      <3>2. QED
        BY <3>1
    <2>8. QED
      BY <2>4, <2>6, <2>7 DEF InTurn, t
  <1>9. QED
    BY <1>2, <1>3, <1>7, <1>8, QueuesInTurn

-----------------------------------------------------------------------------
(* The type of the state.                                                  *)

LEMMA InitTypeOK == Init => TypeOK
  <1> SUFFICES ASSUME Init PROVE TypeOK
    OBVIOUS
  <1>1. \A c \in Call : calls[c].queue \notin Queue
    BY QueuesAssumption DEF Init, Idle
  <1>2. QueuesOK
    BY <1>1 DEF Init, QueuesOK
  <1>3. Stored(<<>>)
    BY DEF Stored
  <1>4. \A d \in Database : Stored(facts[d])
    BY <1>3 DEF Init
  <1>5. trail \in [Database -> Seq(AuditEvent)] /\ queue \in [Queue -> Seq(Call)]
    BY DEF Init
  <1>6. calls \in [Call -> CallRecord \cup {Idle}] /\ minted \in [Database -> SUBSET Id]
    BY DEF Init
  <1>7. QED
    BY <1>2, <1>4, <1>5, <1>6 DEF Init, TypeOK

\* A call is over: it leaves its queue, and the rest of the state is as it was or
\* as its step left it.
LEMMA SettleTypeOK ==
  ASSUME TypeOK, NEW c \in Call, calls[c] # Idle, c = Head(queue[calls[c].queue]),
         queue[calls[c].queue] # <<>>, Settle(c), UNCHANGED <<setup, minted, context>>,
         DOMAIN facts' = Database, \A d \in Database : Stored(facts[d])', trail' \in [Database -> Seq(AuditEvent)],
         poisoned' \in BOOLEAN, unrecorded' \in Nat
  PROVE  TypeOK'
  BY SettleQueuesOK DEF TypeOK

\* A call goes on.
LEMMA GoOnTypeOK ==
  ASSUME TypeOK, NEW c \in Call, calls[c] # Idle, c = Head(queue[calls[c].queue]),
         NEW call \in CallRecord, call.queue = calls[c].queue,
         calls' = [calls EXCEPT ![c] = call],
         UNCHANGED <<setup, minted, context, queue, poisoned, unrecorded, trail>>,
         DOMAIN facts' = Database, \A d \in Database : Stored(facts[d])'
  PROVE  TypeOK'
  BY GoOnQueuesOK DEF TypeOK

LEMMA AskTypeOK ==
  ASSUME TypeOK, NEW c \in Call, NEW q \in Queue, NEW ask \in setup.asks, Ask(c, q, ask)
  PROVE  TypeOK'
  <1> DEFINE request == [actor |-> context, verb |-> ask.verb, target |-> ask.target, image |-> ask.image]
             call == [Idle EXCEPT !.step = "queued", !.queue = q, !.request = request]
  <1>1. ask \in [verb : Verb, target : Id, image : Image]
    BY SetupsAssumption DEF TypeOK
  <1>2. request \in Request /\ ask.target \in Id
    BY <1>1 DEF TypeOK, Request
  <1>3. call \in CallRecord /\ call.queue = q /\ call.step = "queued"
    BY <1>2 DEF CallRecord, Idle, Steps
  <1>4. calls[c] = Idle /\ calls' = [calls EXCEPT ![c] = call] /\ queue' = [queue EXCEPT ![q] = Append(@, c)]
    BY DEF Ask
  <1>5. QueuesOK' /\ calls' \in [Call -> CallRecord \cup {Idle}] /\ queue' \in [Queue -> Seq(Call)]
    <2> HIDE DEF call
    <2>1. QED
      BY <1>3, <1>4, AskQueuesOK
  <1>6. minted' \in [Database -> SUBSET Id]
    BY <1>2, QueuesAssumption DEF Ask, TypeOK
  <1>7. QED
    BY <1>5, <1>6 DEF Ask, TypeOK

\* What the steps of a call have in common: it has begun, or is the head of its
\* queue and begins.
LEMMA StepsAtHead ==
  ASSUME TypeOK, NEW c \in Call, Step(c)
  PROVE  /\ calls[c] # Idle /\ calls[c] \in CallRecord /\ calls[c].queue \in Queue
         /\ queue[calls[c].queue] # <<>> /\ c = Head(queue[calls[c].queue])
         /\ UNCHANGED <<setup, minted, context>>
  <1>1. calls[c] # Idle /\ calls[c] \in CallRecord
    BY DEF Step, Begin, Look, Judge, Write, Record, Idle, TypeOK
  <1>2. calls[c].queue \in Queue
    BY <1>1 DEF CallRecord
  <1>3. calls[c].step # "queued" => queue[calls[c].queue] # <<>> /\ c = Head(queue[calls[c].queue])
    BY <1>1, BegunIsHead
  <1>4. queue[calls[c].queue] # <<>>
    <2>1. PICK k \in DOMAIN queue[calls[c].queue] : queue[calls[c].queue][k] = c
      BY <1>2 DEF TypeOK, QueuesOK
    <2>2. queue[calls[c].queue] \in Seq(Call)
      BY <1>2 DEF TypeOK
    <2>3. QED
      BY <2>1, <2>2
  <1>5. calls[c].step = "queued" => c = Head(queue[calls[c].queue])
    BY DEF Step, Begin, Look, Judge, Write, Record
  <1>6. UNCHANGED <<setup, minted, context>>
    BY DEF Step, Begin, Look, Judge, Write, Record
  <1>7. QED
    BY <1>1, <1>2, <1>3, <1>4, <1>5, <1>6

LEMMA EventIsAuditEvent ==
  ASSUME NEW request \in Request, NEW others \in SUBSET Id
  PROVE  Policy!Event(request, others) \in AuditEvent
  BY DEF Policy!Event, AuditEvent, Request

LEMMA OthersAreIds ==
  ASSUME TypeOK, NEW c \in Call, calls[c] \in CallRecord PROVE Others(c) \in SUBSET Id
  <1>1. Stored(facts[Db(c)])
    BY QueuesAssumption DEF TypeOK, CallRecord, Db
  <1>2. QED
    BY <1>1, ClosureIsStored DEF Others, Stored

LEMMA StepTypeOK ==
  ASSUME TypeOK, NEW c \in Call, Step(c)
  PROVE  TypeOK'
  <1>1. /\ calls[c] # Idle /\ calls[c] \in CallRecord /\ calls[c].queue \in Queue
        /\ queue[calls[c].queue] # <<>> /\ c = Head(queue[calls[c].queue])
        /\ UNCHANGED <<setup, minted, context>>
    BY StepsAtHead
  <1>2. Of[calls[c].queue] \in Database /\ Stored(facts[Db(c)]) /\ calls[c].request \in Request
    BY <1>1, QueuesAssumption DEF TypeOK, Db, CallRecord
  <1>3. CASE Settle(c) /\ UNCHANGED <<facts, trail>> /\ poisoned' \in BOOLEAN /\ unrecorded' \in Nat
    BY <1>1, <1>3, SettleTypeOK DEF TypeOK
  <1>4. ASSUME NEW step \in Steps, NEW found \in Image \cup {Nothing}, NEW others \in SUBSET Id,
               calls' = [calls EXCEPT ![c] = [calls[c] EXCEPT !.step = step, !.found = found, !.others = others]],
               UNCHANGED <<queue, poisoned, unrecorded, trail>>,
               DOMAIN facts' = Database, \A d \in Database : Stored(facts[d])'
        PROVE  TypeOK'
    <2> DEFINE call == [calls[c] EXCEPT !.step = step, !.found = found, !.others = others]
    <2>1. call \in CallRecord /\ call.queue = calls[c].queue
      BY <1>1 DEF CallRecord
    <2> HIDE DEF call
    <2>2. QED
      BY <1>1, <1>4, <2>1, GoOnTypeOK DEF call
  <1>5. CASE Begin(c)
    <2>1. CASE Usable
      <3>1. calls' = [calls EXCEPT ![c] = [calls[c] EXCEPT !.step = "reading", !.found = calls[c].found,
                                                           !.others = calls[c].others]]
        BY <1>1, <1>5, <2>1 DEF Begin, Goto, CallRecord
      <3>2. QED
        BY <1>1, <1>4, <1>5, <2>1, <3>1 DEF Begin, Goto, CallRecord, Steps, TypeOK
    <2>2. CASE ~Usable
      BY <1>3, <1>5, <2>2 DEF Begin, TypeOK
    <2>3. QED
      BY <2>1, <2>2
  <1>6. CASE Look(c)
    <2> DEFINE found == Policy!Found(facts[Db(c)], calls[c].request.target)
    <2>1. found \in Image \cup {Nothing}
      BY <1>2 DEF Policy!Found, Stored, Nothing
    <2>2. CASE Policy!Meets(calls[c].request, found)
      <3>1. calls' = [calls EXCEPT ![c] = [calls[c] EXCEPT !.step = "judging", !.found = found,
                                                           !.others = calls[c].others]]
        BY <1>1, <1>6, <2>2 DEF Look, CallRecord
      <3>2. QED
        BY <1>1, <1>4, <1>6, <2>1, <2>2, <3>1 DEF Look, CallRecord, Steps, TypeOK
    <2>3. CASE ~Policy!Meets(calls[c].request, found)
      BY <1>3, <1>6, <2>3 DEF Look, TypeOK, RecordBesideNoChange
    <2>4. QED
      BY <2>2, <2>3
  <1>7. CASE Judge(c)
    <2> DEFINE images == {facts[Db(c)][n] : n \in Others(c)}
    <2>1. CASE Policy!Allows(calls[c].request, calls[c].found, images)
      <3>1. calls' = [calls EXCEPT ![c] = [calls[c] EXCEPT !.step = "writing", !.found = calls[c].found,
                                                           !.others = Others(c)]]
        BY <1>1, <1>7, <2>1 DEF Judge, CallRecord
      <3>2. QED
        BY <1>1, <1>4, <1>7, <2>1, <3>1, OthersAreIds DEF Judge, CallRecord, Steps, TypeOK
    <2>2. CASE ~Policy!Allows(calls[c].request, calls[c].found, images)
      BY <1>3, <1>7, <2>2 DEF Judge, TypeOK, RecordBesideNoChange
    <2>3. QED
      BY <2>1, <2>2
  <1>8. Change(c) => DOMAIN facts' = Database /\ \A d \in Database : Stored(facts[d])'
    BY <1>2, AppliedIsStored DEF Change, TypeOK, Db
  <1>9. Attest(c) => trail' \in [Database -> Seq(AuditEvent)]
    BY <1>1, <1>2, EventIsAuditEvent DEF Attest, TypeOK, Db, CallRecord
  <1>10. CASE Write(c)
    <2>1. CASE Settle(c) /\ UNCHANGED <<facts, trail>>
      BY <1>3, <1>10, <2>1 DEF Write, TypeOK
    <2>2. CASE Change(c) /\ Attest(c) /\ Settle(c)
      BY <1>1, <1>8, <1>9, <1>10, <2>2, SettleTypeOK DEF Write, TypeOK
    <2>3. CASE Change(c) /\ Goto(c, "recording") /\ UNCHANGED trail
      <3>1. calls' = [calls EXCEPT ![c] = [calls[c] EXCEPT !.step = "recording", !.found = calls[c].found,
                                                           !.others = calls[c].others]]
        BY <1>1, <2>3 DEF Goto, CallRecord
      <3>2. QED
        BY ZenonT(60), <1>1, <1>4, <1>8, <1>10, <2>3, <3>1 DEF Write, Goto, CallRecord, Steps, TypeOK
    <2>4. QED
      BY <1>10, <2>1, <2>2, <2>3 DEF Write
  <1>11. CASE Record(c)
    <2>1. Settle(c) /\ DOMAIN facts' = Database /\ \A d \in Database : Stored(facts[d])'
      BY <1>11 DEF Record, TypeOK
    <2>2. trail' \in [Database -> Seq(AuditEvent)]
      BY <1>9, <1>11 DEF Record, TypeOK
    <2>3. poisoned' \in BOOLEAN
      BY <1>11 DEF Record, TypeOK
    <2>4. unrecorded' \in Nat
      BY <1>11 DEF Record, TypeOK
    <2>5. QED
      BY <1>1, <2>1, <2>2, <2>3, <2>4, SettleTypeOK
  <1>12. QED
    BY <1>5, <1>6, <1>7, <1>10, <1>11 DEF Step

LEMMA RawWriteTypeOK ==
  ASSUME TypeOK, NEW d \in Database, NEW write \in setup.raw, RawWrite(d, write.target, write.image)
  PROVE  TypeOK'
  <1>1. write.target \in Id /\ write.image \in Image
    BY SetupsAssumption DEF TypeOK
  <1>2. \A e \in Database : Stored(facts[e])'
    <2> DEFINE put == [m \in DOMAIN facts[d] \cup {write.target} |-> IF m = write.target THEN write.image ELSE facts[d][m]]
               left == [m \in DOMAIN facts[d] \ {write.target} |-> facts[d][m]]
    <2>1. Stored(facts[d])
      BY DEF TypeOK
    <2>2. Stored(put) /\ Stored(left)
      BY <1>1, <2>1 DEF Stored
    <2>3. facts' = [facts EXCEPT ![d] = put] \/ facts' = [facts EXCEPT ![d] = left]
      BY DEF RawWrite
    <2> HIDE DEF put, left
    <2>4. QED
      BY <2>2, <2>3 DEF TypeOK
  <1>3. minted' \in [Database -> SUBSET Id]
    BY <1>1 DEF RawWrite, TypeOK
  <1>4. QED
    BY <1>2, <1>3 DEF RawWrite, TypeOK, QueuesOK

LEMMA RestartTypeOK ==
  ASSUME TypeOK, NEW q \in Queue, Restart(q)
  PROVE  TypeOK'
  <1> DEFINE gone == {c \in Call : calls[c] # Idle /\ (OwnTable => calls[c].queue = q)}
  <1>1. /\ calls' = [c \in Call |-> IF c \in gone THEN Idle ELSE calls[c]]
        /\ queue' = [p \in Queue |-> IF OwnTable /\ p # q THEN queue[p] ELSE <<>>]
    BY DEF Restart
  <1>2. /\ calls' \in [Call -> CallRecord \cup {Idle}]
        /\ queue' \in [Queue -> Seq(Call)]
    BY <1>1 DEF TypeOK
  <1>3. \A c \in Call : calls[c].queue \notin Queue => calls[c] = Idle
    BY DEF TypeOK, CallRecord
  <1>4. Idle.queue \notin Queue
    BY QueuesAssumption DEF Idle
  <1>5. ASSUME NEW p \in Queue PROVE InTurn(p)'
    <2>1. CASE OwnTable /\ p # q
      <3>1. queue'[p] = queue[p] /\ InTurn(p)
        BY <1>1, <2>1 DEF TypeOK, QueuesOK, InTurn
      <3>2. \A c \in Call : calls[c].queue = p => calls'[c] = calls[c]
        BY <1>1, <2>1
      <3>3. {c \in Call : calls'[c].queue = p} = {c \in Call : calls[c].queue = p}
        BY <1>1, <1>4, <3>2
      <3>4. \A k \in DOMAIN queue[p] : queue[p][k] \in {c \in Call : calls[c].queue = p}
        BY <3>1 DEF InTurn
      <3>5. QED
        BY <3>1, <3>2, <3>3, <3>4 DEF InTurn
    <2>2. CASE ~(OwnTable /\ p # q)
      <3>1. queue'[p] = <<>>
        BY <1>1, <2>2
      <3>2. {c \in Call : calls'[c].queue = p} = {}
        BY <1>1, <1>4, <2>2
      <3>3. QED
        BY <3>1, <3>2 DEF InTurn
    <2>3. QED
      BY <2>1, <2>2
  <1>6. QED
    BY <1>2, <1>5, QueuesInTurn DEF Restart, TypeOK

\* Every state has its type, and in it calls wait in line: a call is in its
\* queue, once, from when it is made until it ends, and only the head of a
\* queue has begun (serialise, governed-store.ts:253-260).
THEOREM GovernedTypeOK == Spec => []TypeOK
  <1>1. TypeOK /\ [Next]_vars => TypeOK'
    <2> SUFFICES ASSUME TypeOK, [Next]_vars PROVE TypeOK'
      OBVIOUS
    <2>1. CASE \E actor \in Actor : Serve(actor)
      BY <2>1 DEF Serve, TypeOK, QueuesOK
    <2>2. CASE \E c \in Call, q \in Queue, ask \in setup.asks : Ask(c, q, ask)
      BY <2>2, AskTypeOK
    <2>3. CASE \E c \in Call : Step(c)
      BY <2>3, StepTypeOK
    <2>4. CASE Read
      <3>1. poisoned' \in BOOLEAN
        BY <2>4 DEF Read, RecordBesideNoChange, TypeOK
      <3>2. QED
        BY <2>4, <3>1 DEF Read, TypeOK, QueuesOK
    <2>5. CASE \E d \in Database, write \in setup.raw : RawWrite(d, write.target, write.image)
      BY <2>5, RawWriteTypeOK
    <2>6. CASE \E q \in Queue : Restart(q)
      BY <2>6, RestartTypeOK
    <2>7. CASE UNCHANGED vars
      BY <2>7 DEF vars, TypeOK, QueuesOK
    <2>8. QED
      BY <2>1, <2>2, <2>3, <2>4, <2>5, <2>6, <2>7 DEF Next, Step
  <1>2. QED
    BY <1>1, InitTypeOK, PTL DEF Spec

-----------------------------------------------------------------------------
(* What a failed sink costs.                                               *)

\* The store objects with a change that is made and not yet on record.
Recording == {q \in Queue : \E c \in Call : calls[c].queue = q /\ calls[c].step = "recording"}

\* Every change off the record is paid for by a store object that will make no
\* other: when the sink fails each has one such change under way, at most.
SinkOK ==
  /\ OwnTable => unrecorded = 0 /\ Recording = {}
  /\ ~poisoned => unrecorded = 0
  /\ unrecorded + Cardinality(Recording) <= Cardinality(Queue)

LEMMA FewerRecording ==
  ASSUME IsFiniteSet(Queue), TypeOK, SinkOK, Recording' \subseteq Recording, unrecorded' = unrecorded
  PROVE  unrecorded' + Cardinality(Recording') <= Cardinality(Queue)
  <1>1. IsFiniteSet(Recording)
    BY FS_Subset DEF Recording
  <1>2. Cardinality(Recording') <= Cardinality(Recording)
        /\ Cardinality(Recording') \in Nat /\ Cardinality(Recording) \in Nat /\ Cardinality(Queue) \in Nat
    BY <1>1, FS_Subset, FS_CardinalityType
  <1>3. QED
    BY <1>2 DEF SinkOK, TypeOK

LEMMA NoneUnrecorded ==
  ASSUME IsFiniteSet(Queue), unrecorded' = 0, Recording' \subseteq Queue
  PROVE  unrecorded' + Cardinality(Recording') <= Cardinality(Queue)
  <1>1. Cardinality(Recording') <= Cardinality(Queue)
        /\ Cardinality(Recording') \in Nat /\ Cardinality(Queue) \in Nat
    BY FS_Subset, FS_CardinalityType
  <1>2. QED
    BY <1>1

\* Only a write in a store whose sink is beside it and works makes a change that
\* is off the record.
LEMMA RecordingGrows ==
  ASSUME TypeOK, NEW c \in Call, Step(c)
  PROVE  Recording' \subseteq Recording \/ (Write(c) /\ Usable /\ ~OwnTable)
  <1>1. \A d \in Call \ {c} : calls'[d] = calls[d]
    BY DEF TypeOK, Step, Begin, Look, Judge, Write, Record, Settle, Goto
  <1>2. calls'[c].step # "recording" => Recording' \subseteq Recording
    BY <1>1 DEF Recording
  <1>3. calls'[c].step = "recording" => Write(c) /\ Usable /\ ~OwnTable
    <2>1. calls[c] \in CallRecord /\ c \in DOMAIN calls
      BY StepsAtHead DEF TypeOK
    <2>2. CASE Settle(c)
      BY <2>1, <2>2 DEF Settle, Idle
    <2>3. CASE Begin(c)
      BY <2>1, <2>2, <2>3 DEF Begin, Goto, CallRecord
    <2>4. CASE Look(c)
      BY <2>1, <2>2, <2>4 DEF Look, CallRecord
    <2>5. CASE Judge(c)
      BY <2>1, <2>2, <2>5 DEF Judge, CallRecord
    <2>6. CASE Write(c)
      BY <2>1, <2>2, <2>6 DEF Write
    <2>7. CASE Record(c)
      BY <2>2, <2>7 DEF Record
    <2>8. QED
      BY <2>3, <2>4, <2>5, <2>6, <2>7 DEF Step
  <1>4. QED
    BY <1>2, <1>3

LEMMA RecordSinkOK ==
  ASSUME IsFiniteSet(Queue), TypeOK, SinkOK, NEW c \in Call, Record(c)
  PROVE  SinkOK'
  <1>1. calls[c] # Idle /\ calls[c].step = "recording"
    BY DEF Record, Idle
  <1>2. PICK q \in Queue : q = calls[c].queue /\ queue[q] # <<>> /\ c = Head(queue[q])
    BY <1>1, BegunIsHead
  <1>3. q \in Recording
    BY <1>1, <1>2 DEF Recording
  <1>4. calls'[c] = Idle /\ \A d \in Call \ {c} : calls'[d] = calls[d]
    BY DEF Record, Settle, TypeOK
  <1>5. \A d \in Call : calls[d].queue = q /\ calls[d].step = "recording" => d = c
    <2>1. SUFFICES ASSUME NEW d \in Call, calls[d].queue = q, calls[d].step = "recording" PROVE d = c
      OBVIOUS
    <2>2. calls[d] # Idle /\ calls[d].step # "queued"
      BY <2>1 DEF Idle
    <2>3. QED
      BY <1>2, <2>1, <2>2, BegunIsHead
  <1>6. Recording' = Recording \ {q}
    <2>1. ASSUME NEW p \in Queue \ {q} PROVE p \in Recording' <=> p \in Recording
      <3>1. ASSUME NEW d \in Call
            PROVE  (calls'[d].queue = p /\ calls'[d].step = "recording") <=> (calls[d].queue = p /\ calls[d].step = "recording")
        <4>1. CASE d = c
          <5>1. calls'[d] = Idle
            BY <1>4, <4>1, Zenon
          <5>2. Idle.step # "recording"
            BY DEF Idle
          <5>3. calls[d].queue = q
            BY <1>2, <4>1, Zenon
          <5>4. QED
            BY <5>1, <5>2, <5>3, Zenon
        <4>2. CASE d # c
          <5>1. calls'[d] = calls[d]
            BY <1>4, <4>2, Zenon
          <5>2. QED
            BY <5>1, Zenon
        <4> QED BY <4>1, <4>2
      <3> QED BY <3>1 DEF Recording
    <2>2. q \notin Recording'
      BY <1>4, <1>5 DEF Recording, Idle
    <2>3. QED
      BY <2>1, <2>2 DEF Recording
  <1>7. IsFiniteSet(Recording) /\ IsFiniteSet(Queue)
    BY FS_Subset DEF Recording
  <1>8. Cardinality(Recording') = Cardinality(Recording) - 1
        /\ Cardinality(Recording) \in Nat /\ Cardinality(Queue) \in Nat
    BY <1>3, <1>6, <1>7, FS_RemoveElement, FS_CardinalityType
  <1>9. ~OwnTable /\ UNCHANGED setup
    BY <1>3 DEF SinkOK, Record
  <1>10. unrecorded' = unrecorded \/ (poisoned' /\ unrecorded' = unrecorded + 1)
    BY DEF Record
  <1>11. ~poisoned' => unrecorded' = 0
    BY DEF Record, SinkOK
  <1>12. QED
    BY <1>8, <1>9, <1>10, <1>11 DEF SinkOK, TypeOK, OwnTable

\* A failed sink leaves no more changes without their event than there are store
\* objects that write to it, whatever is in flight when it fails
\* (docs/policies/ENFORCEMENT.md:29, governed-store.ts:99-109).
THEOREM GovernedUnrecordedPerStore ==
  ASSUME IsFiniteSet(Queue) PROVE Spec => [](unrecorded <= Cardinality(Queue))
  <1>1. Init => SinkOK
    <2> SUFFICES ASSUME Init PROVE SinkOK
      OBVIOUS
    <2>1. Recording = {}
      BY DEF Init, Recording, Idle
    <2>2. Cardinality(Recording) = 0 /\ Cardinality(Queue) \in Nat
      BY <2>1, FS_EmptySet, FS_CardinalityType
    <2>3. unrecorded = 0
      BY DEF Init
    <2>4. QED
      BY <2>1, <2>2, <2>3 DEF SinkOK
  <1>2. TypeOK /\ SinkOK /\ [Next]_vars => SinkOK'
    <2> SUFFICES ASSUME TypeOK, SinkOK, [Next]_vars PROVE SinkOK'
      OBVIOUS
    <2>1. ASSUME UNCHANGED <<setup, poisoned, unrecorded>>, Recording' \subseteq Recording PROVE SinkOK'
      BY <2>1, FewerRecording DEF SinkOK, OwnTable
    <2>2. ASSUME UNCHANGED <<setup, unrecorded>>, Recording' \subseteq Recording, RecordBesideNoChange PROVE SinkOK'
      BY <2>2, FewerRecording DEF SinkOK, OwnTable, RecordBesideNoChange, TypeOK
    <2>3. ASSUME NEW c \in Call, NEW q \in Queue, NEW ask \in setup.asks, Ask(c, q, ask) PROVE SinkOK'
      <3>1. Recording' \subseteq Recording
        BY <2>3 DEF Ask, Recording, Idle, TypeOK
      <3>2. QED
        BY <2>1, <2>3, <3>1 DEF Ask
    <2>4. ASSUME NEW c \in Call, Step(c) PROVE SinkOK'
      <3>1. CASE Recording' \subseteq Recording /\ UNCHANGED unrecorded /\ ~Record(c)
        <4>1. UNCHANGED setup /\ (UNCHANGED poisoned \/ RecordBesideNoChange)
          BY <2>4, <3>1 DEF Step, Begin, Look, Judge, Write, Settle
        <4>2. QED
          BY <2>1, <2>2, <3>1, <4>1
      <3>2. CASE Record(c)
        BY <3>2, RecordSinkOK
      <3>3. CASE Write(c) /\ Usable /\ ~OwnTable
        <4>1. unrecorded' = 0 /\ UNCHANGED <<setup, poisoned>> /\ Recording' \subseteq Queue
          BY <3>3 DEF Write, Usable, SinkOK, Recording
        <4>2. QED
          BY <3>3, <4>1, NoneUnrecorded DEF SinkOK, OwnTable
      <3>4. ~Record(c) => UNCHANGED unrecorded
        BY <2>4 DEF Step, Begin, Look, Judge, Write
      <3>5. QED
        BY <2>4, <3>1, <3>2, <3>3, <3>4, RecordingGrows
    <2>5. ASSUME NEW q \in Queue, Restart(q) PROVE SinkOK'
      <3>1. Recording' \subseteq Recording
        BY <2>5 DEF Restart, Recording, Idle, TypeOK
      <3>2. unrecorded' = 0 /\ UNCHANGED setup
        BY <2>5 DEF Restart
      <3>3. Recording' \subseteq Queue
        BY DEF Recording
      <3>4. QED
        BY <3>1, <3>2, <3>3, NoneUnrecorded DEF SinkOK, OwnTable
    <2>6. CASE Read
      BY <2>2, <2>6 DEF Read, Recording
    <2>7. CASE (\E actor \in Actor : Serve(actor)) \/ UNCHANGED vars
               \/ \E d \in Database, write \in setup.raw : RawWrite(d, write.target, write.image)
      BY <2>1, <2>7 DEF Serve, RawWrite, vars, Recording
    <2>8. QED
      BY <2>3, <2>4, <2>5, <2>6, <2>7 DEF Next, Step
  <1>3. TypeOK /\ SinkOK => unrecorded <= Cardinality(Queue)
    <2>1. Cardinality(Recording) \in Nat /\ Cardinality(Queue) \in Nat
      BY FS_Subset, FS_CardinalityType DEF Recording
    <2>2. QED
      BY <2>1 DEF TypeOK, SinkOK
  <1>4. QED
    BY <1>1, <1>2, <1>3, GovernedTypeOK, PTL DEF Spec

\* Once the sink has failed, no governed call changes anything.
THEOREM GovernedNothingChangesOncePoisoned == Spec => NothingChangesOncePoisoned
  <1>1. [Next]_vars => [poisoned /\ calls' # calls => facts' = facts]_vars
    BY DEF Next, vars, Serve, Ask, Begin, Look, Judge, Write, Record, Read, RawWrite, Restart, Usable
  <1>2. QED
    BY <1>1, PTL DEF Spec, NothingChangesOncePoisoned

\* The one store object of a process leaves one change without its event at most
\* when its sink fails, and changes nothing after it (governed-store.ts:99-109,
\* 222; docs/policies/ENFORCEMENT.md:29).
THEOREM GovernedStopsOncePoisoned ==
  ASSUME OneStore PROVE Spec => StopsOncePoisoned
  <1>1. IsFiniteSet(Queue) /\ Cardinality(Queue) = 1
    BY FS_Singleton DEF OneStore
  <1>2. TypeOK /\ unrecorded <= Cardinality(Queue) => OneUnrecorded
    BY <1>1 DEF OneUnrecorded
  <1>3. Spec => [](unrecorded <= Cardinality(Queue))
    BY <1>1, GovernedUnrecordedPerStore
  <1>4. QED
    BY <1>2, <1>3, GovernedTypeOK, GovernedNothingChangesOncePoisoned, PTL DEF StopsOncePoisoned

-----------------------------------------------------------------------------
(* The refinement.                                                         *)

\* While a governed call waits for the policies, the facts it read are the facts
\* there are: no other call of the store has begun.
Decided(c) ==
  LET f == facts[TheDatabase]
      request == calls[c].request
  IN
  /\ calls[c].step # "recording"
  /\ calls[c].step \in {"judging", "writing"} =>
       /\ calls[c].found = Policy!Found(f, request.target)
       /\ Policy!Meets(request, calls[c].found)
  /\ calls[c].step = "writing" =>
       /\ calls[c].others = Policy!Closure(f, request)
       /\ Policy!Allows(request, calls[c].found, {f[n] : n \in calls[c].others})
DecidedOnFacts == Governed => \A c \in Call : Decided(c)

LEMMA GovernedDatabase ==
  ASSUME Governed
  PROVE  /\ TheDatabase \in Database
         /\ \A c \in Call : calls[c].queue \in Queue => Db(c) = TheDatabase
         /\ \A p, q \in Queue : p = q
         /\ OwnTable /\ setup.raw = {}
  BY DEF Governed, OneStore, TheDatabase, Db

\* Of two calls of a governed store one has not begun.
LEMMA OneBegun ==
  ASSUME TypeOK, Governed, NEW c \in Call, NEW d \in Call, calls[c] # Idle, calls[d] # Idle,
         calls[c].step # "queued", calls[d].step # "queued"
  PROVE  c = d
  BY BegunIsHead, GovernedDatabase

\* The instance without state and the one with it mean the same.
LEMMA SameClosure ==
  ASSUME NEW f, NEW request PROVE Atomic!Closure(f, request) = Policy!Closure(f, request)
  BY DEF Atomic!Closure, Policy!Closure, Atomic!DependentsOf, Policy!DependentsOf,
         Atomic!RetractionsFor, Policy!RetractionsFor, Atomic!Among, Policy!Among,
         Atomic!Closed, Policy!Closed, Atomic!Graph, Policy!Graph, Atomic!Standing, Policy!Standing

LEMMA SamePermitted ==
  ASSUME NEW f, NEW request
  PROVE  LET found == Policy!Found(f, request.target) IN
         Atomic!Permitted(f, request) <=>
           /\ Policy!Meets(request, found)
           /\ Policy!Allows(request, found, {f[n] : n \in Policy!Closure(f, request)})
  BY SameClosure
  DEF Atomic!Permitted, Atomic!Found, Policy!Found, Atomic!Nothing, Policy!Nothing, Atomic!Meets, Policy!Meets,
      Atomic!Allows, Policy!Allows, Atomic!Updates, Policy!Updates, Atomic!TouchesDeletion, Policy!TouchesDeletion,
      Atomic!Written, Policy!Written

LEMMA SameApplied ==
  ASSUME NEW f, NEW request PROVE Atomic!Applied(f, request) = Policy!Applied(f, request)
  BY SameClosure DEF Atomic!Applied, Policy!Applied, Atomic!Written, Policy!Written

\* What is decided stays so while the facts stay as they are.
LEMMA UndisturbedDecisions ==
  ASSUME TypeOK, DecidedOnFacts, Governed' => Governed,
         Governed => facts' = facts,
         \A c \in Call : \/ calls'[c] = calls[c]
                         \/ calls'[c].step \notin {"judging", "writing", "recording"}
  PROVE  DecidedOnFacts'
  BY SMTT(30) DEF DecidedOnFacts, Decided, TheDatabase

LEMMA StepDecides ==
  ASSUME TypeOK, DecidedOnFacts, NEW c \in Call, Step(c)
  PROVE  DecidedOnFacts'
  <1> SUFFICES ASSUME Governed PROVE DecidedOnFacts'
    <2>1. Governed' <=> Governed
      BY StepsAtHead DEF Governed, OwnTable
    <2>2. QED
      BY <2>1 DEF DecidedOnFacts
  <1>1. /\ calls[c] # Idle /\ calls[c] \in CallRecord /\ calls[c].queue \in Queue
        /\ UNCHANGED setup
    BY StepsAtHead
  <1>2. /\ Db(c) = TheDatabase /\ OwnTable /\ (Governed' <=> Governed)
        /\ calls[c] \in CallRecord /\ c \in DOMAIN calls
    BY <1>1, GovernedDatabase DEF Governed, OwnTable, TypeOK
  <1>3. \A d \in Call \ {c} : calls'[d] = calls[d]
    BY DEF TypeOK, Step, Begin, Look, Judge, Write, Record, Settle, Goto
  <1>4. CASE Settle(c) /\ UNCHANGED facts
    <2>1. calls'[c].step \notin {"judging", "writing", "recording"}
      BY <1>2, <1>4 DEF Settle, Idle
    <2>2. QED
      BY <1>2, <1>3, <1>4, <2>1, UndisturbedDecisions
  <1>5. CASE Begin(c)
    <2>1. calls'[c].step \notin {"judging", "writing", "recording"} /\ UNCHANGED facts
      BY <1>2, <1>5 DEF Begin, Goto, Settle, Idle, CallRecord
    <2>2. QED
      BY <1>2, <1>3, <2>1, UndisturbedDecisions
  <1>6. CASE Look(c) /\ ~Settle(c)
    <2> DEFINE found == Policy!Found(facts[TheDatabase], calls[c].request.target)
    <2>1. /\ calls' = [calls EXCEPT ![c].step = "judging", ![c].found = found]
          /\ Policy!Meets(calls[c].request, found) /\ UNCHANGED facts
      BY <1>2, <1>6 DEF Look
    <2> HIDE DEF found
    <2>2. /\ calls'[c].step = "judging" /\ calls'[c].found = found
          /\ calls'[c].request = calls[c].request
      BY <1>2, <2>1 DEF CallRecord
    <2>3. facts'[TheDatabase] = facts[TheDatabase] /\ TheDatabase' = TheDatabase
      BY <2>1 DEF TheDatabase
    <2>4. ASSUME NEW d \in Call PROVE Decided(d)'
      <3>1. CASE d = c
        BY <2>1, <2>2, <2>3, <3>1 DEF Decided, found
      <3>2. CASE d # c
        BY <1>3, <2>3, <3>2 DEF DecidedOnFacts, Decided
      <3>3. QED
        BY <3>1, <3>2
    <2>5. QED
      BY <2>4 DEF DecidedOnFacts
  <1>7. CASE Judge(c) /\ ~Settle(c)
    <2> DEFINE f == facts[TheDatabase]
               request == calls[c].request
    <2>1. /\ calls' = [calls EXCEPT ![c].step = "writing", ![c].others = Others(c)]
          /\ Policy!Allows(request, calls[c].found, {f[n] : n \in Others(c)})
          /\ calls[c].step = "judging" /\ UNCHANGED facts
      BY <1>2, <1>7 DEF Judge
    <2>2. /\ calls'[c].step = "writing" /\ calls'[c].found = calls[c].found
          /\ calls'[c].request = request /\ calls'[c].others = Others(c)
      BY <1>2, <2>1 DEF CallRecord
    <2>3. /\ calls[c].found = Policy!Found(f, request.target)
          /\ Policy!Meets(request, calls[c].found)
      BY <2>1 DEF DecidedOnFacts, Decided
    <2>4. Others(c) = Policy!Closure(f, request)
      <3>1. CASE request.target \in DOMAIN f /\ calls[c].found # Nothing
        BY <1>2, <3>1 DEF Others
      <3>2. CASE ~(request.target \in DOMAIN f /\ calls[c].found # Nothing)
        <4>1. calls[c].found = Nothing /\ Others(c) = {}
          BY <1>2, <2>3, <3>2 DEF Others, Policy!Found, Nothing
        <4>2. request.verb \notin {"update", "erase"}
          BY <2>3, <4>1 DEF Policy!Meets, Nothing
        <4>3. QED
          BY <4>1, <4>2 DEF Policy!Closure
      <3>3. QED
        BY <3>1, <3>2
    <2>5. facts'[TheDatabase] = f /\ TheDatabase' = TheDatabase
      BY <2>1 DEF TheDatabase
    <2>6. ASSUME NEW d \in Call PROVE Decided(d)'
      <3>1. CASE d = c
        <4> HIDE DEF f, request
        <4>1. QED
          BY ZenonT(60), <2>1, <2>2, <2>3, <2>4, <2>5, <3>1 DEF Decided
      <3>2. CASE d # c
        BY <1>3, <2>5, <3>2 DEF DecidedOnFacts, Decided
      <3>3. QED
        BY <3>1, <3>2
    <2>7. QED
      BY <2>6 DEF DecidedOnFacts
  <1>8. CASE Write(c) /\ Change(c) /\ Settle(c)
    <2>1. ASSUME NEW d \in Call PROVE calls'[d].step \notin {"judging", "writing", "recording"}
      <3>1. CASE d = c
        BY <1>2, <1>8, <3>1 DEF Settle, Idle
      <3>2. CASE d # c
        <4>1. calls[c].step # "queued"
          BY <1>8 DEF Write
        <4>2. calls[d] = Idle \/ calls[d].step = "queued"
          BY <1>1, <3>2, <4>1, OneBegun
        <4>3. QED
          BY <1>3, <3>2, <4>2 DEF Idle
      <3>3. QED
        BY <3>1, <3>2
    <2>2. QED
      BY <2>1 DEF DecidedOnFacts, Decided
  <1>9. ~Record(c)
    BY DEF Record, DecidedOnFacts, Decided
  <1>10. QED
    <2>1. Write(c) => (Settle(c) /\ UNCHANGED facts) \/ (Change(c) /\ Settle(c))
      BY <1>2 DEF Write
    <2>2. (Look(c) \/ Judge(c)) => UNCHANGED facts
      BY DEF Look, Judge
    <2>3. CASE Look(c) \/ Judge(c)
      BY <1>4, <1>6, <1>7, <2>2, <2>3
    <2>4. CASE Write(c)
      BY <1>4, <1>8, <2>1, <2>4
    <2>5. QED
      BY <1>5, <1>9, <2>3, <2>4 DEF Step

LEMMA DecidedInvariant == Spec => []DecidedOnFacts
  <1>1. Init => DecidedOnFacts
    BY DEF Init, DecidedOnFacts, Decided, Idle
  <1>2. TypeOK /\ DecidedOnFacts /\ [Next]_vars => DecidedOnFacts'
    <2> SUFFICES ASSUME TypeOK, DecidedOnFacts, [Next]_vars PROVE DecidedOnFacts'
      OBVIOUS
    <2>1. CASE \E c \in Call : Step(c)
      BY <2>1, StepDecides
    <2>2. CASE \E c \in Call, q \in Queue, ask \in setup.asks : Ask(c, q, ask)
      <3>1. \A c \in Call : calls'[c] = calls[c] \/ calls'[c].step = "queued"
        BY <2>2 DEF Ask, TypeOK, Idle
      <3>2. UNCHANGED <<setup, facts>>
        BY <2>2 DEF Ask
      <3>3. QED
        BY <3>1, <3>2, UndisturbedDecisions DEF Governed, OwnTable
    <2>3. CASE \E q \in Queue : Restart(q)
      <3>1. \A c \in Call : calls'[c] = calls[c] \/ calls'[c].step = "idle"
        BY <2>3 DEF Restart, Idle
      <3>2. UNCHANGED <<setup, facts>>
        BY <2>3 DEF Restart
      <3>3. QED
        BY <3>1, <3>2, UndisturbedDecisions DEF Governed, OwnTable
    <2>4. CASE \E d \in Database, write \in setup.raw : RawWrite(d, write.target, write.image)
      <3>1. ~Governed /\ UNCHANGED <<setup, calls>>
        BY <2>4 DEF RawWrite, Governed
      <3>2. QED
        BY <3>1 DEF DecidedOnFacts, Governed, OwnTable
    <2>5. CASE (\E actor \in Actor : Serve(actor)) \/ Read \/ UNCHANGED vars
      <3>1. UNCHANGED <<setup, facts, calls>>
        BY <2>5 DEF Serve, Read, vars
      <3>2. QED
        BY <3>1, UndisturbedDecisions DEF Governed, OwnTable
    <2>6. QED
      BY <2>1, <2>2, <2>3, <2>4, <2>5 DEF Next, Step
  <1>3. QED
    BY <1>1, <1>2, GovernedTypeOK, PTL DEF Spec

\* A step of the store is a step of AtomicGovernance or changes nothing it sees.
\* What each comes to:
LEMMA RequestsOfGoverned ==
  ASSUME Governed, Governed'
  PROVE  /\ GovernedFacts = facts[TheDatabase] /\ GovernedFacts' = facts'[TheDatabase]
         /\ GovernedTrail = trail[TheDatabase] /\ GovernedTrail' = trail'[TheDatabase]
         /\ Requests = [c \in Call |-> calls[c].request]
         /\ Requests' = [c \in Call |-> calls'[c].request]
  BY DEF GovernedFacts, GovernedTrail, Requests, TheDatabase

LEMMA NoRequestIsNothing ==
  ASSUME NEW request \in Request PROVE request # Nothing
  <1>1. request.actor \in Actor /\ DOMAIN request = {"actor", "verb", "target", "image"}
    BY DEF Request
  <1>2. DOMAIN Nothing = {"nothing"}
    BY DEF Nothing, Policy!Nothing
  <1>3. QED
    BY <1>1, <1>2

LEMMA AskIsAsk ==
  ASSUME TypeOK, Governed, Governed', NEW c \in Call, NEW q \in Queue, NEW ask \in setup.asks, Ask(c, q, ask)
  PROVE  Atomic!Ask(c)
  <1> DEFINE request == [actor |-> context, verb |-> ask.verb, target |-> ask.target, image |-> ask.image]
  <1>1. ask \in [verb : Verb, target : Id, image : Image]
    BY SetupsAssumption DEF TypeOK
  <1>2. request \in Atomic!Request
    BY <1>1 DEF TypeOK, Atomic!Request, Atomic!Verb, Atomic!Image, Verb, Image, Policy!Verb, Policy!Image
  <1> HIDE DEF request
  <1>3. /\ calls' = [calls EXCEPT ![c] = [Idle EXCEPT !.step = "queued", !.queue = q, !.request = request]]
        /\ calls[c] = Idle /\ UNCHANGED <<facts, trail>>
    BY DEF Ask, request
  <1>4. Requests[c] = Nothing /\ Requests' = [Requests EXCEPT ![c] = request]
    <2> DEFINE call == [Idle EXCEPT !.step = "queued", !.queue = q, !.request = request]
    <2>1. call.request = request /\ calls[c].request = Nothing
      BY <1>3 DEF Idle
    <2>2. calls' = [calls EXCEPT ![c] = call] /\ c \in DOMAIN calls /\ DOMAIN calls = Call
      BY <1>3 DEF TypeOK
    <2> HIDE DEF call
    <2>3. QED
      BY <2>1, <2>2, RequestsOfGoverned
  <1>5. UNCHANGED <<GovernedFacts, GovernedTrail>>
    BY <1>3, RequestsOfGoverned
  <1>6. Requests'[c] = request
    BY <1>4, RequestsOfGoverned
  <1>7. QED
    BY <1>2, <1>4, <1>5, <1>6 DEF Atomic!Ask, Atomic!Nothing, Nothing, Policy!Nothing

\* Calls that end without a change.
LEMMA EndsAreRefusals ==
  ASSUME Governed, Governed', NEW gone \in SUBSET Call,
         calls' = [c \in Call |-> IF c \in gone THEN Idle ELSE calls[c]], UNCHANGED <<facts, trail>>
  PROVE  Atomic!Refuse(gone)
  BY RequestsOfGoverned DEF Atomic!Refuse, Atomic!Nothing, Nothing, Policy!Nothing, Idle

LEMMA SettleIsRefusal ==
  ASSUME TypeOK, Governed, Governed', NEW c \in Call, Settle(c), UNCHANGED <<facts, trail>>
  PROVE  Atomic!Next
  <1>1. calls' = [d \in Call |-> IF d \in {c} THEN Idle ELSE calls[d]]
    BY DEF Settle, TypeOK
  <1>2. Atomic!Refuse({c})
    BY <1>1, EndsAreRefusals
  <1>3. QED
    BY <1>2 DEF Atomic!Next

\* Nothing that AtomicGovernance sees changes.
LEMMA GoingOnIsUnseen ==
  ASSUME Governed, Governed', \A c \in Call : calls'[c].request = calls[c].request, UNCHANGED <<facts, trail>>
  PROVE  UNCHANGED Atomic!vars
  <1>1. UNCHANGED <<GovernedFacts, GovernedTrail, Requests>>
    BY RequestsOfGoverned
  <1>2. QED
    BY <1>1 DEF Atomic!vars

LEMMA WriteIsDo ==
  ASSUME TypeOK, DecidedOnFacts, Governed, Governed', NEW c \in Call, Write(c), Change(c), Attest(c), Settle(c)
  PROVE  Atomic!Do(c)
  <1> DEFINE f == facts[TheDatabase]
             request == calls[c].request
  <1>1. /\ calls[c] # Idle /\ calls[c] \in CallRecord /\ Db(c) = TheDatabase /\ TheDatabase \in Database
        /\ calls[c].step = "writing"
    BY StepsAtHead, GovernedDatabase DEF Step, Write
  <1>2. request \in Request /\ request # Nothing
    BY <1>1, NoRequestIsNothing DEF CallRecord
  <1>3. /\ calls[c].found = Policy!Found(f, request.target)
        /\ Policy!Meets(request, calls[c].found)
        /\ calls[c].others = Policy!Closure(f, request)
        /\ Policy!Allows(request, calls[c].found, {f[n] : n \in calls[c].others})
    BY <1>1 DEF DecidedOnFacts, Decided
  <1>4. Atomic!Permitted(f, request)
    BY <1>3, SamePermitted
  <1>5. facts'[TheDatabase] = Atomic!Applied(f, request)
    BY <1>1, SameApplied DEF Change, TypeOK
  <1>6. trail'[TheDatabase] = Append(trail[TheDatabase], Atomic!Event(request, Atomic!Closure(f, request)))
    BY <1>1, <1>3, SameClosure DEF Attest, TypeOK, Atomic!Event, Policy!Event
  <1>7. Requests' = [Requests EXCEPT ![c] = Nothing] /\ Requests[c] = request
    BY RequestsOfGoverned DEF Settle, Idle, TypeOK
  <1> HIDE DEF f, request
  <1>8. QED
    BY <1>2, <1>4, <1>5, <1>6, <1>7, RequestsOfGoverned DEF Atomic!Do, Atomic!Nothing, Nothing, Policy!Nothing, f

\* With its own audit table, one store object and no one who writes past it, a
\* governed store implements AtomicGovernance: although a call awaits its reads
\* and the policies, and others are made, are lost with their process or are
\* refused meanwhile, it is decided, carried out and attested as if in one step,
\* in the name of whoever asked (governed-store.ts:232-253; ENFORCEMENT.md,
\* "Authorisation and the mutation it authorises are one step").
THEOREM GovernedImplementsAtomic == Spec => Implements
  <1>1. Init => Atomic!Init
    <2> SUFFICES ASSUME Init PROVE Atomic!Init
      OBVIOUS
    <2>1. Requests = [c \in Call |-> Nothing]
      BY DEF Init, Requests, Idle
    <2>2. Governed => TheDatabase \in Database
      BY GovernedDatabase
    <2>3. GovernedFacts = <<>> /\ GovernedTrail = <<>>
      BY <2>2 DEF Init, GovernedFacts, GovernedTrail
    <2>4. QED
      BY <2>1, <2>3 DEF Atomic!Init, Atomic!Nothing, Nothing, Policy!Nothing
  <1>2. TypeOK /\ DecidedOnFacts /\ [Next]_vars => [Atomic!Next]_Atomic!vars
    <2> SUFFICES ASSUME TypeOK, DecidedOnFacts, [Next]_vars PROVE Atomic!Next \/ UNCHANGED Atomic!vars
      OBVIOUS
    <2>1. UNCHANGED setup
      BY DEF Next, vars, Serve, Ask, Begin, Look, Judge, Write, Record, Read, RawWrite, Restart
    <2>2. Governed' <=> Governed
      BY <2>1 DEF Governed, OwnTable
    <2>3. CASE ~Governed
      BY <2>2, <2>3 DEF Atomic!vars, GovernedFacts, GovernedTrail, Requests
    <2>4. CASE Governed
      <3>1. Governed /\ Governed'
        BY <2>2, <2>4
      <3>2. ASSUME NEW c \in Call, NEW q \in Queue, NEW ask \in setup.asks, Ask(c, q, ask) PROVE Atomic!Next
        BY <3>1, <3>2, AskIsAsk DEF Atomic!Next
      <3>3. ASSUME NEW c \in Call, Step(c) PROVE Atomic!Next \/ UNCHANGED Atomic!vars
        <4>1. CASE Settle(c) /\ UNCHANGED <<facts, trail>>
          BY <3>1, <4>1, SettleIsRefusal
        <4>2. CASE ~Settle(c) /\ ~Record(c)
          <5>1. calls[c] \in CallRecord /\ c \in DOMAIN calls /\ OwnTable
            BY <3>1, <3>3, StepsAtHead, GovernedDatabase DEF TypeOK
          <5>2. UNCHANGED <<facts, trail>>
            BY <3>3, <4>2, <5>1 DEF Step, Begin, Look, Judge, Write
          <5>3. \A d \in Call : calls'[d].request = calls[d].request
            <6>1. \A d \in Call \ {c} : calls'[d] = calls[d]
              BY <3>3, <4>2, <5>1 DEF Step, Begin, Look, Judge, Write, Goto, TypeOK
            <6>2. calls'[c].request = calls[c].request
              <7>1. CASE Begin(c)
                BY <4>2, <5>1, <7>1 DEF Begin, Goto, CallRecord
              <7>2. CASE Look(c)
                BY <4>2, <5>1, <7>2 DEF Look, CallRecord
              <7>3. CASE Judge(c)
                BY <4>2, <5>1, <7>3 DEF Judge, CallRecord
              <7>4. ~Write(c)
                BY <4>2, <5>1 DEF Write
              <7>5. QED
                BY <3>3, <4>2, <7>1, <7>2, <7>3, <7>4 DEF Step
            <6>3. QED
              BY <6>1, <6>2
          <5>4. QED
            BY <3>1, <5>2, <5>3, GoingOnIsUnseen
        <4>3. CASE Write(c) /\ Change(c) /\ Attest(c) /\ Settle(c)
          BY <3>1, <4>3, WriteIsDo DEF Atomic!Next
        <4>4. ~Record(c)
          BY <3>1 DEF Record, DecidedOnFacts, Decided
        <4>5. (Begin(c) \/ Look(c) \/ Judge(c)) => UNCHANGED <<facts, trail>>
          BY DEF Begin, Look, Judge
        <4>6. Write(c) => ~Settle(c) \/ (Settle(c) /\ UNCHANGED <<facts, trail>>) \/ (Change(c) /\ Attest(c) /\ Settle(c))
          BY <3>1, GovernedDatabase DEF Write
        <4>7. QED
          BY <3>3, <4>1, <4>2, <4>3, <4>4, <4>5, <4>6 DEF Step
      <3>4. ASSUME NEW q \in Queue, Restart(q) PROVE Atomic!Next
        <4> DEFINE gone == {c \in Call : calls[c] # Idle /\ (OwnTable => calls[c].queue = q)}
        <4>1. Atomic!Refuse(gone)
          BY <3>1, <3>4, EndsAreRefusals DEF Restart
        <4>2. QED
          BY <4>1 DEF Atomic!Next
      <3>5. CASE (\E actor \in Actor : Serve(actor)) \/ Read \/ UNCHANGED vars
        <4>1. UNCHANGED <<facts, trail, calls>>
          BY <3>5 DEF Serve, Read, vars
        <4>2. QED
          BY <3>1, <4>1, GoingOnIsUnseen
      <3>6. ~ \E d \in Database, write \in setup.raw : RawWrite(d, write.target, write.image)
        BY <3>1 DEF Governed
      <3>7. QED
        BY <3>2, <3>3, <3>4, <3>5, <3>6 DEF Next, Step
    <2>5. QED
      BY <2>3, <2>4
  <1>3. QED
    BY <1>1, <1>2, GovernedTypeOK, DecidedInvariant, PTL DEF Spec, Implements, Atomic!Spec
=============================================================================
