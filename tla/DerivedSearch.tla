---------------------------- MODULE DerivedSearch ----------------------------
(***************************************************************************)
(* The worklist loops of src/src/derived.ts: dependentsOf, which finds     *)
(* what an erasure takes along, and retractionsFor, which finds what an    *)
(* invalidation withdraws.  Both shift the head off a queue and scan the   *)
(* store's facts for those that name it as a source.  They differ in one   *)
(* test: retractionsFor marks a conclusion that is no longer in force as   *)
(* seen but neither returns it nor looks behind it.  `live` is the set of  *)
(* facts that pass that test; dependentsOf is the loop with every fact in  *)
(* it.                                                                     *)
(*                                                                         *)
(* Facts are numbered in the store's iteration order, so one step of the   *)
(* loop looks at one fact of one scan.                                     *)
(***************************************************************************)
EXTENDS Integers, Sequences, DerivedFacts

CONSTANTS N,       \* how many facts the store holds
          Graphs   \* the graphs considered, each fact mapped to the facts it names

Fact == 1..N

ASSUME GraphsAssumption == N \in Nat /\ Graphs \subseteq [Fact -> SUBSET Fact]

VARIABLES restsOn,  \* the stored facts' derivedFrom
          live,     \* the facts that pass isLiveAt
          root,     \* the fact that goes
          queue,    \* facts whose dependents are still to be looked for
          current,  \* the fact shifted off the queue, or 0
          next,     \* the next fact of the scan for `current`
          seen,     \* facts met so far
          out       \* the result so far: [nodeId, because], in the order reached

\* The members of a sequence, and the facts the result names.
Members(s) == {s[k] : k \in 1..Len(s)}
OutIds == {out[k].nodeId : k \in 1..Len(out)}

vars == <<restsOn, live, root, queue, current, next, seen, out>>

Init ==
  /\ restsOn \in Graphs
  /\ live \in SUBSET Fact
  /\ root \in Fact
  /\ queue = <<root>>
  /\ current = 0
  /\ next = 1
  /\ seen = {root}
  /\ out = <<>>

\* `const id = queue.shift()`
Shift ==
  /\ current = 0
  /\ queue # <<>>
  /\ current' = Head(queue)
  /\ queue' = Tail(queue)
  /\ next' = 1
  /\ UNCHANGED <<restsOn, live, root, seen, out>>

\* Wrong readings of the test below, each ruled out by a property: looking only
\* at the root's own conclusions, not marking the root, and taking any fact seen
\* so far for the source.
IsFreshDirect(n) == n \notin seen /\ current \in restsOn[n] /\ current = root
IsFreshIncludingRoot(n) == n \notin OutIds /\ current \in restsOn[n]
IsFreshByReach(n) == n \notin seen /\ restsOn[n] \cap (seen \cup OutIds) # {}

\* A fact met for the first time that names `current` as a source.
IsFresh(n) == n \notin seen /\ current \in restsOn[n]

\* One fact of the scan: marked when it is fresh, and when it is also in force
\* returned and queued.
Scan ==
  /\ current # 0
  /\ next \in Fact
  /\ LET reached == IsFresh(next) /\ next \in live IN
       /\ seen' = IF IsFresh(next) THEN seen \cup {next} ELSE seen
       /\ out' = IF reached THEN Append(out, [nodeId |-> next, because |-> current]) ELSE out
       /\ queue' = IF reached THEN Append(queue, next) ELSE queue
  /\ next' = next + 1
  /\ UNCHANGED <<restsOn, live, root, current>>

\* A variant that takes the scan's end for the next fact to look behind.
EndScanPastTheEnd ==
  /\ current # 0
  /\ next \notin Fact
  /\ current' = next
  /\ UNCHANGED <<restsOn, live, root, queue, next, seen, out>>

\* A variant that scans again for the same fact.
EndScanAgain ==
  /\ current # 0
  /\ next \notin Fact
  /\ next' = 1
  /\ UNCHANGED <<restsOn, live, root, queue, current, seen, out>>

EndScan ==
  /\ current # 0
  /\ next \notin Fact
  /\ current' = 0
  /\ UNCHANGED <<restsOn, live, root, queue, next, seen, out>>

Next == Shift \/ Scan \/ EndScan

\* The loops are synchronous code: once entered they run to their end.
Spec == Init /\ [][Next]_vars /\ WF_vars(Next)

Done == queue = <<>> /\ current = 0

-----------------------------------------------------------------------------

TypeOK ==
  /\ restsOn \in [Fact -> SUBSET Fact]
  /\ live \in SUBSET Fact
  /\ root \in Fact
  /\ queue \in Seq(Fact)
  /\ current \in Fact \cup {0}
  /\ next \in 1..(N + 1)
  /\ seen \in SUBSET Fact
  /\ out \in Seq([nodeId : Fact, because : Fact])

\* The loop returns exactly the facts that rest on the root through facts in
\* force: none missing, although each is marked as seen before its own state
\* is looked at, and none besides, although conclusions may form a circle.
\* (derived.ts, dependentsOf and retractionsFor.)
FindsRetractions == Done => OutIds = RetractionsFor(restsOn, live, root)

\* No fact is returned twice, so no conclusion is withdrawn or erased twice,
\* and the root is never its own dependent even in a circle.
EachFactOnce ==
  /\ \A j, k \in 1..Len(out) : out[j].nodeId = out[k].nodeId => j = k
  /\ root \notin OutIds

\* The reason recorded on a withdrawn conclusion names a fact it really cites,
\* and one that itself went: the root, or a conclusion withdrawn before it.
ReasonsAreSources ==
  \A k \in 1..Len(out) :
    /\ out[k].because \in restsOn[out[k].nodeId]
    /\ out[k].because = root \/ \E j \in 1..(k - 1) : out[j].nodeId = out[k].because

\* What the search returns is what goes, once each, with the reason why.
AnswerIsRight == FindsRetractions /\ EachFactOnce /\ ReasonsAreSources

\* "Cycles cannot loop" (derived.ts:30): the search always ends.
Terminates == <>Done
=============================================================================
