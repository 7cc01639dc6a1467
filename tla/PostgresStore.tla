--------------------------- MODULE PostgresStore ---------------------------
(* One tenant of the shared Postgres store: src/postgres-memory-store.ts.   *)
(*                                                                          *)
(* A write locks the tenant's row, reads the part of the graph it acts on,  *)
(* lets the in-memory engine change that part, and writes the difference    *)
(* back.  A read takes no lock and asks in several statements, each of      *)
(* which sees what is committed when it runs.  A governed write appends its *)
(* event in the same transaction; the tenant's row holds the number of      *)
(* events and the hash of the newest.                                       *)
(*                                                                          *)
(* A digest is the sequence of events it was computed from.                 *)
EXTENDS Naturals, Sequences, FiniteSets, DerivedFacts

CONSTANTS PgCallers,  \* store objects, each with its own connection
          PgIds,      \* fact ids
          PgLinkIds,  \* edge ids
          PgGraphs,   \* the graphs a run starts from
          PgMaxCalls, \* bound: calls
          PgMaxCuts   \* bound: times the newest event is removed by hand

VARIABLES pgGraph,    \* the committed rows: facts, their versions, edges
          pgTrail,    \* the committed events
          pgTenant,   \* audit_count and audit_head of the tenant's row
          pgLock,     \* the caller that holds the tenant's row, or NoCaller
          pgCall,     \* what each caller is doing, and the rows it has read
          pgChecked,  \* the callers that have walked the chain
          pgCalls,    \* how many calls were made
          pgCuts,     \* how many events were removed by hand
          pgAnswered  \* what each caller's last read came to

pgVars == <<pgGraph, pgTrail, pgTenant, pgLock, pgCall, pgChecked, pgCalls, pgCuts, pgAnswered>>

NoCaller == "none"
Waiting == [at |-> "waiting"]

----------------------------------------------------------------------------
(* A graph and the engine's rules over it, whole or in part *)

PgFact == [open : BOOLEAN, from : SUBSET PgIds]
Ends(e) == {e.source, e.target}
Sources(g) == [n \in DOMAIN g.facts |-> g.facts[n].from]
Resting(g, id) == DependentsOf(Sources(g), id)
LiveIn(g) == {n \in DOMAIN g.facts : g.facts[n].open}

Without(g, gone) ==
  [facts |-> [n \in DOMAIN g.facts \ gone |-> g.facts[n]],
   versions |-> [n \in DOMAIN g.facts \ gone |-> g.versions[n]],
   edges |-> {e \in g.edges : Ends(e) \cap gone = {}}]

\* The facts of S get an end, each with a version.
Ended(g, S) ==
  [g EXCEPT !.facts = [n \in DOMAIN @ |-> IF n \in S THEN [@[n] EXCEPT !.open = FALSE] ELSE @[n]],
            !.versions = [n \in DOMAIN @ |-> IF n \in S THEN @[n] + 1 ELSE @[n]]]

WithFact(g, id, from) ==
  [g EXCEPT !.facts = [n \in DOMAIN @ \cup {id} |-> IF n = id THEN [open |-> TRUE, from |-> from] ELSE @[n]],
            !.versions = [n \in DOMAIN @ \cup {id} |-> IF n = id THEN 0 ELSE @[n]]]

\* The calls that write: what each may ask, and what the engine makes of it.
Writes ==
  [do : {"addNode"}, id : PgIds, from : SUBSET PgIds]
  \cup [do : {"invalidate", "reopen", "deleteNode"}, id : PgIds]
  \cup [do : {"addEdge"}, edge : [id : PgLinkIds, source : PgIds, target : PgIds]]
  \cup [do : {"deleteEdge"}, id : PgLinkIds]

Allowed(op, g) ==
  CASE op.do = "addNode" -> TRUE
    [] op.do \in {"invalidate", "reopen"} -> op.id \in DOMAIN g.facts
    [] op.do = "addEdge" -> Ends(op.edge) \subseteq DOMAIN g.facts
    [] OTHER -> TRUE

Engine(op, g) ==
  CASE op.do = "addNode" -> WithFact(g, op.id, op.from)
    [] op.do = "invalidate" ->
         IF g.facts[op.id].open
           THEN Ended(g, {op.id} \cup RetractionsFor(Sources(g), LiveIn(g), op.id))
           ELSE [g EXCEPT !.versions[op.id] = @ + 1]
    [] op.do = "reopen" -> [g EXCEPT !.facts[op.id].open = TRUE, !.versions[op.id] = @ + 1]
    [] op.do = "deleteNode" -> Without(g, {op.id} \cup Resting(g, op.id))
    [] op.do = "addEdge" -> [g EXCEPT !.edges = @ \cup {op.edge}]
    [] op.do = "deleteEdge" -> [g EXCEPT !.edges = {e \in @ : e.id # op.id}]

----------------------------------------------------------------------------
(* The part of the graph a call reads *)

Scope(op) ==
  CASE op.do = "addNode" -> [nodes |-> {}, dependents |-> FALSE, edges |-> {}, edgesOf |-> FALSE]
    [] op.do = "invalidate" -> [nodes |-> {op.id}, dependents |-> TRUE, edges |-> {}, edgesOf |-> FALSE]
    [] op.do = "reopen" -> [nodes |-> {op.id}, dependents |-> FALSE, edges |-> {}, edgesOf |-> FALSE]
    [] op.do = "deleteNode" -> [nodes |-> {op.id}, dependents |-> TRUE, edges |-> {}, edgesOf |-> TRUE]
    [] op.do = "addEdge" -> [nodes |-> Ends(op.edge), dependents |-> FALSE, edges |-> {op.edge.id}, edgesOf |-> FALSE]
    [] op.do = "deleteEdge" -> [nodes |-> {}, dependents |-> FALSE, edges |-> {op.id}, edgesOf |-> FALSE]
    [] op.do = "getEdges" -> [nodes |-> {op.id}, dependents |-> FALSE, edges |-> {}, edgesOf |-> TRUE]
    [] op.do = "history" -> [nodes |-> {op.id}, dependents |-> FALSE, edges |-> {}, edgesOf |-> FALSE]

\* A variant that locks only what rests on the fact directly.
ActedOnDirect(g, s) ==
  s.nodes \cup (IF s.dependents THEN {n \in DOMAIN g.facts : g.facts[n].from \cap s.nodes # {}} ELSE {})

\* loadScope(), one statement after another: the facts acted on, the edges,
\* the facts those name, and the versions of the facts acted on.
ActedOn(g, s) == s.nodes \cup (IF s.dependents THEN UNION {Resting(g, n) : n \in s.nodes} ELSE {})
EdgesRead(g, s, acted) == {e \in g.edges : e.id \in s.edges \/ (s.edgesOf /\ Ends(e) \cap acted # {})}
FactsRead(g, acted, edges) ==
  [n \in DOMAIN g.facts \cap (acted \cup UNION {Ends(e) : e \in edges}) |-> g.facts[n]]
VersionsRead(g, acted) == [n \in DOMAIN g.facts \cap acted |-> g.versions[n]]

\* hydrate(): the rows read make a graph the engine takes, or it throws.
Hydrates(facts, versions, edges) ==
  /\ \A e \in edges : Ends(e) \subseteq DOMAIN facts
  /\ \A n \in DOMAIN versions : versions[n] > 0 => n \in DOMAIN facts

\* ... a fact whose versions were not read has none in that graph.
PartOf(facts, versions, edges) ==
  [facts |-> facts, edges |-> edges,
   versions |-> [n \in DOMAIN facts |-> IF n \in DOMAIN versions THEN versions[n] ELSE 0]]

Load(g, s) ==
  LET acted == ActedOn(g, s)
      edges == EdgesRead(g, s, acted)
  IN PartOf(FactsRead(g, acted, edges), VersionsRead(g, acted), edges)

\* persist(): rows the engine dropped are deleted, those it changed written.
Persist(g, old, new) ==
  LET gone == DOMAIN old.facts \ DOMAIN new.facts
      put == {n \in DOMAIN new.facts : n \notin DOMAIN old.facts \/ old.facts[n] # new.facts[n]}
      recorded == {n \in DOMAIN new.facts : n \notin DOMAIN old.facts \/ old.versions[n] # new.versions[n]}
      facts == (DOMAIN g.facts \ gone) \cup put
  IN [facts |-> [n \in facts |-> IF n \in put THEN new.facts[n] ELSE g.facts[n]],
      versions |-> [n \in facts |-> IF n \in recorded THEN new.versions[n] ELSE g.versions[n]],
      edges |-> (g.edges \ (old.edges \ new.edges)) \cup new.edges]

----------------------------------------------------------------------------
(* The trail of the tenant *)

EventHash(prev, event) == Append(prev, event)
TrailHead == IF pgTrail = <<>> THEN <<>> ELSE pgTrail[Len(pgTrail)].hash

LinksSound ==
  \A i \in DOMAIN pgTrail :
    /\ pgTrail[i].prev = (IF i = 1 THEN <<>> ELSE pgTrail[i - 1].hash)
    /\ pgTrail[i].hash = EventHash(pgTrail[i].prev, pgTrail[i].event)

\* walkChain(): every link, then the count and the head of the tenant's row.
ChainSound == LinksSound /\ pgTenant.count = Len(pgTrail) /\ pgTenant.head = TrailHead

\* appendAudit(): the walk, once for each store object, and at every append
\* that the newest event is the one the tenant's row recorded.
TailRecorded == pgTenant.head = TrailHead /\ (pgTrail = <<>> <=> pgTenant.count = 0)
MayAppend(c) == TailRecorded /\ (c \in pgChecked \/ ChainSound)

----------------------------------------------------------------------------
(* The operations *)

PgInit ==
  /\ pgGraph \in PgGraphs
  /\ pgTrail = <<>>
  /\ pgTenant = [count |-> 0, head |-> <<>>]
  /\ pgLock = NoCaller
  /\ pgCall = [c \in PgCallers |-> Waiting]
  /\ pgChecked = {}
  /\ pgCalls = 0
  /\ pgCuts = 0
  /\ pgAnswered = [c \in PgCallers |-> "nothing"]

\* Ids are minted fresh: nothing stored, named or being written has one.
Fresh(op) ==
  /\ op.do = "addNode" =>
       /\ \A n \in DOMAIN pgGraph.facts : n # op.id /\ op.id \notin pgGraph.facts[n].from
       /\ op.id \notin op.from
  /\ op.do = "addEdge" => \A e \in pgGraph.edges : e.id # op.edge.id
  /\ \A c \in PgCallers : pgCall[c].at # "waiting" /\ pgCall[c].op.do = op.do => pgCall[c].op # op

\* A write begins, governed or not.  A governed call first walks the chain,
\* outside the lock, if this object has not; a fault is left to the append.
BeginWrite(c, op, governed) ==
  /\ pgCall[c] = Waiting
  /\ pgCalls < PgMaxCalls
  /\ Fresh(op)
  /\ pgCalls' = pgCalls + 1
  /\ pgCall' = [pgCall EXCEPT ![c] = [at |-> "asking", op |-> op, governed |-> governed]]
  /\ pgChecked' = IF governed /\ ChainSound THEN pgChecked \cup {c} ELSE pgChecked
  /\ UNCHANGED <<pgGraph, pgTrail, pgTenant, pgLock, pgCuts, pgAnswered>>

\* SELECT ... FOR UPDATE on the tenant's row.
LockTenant(c) ==
  /\ pgCall[c].at = "asking"
  /\ pgLock = NoCaller
  /\ pgLock' = c
  /\ pgCall' = [pgCall EXCEPT ![c].at = "locked"]
  /\ UNCHANGED <<pgGraph, pgTrail, pgTenant, pgChecked, pgCalls, pgCuts, pgAnswered>>

\* write(): its scope is loaded under the lock.
LoadPart(c) ==
  LET call == pgCall[c] IN
  /\ call.at = "locked"
  /\ pgCall' = [pgCall EXCEPT ![c] = [at |-> "loaded", op |-> call.op, governed |-> call.governed,
                                      part |-> Load(pgGraph, Scope(call.op))]]
  /\ UNCHANGED <<pgGraph, pgTrail, pgTenant, pgLock, pgChecked, pgCalls, pgCuts, pgAnswered>>

\* The engine takes the part it was given and agrees; the rows it changed are
\* written, with the event of a governed call, and the transaction commits.
CommitWrite(c) ==
  LET call == pgCall[c]
      event == Len(pgTrail) + 1
  IN
  /\ call.at = "loaded"
  /\ Hydrates(call.part.facts, call.part.versions, call.part.edges)
  /\ Allowed(call.op, call.part)
  /\ call.governed => MayAppend(c)
  /\ pgGraph' = Persist(pgGraph, call.part, Engine(call.op, call.part))
  /\ IF call.governed
       THEN /\ pgTrail' = Append(pgTrail, [prev |-> TrailHead, hash |-> EventHash(TrailHead, call.op), event |-> call.op])
            /\ pgTenant' = [count |-> pgTenant.count + 1, head |-> EventHash(TrailHead, call.op)]
            /\ pgChecked' = pgChecked \cup {c}
       ELSE UNCHANGED <<pgTrail, pgTenant, pgChecked>>
  /\ pgLock' = NoCaller
  /\ pgCall' = [pgCall EXCEPT ![c] = Waiting]
  /\ UNCHANGED <<pgCalls, pgCuts, pgAnswered>>

\* The engine or the trail refuses, a sink throws or the connection is lost:
\* the transaction leaves nothing.
RollBack(c) ==
  /\ pgCall[c].at \in {"asking", "locked", "loaded"}
  /\ pgLock' = IF pgLock = c THEN NoCaller ELSE pgLock
  /\ pgCall' = [pgCall EXCEPT ![c] = Waiting]
  /\ UNCHANGED <<pgGraph, pgTrail, pgTenant, pgChecked, pgCalls, pgCuts, pgAnswered>>

\* getEdges() and history(): the statements of loadScope() one after another.
BeginRead(c, do, id) ==
  LET s == Scope([do |-> do, id |-> id]) IN
  /\ pgCall[c] = Waiting
  /\ pgCalls < PgMaxCalls
  /\ pgCalls' = pgCalls + 1
  /\ pgCall' = [pgCall EXCEPT ![c] = [at |-> "edges", op |-> [do |-> do, id |-> id], edges |-> EdgesRead(pgGraph, s, s.nodes)]]
  /\ UNCHANGED <<pgGraph, pgTrail, pgTenant, pgLock, pgChecked, pgCuts, pgAnswered>>

ReadFacts(c) ==
  LET call == pgCall[c] IN
  /\ call.at = "edges"
  /\ pgCall' = [pgCall EXCEPT ![c] = [at |-> "facts", op |-> call.op, edges |-> call.edges,
                                      facts |-> FactsRead(pgGraph, {call.op.id}, call.edges)]]
  /\ UNCHANGED <<pgGraph, pgTrail, pgTenant, pgLock, pgChecked, pgCalls, pgCuts, pgAnswered>>

EndRead(c) ==
  LET call == pgCall[c] IN
  /\ call.at = "facts"
  /\ pgAnswered' = [pgAnswered EXCEPT ![c] =
       IF Hydrates(call.facts, VersionsRead(pgGraph, {call.op.id}), call.edges) THEN "answered" ELSE "threw"]
  /\ pgCall' = [pgCall EXCEPT ![c] = Waiting]
  /\ UNCHANGED <<pgGraph, pgTrail, pgTenant, pgLock, pgChecked, pgCalls, pgCuts>>

\* Somebody removes the newest events by hand, the tenant's row left alone.
CutTrail ==
  /\ pgCuts < PgMaxCuts
  /\ pgLock = NoCaller
  /\ pgTrail # <<>>
  /\ \E n \in 0 .. Len(pgTrail) - 1 : pgTrail' = SubSeq(pgTrail, 1, n)
  /\ pgCuts' = pgCuts + 1
  /\ UNCHANGED <<pgGraph, pgTenant, pgLock, pgCall, pgChecked, pgCalls, pgAnswered>>

PgNext ==
  \/ \E c \in PgCallers :
       \/ \E op \in Writes, governed \in BOOLEAN : BeginWrite(c, op, governed)
       \/ LockTenant(c)
       \/ LoadPart(c)
       \/ CommitWrite(c)
       \/ RollBack(c)
       \/ \E id \in PgIds, do \in {"getEdges", "history"} : BeginRead(c, do, id)
       \/ ReadFacts(c)
       \/ EndRead(c)
  \/ CutTrail

PgSpec == PgInit /\ [][PgNext]_pgVars

----------------------------------------------------------------------------
(* Properties *)

\* The type of the tenant's rows.
PgTypeOK ==
  /\ DOMAIN pgGraph.facts \subseteq PgIds /\ DOMAIN pgGraph.versions = DOMAIN pgGraph.facts
  /\ \A n \in DOMAIN pgGraph.facts : pgGraph.facts[n] \in PgFact /\ pgGraph.versions[n] \in Nat
  /\ \A e \in pgGraph.edges : e.id \in PgLinkIds /\ Ends(e) \subseteq DOMAIN pgGraph.facts
  /\ pgLock \in PgCallers \cup {NoCaller}
  /\ pgChecked \subseteq PgCallers

\* What a call leaves of the tenant's graph is what the engine would have made
\* of the whole of it, although the call read only its scope and other callers
\* write at the same time: nothing a cascade reaches is missed, no edge or
\* version is left behind and no other caller's write is lost.
PartStandsForWhole ==
  [][\A c \in PgCallers : pgGraph' # pgGraph /\ pgCall[c].at = "loaded" /\ pgCall'[c] = Waiting =>
       Allowed(pgCall[c].op, pgGraph) /\ pgGraph' = Engine(pgCall[c].op, pgGraph)]_pgVars

\* Once events were removed from the end no event is ever appended again, also
\* by an object that walked the chain before (appendAudit's check of the tail).
CutTrailStaysClosed == [][pgCuts > 0 => Len(pgTrail') <= Len(pgTrail)]_pgVars

\* The rules are the engine's (postgres-memory-store.ts:174-175), and the
\* engine answers every one of these reads: none throws.
ReadsAnswer == \A c \in PgCallers : pgAnswered[c] # "threw"
============================================================================
