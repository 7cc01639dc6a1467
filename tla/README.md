# Buddy Memory in TLA+

This directory specifies the core of Buddy Memory — a memory store for AI agents with
history, cascades, governed access and audit — and checks and proves what it promises.
It is written from the source under `src/src` (paths in this file are given as in the
repository, `src/...` for code and `docs/...` for documents).

- **TLA+ modules** model the components, one action per operation or step.
- **MC modules and `.cfg` files** instantiate them for TLC.
- **`*_proofs` modules** hold theorems that TLAPS checks for every value of the constants.
- `PROJECT.json` lists the runs, the lines of source each definition stands for, the
  hazards the properties aim at, one plausible bug per property that the run catches,
  the theorems, and the places where the code and a document disagree.

To check: `tlc -config <cfg> <module>` for a run, `tlapm <module>_proofs.tla` for the proofs.

## 1. The system

One library, used inside one process by a host (an MCP server, an agent framework, a CLI).
Everything is asynchronous JavaScript: between two `await`s nothing else runs, and at every
`await` anything else may. Several processes may open one SQLite file.

| Component | Code | State it keeps | Operations | Interacts by |
|---|---|---|---|---|
| Derived facts | `derived.ts` | none | `dependentsOf`, `retractionsFor` | called by the stores and by governance |
| In-memory store | `in-memory-store.ts`, `immutable.ts`, `instant.ts` | maps of nodes, versions, edges, vectors | add, update, delete, restore nodes; versions; edges; embeddings; search | called by everything above it |
| SQLite store | `sqlite-memory-store.ts` | the same as tables, a schema version, a scope stamp, `audit_events` | the same, each one IMMEDIATE transaction; `mutateAudited`; migration; scope claim | a file shared by processes |
| Postgres store | `postgres-memory-store.ts` | the same per tenant, and the head and count of the tenant's events | the in-memory engine over the part of the graph a call loads, under a tenant lock | a database |
| History | `history.ts` | none | `nodeAsOf`, `explains`, `buildSnapshotAsOf` | reads a fact and its versions |
| Portability | `memory-portability.ts`, `no-loss.ts` | an artifact (file) | export, import | reads and writes stores of several machines |
| Governed store | `governance/governed-store.ts`, `cascade.ts`, `policy.ts` | a queue per store, a failure latch per audit sink, the calls in flight | every store operation, judged and audited | policies (caller's code), audit sink, inner store |
| Recently deleted | `governance/recently-deleted.ts` | a mark on each binned fact | bin, list, restore, purge | through the governed store |
| Audit trail | `governance/audit.ts`, `audit-table.ts`, `chain.ts` | hash-chained file or table, head, refusal | record, verify | sink of the governed store |
| Erasure receipts | `governance/erasure.ts` | none | filter checks, receipts | part of the governed store |
| Promotion, sample policies | `governance/promotion.ts`, `samples.ts`, `boundary.ts` | a promoted copy and its origin | promote, withdraw, verify; hooks | two scopes of one store |
| Current states | `state.ts` | none of its own: one live fact per key | record, supersede, read | several calls on one store |
| Consolidation | `consolidation.ts`, `evidence.ts` | none of its own: proposals, evidence edges | consolidate, undo, verify | a model's answer between read and write |
| Mental models | `mental-models.ts` | none of its own: definitions and answers | define, refresh, delete | a model's answer between read and write |
| Project memory | `project-memory.ts` | a path, an open store | open, close, pass through | files, other processes |
| Retrieval | `hybrid-retriever.ts`, `query-filter.ts`, `decay.ts` | a cache of vectors | recall, index | reads of the store |
| Worker embedder | `worker-embedder.ts`, `mcp/semantic.ts` | a worker, pending requests, on or off | embed, close, start | messages to a worker thread |
| Pinned facts, MCP server | `pinned.ts`, `mcp/governance-server.ts`, `mcp/http-server.ts` | what each connection was last shown | recall, pin, unpin, invalidate | tool calls of several connections |
| Sign-in | `mcp/owner-oauth.ts`, `mcp/oidc.ts` | pending sign-ins, codes, tokens, locks in one file; an issuer's keys | authorize, consent, exchange, revoke, verify | HTTP requests |
| LangGraph store | `integrations/langchain.ts` | a queue per entry, a list of older namespaces | put, get, search | calls of one handle |
| Release scripts | `scripts/release.mjs`, `release-lib.mjs` | the tree, the clone, origin, npm, a launchd job | release, pin, refresh | commands that fail |
| Reports, other integrations, CLI | `explain.ts`, `gauge.ts`, `cli.ts`, ... | none | rendering | reads |

### What is hard about it

*Cascades.* A fact may be concluded from others (`contextualMetadata.derivedFrom`). Ending it
ends every conclusion in force that rests on it; erasing it erases every conclusion. The
graph may have circles, conclusions already withdrawn, and sources already gone.

*History.* Every change leaves a version with the image before and after, dated by a wall
clock that may be set back. Stores export to one another, and an import joins two records
of one fact. A read as of a past moment says whether it is exact.

*Await points.* The governed store reads a fact, awaits policies, writes, and awaits an
audit sink that may fail. `state.ts`, `consolidation.ts` and `mental-models.ts` read,
await, and then write what they concluded from the read, holding no lock.

*Crashes and partial failure.* Several operations are several transactions: an import,
binning a fact with its conclusions, an erasure request with its receipt, a consolidation.

*Messages and scheduling.* Recalls overlap one another, a worker thread that may end, pins that
change, and keys that are being fetched. Each must be answered, and by what was true of the
store at some moment of the call.

*Shared files.* Processes share SQLite files, the audit log and the sign-in file.

PROJECT.json, "hazards", names each at the line where it bites, with the properties that
watch it.

## 2. The modules

```
 DerivedFacts  <-- what rests on what, as two definitions
   |  \________________________________________
   |                    |                      |
 DerivedSearch     MemoryStore          AtomicGovernance   (what a governed store promises)
 (the loops that   (one store:             ^
  compute it)       every mutator)         | implements
                        |               GovernedStore      (queue, awaits, sink, restarts)
                    FactHistory
                    (one fact in two stores, and reads as of a moment)

 DerivedFacts <-- RecentlyDeleted   (a governed call of several writes: erase, bin, restore, purge)
 DerivedFacts <-- Consolidation     (a host that reads, lets a model think, and writes; and its undo)
 DerivedFacts <-- PostgresStore     (the engine over a part of the graph)

 MCBackground:  DerivedSearch | AuditLog | Embedding | Server | Oidc
 MCServices:    AuditTable | Opening | PostgresStore | StoreSearch | SignIn | TeamMemory
                | LangStore | Release | PortableImport
 MCAnswers:     States | Recall | MentalModels | GovernedReads
```

`FactHistory` and `GovernedStore` take from `MemoryStore` what they need of a change to a
fact and restate it over the state they keep: the first keeps one fact in several stores,
the second several facts reduced to what policies look at.

The last three lines are MC modules that explore several modules in one run. Their parts share
no state: a variable `part` says which one moves in a behaviour, and the others rest in one
state. So a run's states are the sum of its parts' states, and each part is explored exactly as
it would be alone. A property of a part is stated for the behaviours in which it moves.

### DerivedFacts and DerivedSearch — `derived.ts`

`DerivedFacts` defines the two sets the rest of the system uses: `DependentsOf(graph, root)`
is everything that cites the root or cites something that does; `RetractionsFor` is the same
through facts in force only. Both are set definitions without recursion.

`DerivedSearch` is the code: the outer worklist loop (`queue`), the inner scan over all facts
in the store's order, the `seen` set, and the result with the citation that led to each fact.
One action takes the next fact off the queue, one looks at one candidate, one ends a scan.
A graph is any function from facts to sets of facts: circles, self-citation and citations of
facts no longer there are all included.

### MemoryStore — `in-memory-store.ts`, `sqlite-memory-store.ts`

| Variable | Code |
|---|---|
| `facts` | the `nodes` map / table: immutable `content`, temporal `anchors`, mutable `image` |
| `versions` | `node_versions`, oldest first |
| `links`, `embeddings` | edges, and one vector per (fact, model) |
| `clock` | `Date.now()` |
| `minted` | ids given out (random UUIDs never come twice) |
| `backup` | the last `historySnapshot`, in a file |
| `imported` | history variable: facts an import has touched |

Every mutator is one action, because in memory nothing is awaited inside one and in SQLite
one IMMEDIATE transaction covers its reads and writes. `UpdateNode` holds the whole handler:
the patch, the anchor, the version, the cascade with its retraction marks and versions.
`RestoreNode`, `RestoreVersion` and `RestoreEdge` are the imports with their checks. The copy
an import brings is the one exported, or that one changed once more by another store.

Images keep four things apart: the end of validity, the sources cited, the retraction mark
and a label for all other fields.

### FactHistory — `history.ts`, `memory-portability.ts`

One fact in two stores. Each store updates it, exports it (trail, versions, image), and
imports what another exported: first the check of the whole artifact, then the fact, then
version by version, each a step, and a crash may stop it anywhere. `TrailAgrees`, `Explains`
and `AsOf` are the reads as of a moment with their `exact` flag. History variables remember
what each store really held at each moment (`believed`), and whether a write of the importing
store fell into an import (`disturbed`).

### AtomicGovernance and GovernedStore — `governance/governed-store.ts`, `cascade.ts`

`AtomicGovernance` is the promise of docs/policies/ENFORCEMENT.md, "Authorisation and the
mutation it authorises are one step": `Do` decides on the facts as they are, changes them and
appends the event naming all that changed, in one step. Policies are data: relations between
actors and labels given as constants.

`GovernedStore` is the code: `Ask` fixes the actor and takes a place in the queue, `Begin`
checks the latch at the head of the queue, `Look` reads the target, `Judge` reads the facts the
change will bring along and asks the policies, `Write` makes the change, `Record` tells a sink
beside the database. Between these steps other calls, reads (`Read`), raw writers
(`RawWrite`), the host turning to another actor (`Serve`) and process ends (`Restart`) happen.
`setup`, chosen at the start, is the sink (`ownTable`), what is written past the governed handle
(`raw`) and the calls made (`asks`); `Of` says which queues share a database. The refinement
mapping is the identity in the setup with an own table and no raw writers, the only one that
promises it, and constant in the other.

### RecentlyDeleted — `governance/recently-deleted.ts`, `eraseNode` and `eraseWhere`

| Variable | Code |
|---|---|
| `facts` | stored facts: retention tier, deletion record (`at`, `from`, `with`), sources |
| `call` | the call at the head of the queue: what it listed, what it has still to do, its answer so far |
| `now` | today |
| `minted` | ids given out |
| `asked`, `home`, `torn` | history variables: when a deletion was first asked for, the tier before it, whether a process ended half-way through a fact's deletion or return |

A call holds the queue throughout, so there is one at a time; but each fact it writes is a
transaction of its own, and `Stop` may end the process between two. Policies may give any verdict
at any time. `Grace` says which handles there are: a store may be opened with Recently deleted
and without. An update may put a fact in the bin by hand (no request), as GOVERNANCE.md allows;
taking one out by hand is left out, since "`deleteNode` and `restoreDeleted` are the doors", and
imports bring new facts only.

### Consolidation — `consolidation.ts`

| Variable | Code |
|---|---|
| `facts` | raw facts (ended, with a receipt of what ended them, marked as read) and conclusions (sources, pass, ended and why, archived) |
| `edges` | evidence edges |
| `pass` | each pass: what it has still to read again and mark, its proposals, the conclusion being written, the copy a mark is merged onto |
| `undo` | the undo under way: what it has still to withdraw |
| `minted` | ids given out |
| `together` | history variable: the passes under way that another ran beside |

Passes, the undo and the store's other users interleave at every write. A pass is named by its
instant; two passes in one millisecond, which the code cannot tell apart in an undo, are left
out. Evidence quotes are decided by texts that never change, so a proposal that lacks one is
an answer the model did not give. A write that fails after it took effect is the write followed
by `Fails`. A mark writes the whole metadata of the
copy it read a moment before: what is noted in that moment is lost, and a pass beside it may
bring back or take away what another left. `MarksKeepReceipts` therefore speaks of what was
noted before the answer, for a pass that ran alone. `verifyDerived`, for conclusions that come
by import, is not part of this module; `MentalModels` has it for a model's answers.

### AuditLog and AuditTable — `governance/audit.ts`, `audit-table.ts`, `chain.ts`

A digest is modelled as what it was computed from: the sequence of events (and keys) before it
and its own. Two digests are equal exactly when the chains under them are.

`AuditLog` is the file. `RecordLine` is a call of `record()` joining the promise tail;
`ReadHead` the one reading of the file before the first append, with its refusals; `AppendLine`
writes and tells the caller; `FailAppend` leaves nothing, a part or the whole line behind and
refuses all later calls; `RejectLine` settles those; `StopLog` is the end of the process.
Two processes may open one file, which the code cannot prevent: then the file may fork, and the
property is that a forked file does not verify.

`AuditTable` is the table in SQLite: `BeginCall`, the one verification (`EndReading`), the write
transaction (`TakeLock`, `ReadTail`, `CommitRow` or `Abandon`), a verdict asked for beside it,
and rows deleted or edited by hand (external). `tabMark` is `sqlite_sequence`.

### Opening — `project-memory.ts`, `sqlite-memory-store.ts`

Processes that choose a path (`LookCanonical`, `LookLegacy`), wait for the write lock, migrate
from the version they read (`Migrate`), claim the file (`ClaimScope`) and capture. Versions are
steps of the kinds there are: create if missing, add a column, rewrite, rebuild. An old file,
claimed by nobody, may be there from the start; a dump may be restored over one.

### PostgresStore — `postgres-memory-store.ts`

One tenant. `Load` says which facts, versions and edges a call's statements read; `Engine` is the
in-memory store's rule, applied to that part; `CommitWrite` writes the difference. A read is two
steps without a lock. Property `PartStandsForWhole`: what is committed is what the engine makes
of the whole graph.

### StoreSearch — `query-filter.ts`, `decay.ts`, `searchNow`

`Admitted` is the filter, `ComesBefore` the order of an answer and, by stored confidence, SQL's order; a row's place in
either is the number of rows before it (`InOrder`).
`ReadPool`, `FirstPage` (with `MustWiden`, `Wider`) and `NextPage` are the SQLite store's way to a
page. The reference is `WholeList`, the in-memory store's ranking of everything.

### Recall — `hybrid-retriever.ts`

A recall searches by words, asks for the vectors (from the cache, or read and kept), walks them in
batches and looks each fact up, and fuses the lists. Beside it a fact is indexed here
(`StartIndex`, `EndIndex`, `FailIndex`), elsewhere, or by the pass over all that lack a vector, and
facts are deleted and change scope. Scores are integers over the common denominator.

### Embedding — `worker-embedder.ts`, `embed-worker.ts`, `mcp/semantic.ts`

Requests posted to the worker (`embRequests`), what it sent and was not yet delivered
(`embEvents`), the promises that wait (`embPending`), and `embRef`, whether the worker keeps the
process alive. The start probes the model, switches recall over and embeds in batches; a failed
probe or a failed recall turns semantic recall off, a failed batch only ends the indexing.

### Server — `mcp/governance-server.ts`, `pinned.ts`, `mcp/http-server.ts`

Tool calls in slots, several of one connection: recall (found, rendered, answered), pin
(read, then reinforce or add), unpin and invalidate (read, then close). `svShown` is
`PinDeliveries`: what each remembered connection was last shown; `svTold` what it really received.

### SignIn and Oidc — `mcp/owner-oauth.ts`, `mcp/oidc.ts`

`SignIn`: each request loads the file, changes it and saves it, in one step, since nothing is
awaited in between; a load that fails reads as empty (`Loaded`). The list of recent wrong
passphrases, which the code only filters and counts, is a set (`RecentIn`). `Authorize`, `RightPassphrase`,
`WrongPassphrase` with its locks, `ExchangeCode`, `ExchangeRefresh`, `Revoke`, and the clock.
`Oidc`: options checked at the start, discovery shared by the requests of the moment and forgotten
when it fails, and the checks of a token, which is a record of what those checks look at.

### TeamMemory — `governance/promotion.ts`, `teamMemory` in `samples.ts`

Facts with a scope and an author; `JudgePromotion` and `AddCopy` are one call in the governed
queue (`MayRun`); `Withdraw`; and what else changes a fact: writing, updating (`Update`: the words,
the class and the tier, while the labels are refused any change), invalidating, reopening, deleting
and restoring, each as `teamMemory`'s hooks judge it. The question whether a copy is at the scope
already is asked of a search with the default filter (`FoundCopies`), which leaves out copies that
were archived or sealed: the fact can then be promoted again, and the scope holds it twice
(`OneCopyAtAScope` is refuted). What holds is that no search finds two of them, unless one was brought back
(`NotTwiceAtAScope`). History variables: `back` (reopened or restored), `again` (listed again), and
the words and class in a trail event.

### GovernedReads — `governance/governed-store.ts`, `samples.ts`

The reads of a governed handle, store call by store call: `AskPage`, `CheckCursor`, `ReadRows`;
`AskHistory` with a fact and its versions read twice and again while they move; edges and their
other ends; vectors; exports and snapshots. Meanwhile facts are classified, erased, restored,
linked. `View` is the policies' verdict: whole, in part, or hidden.

### States and MentalModels — `state.ts`, `mental-models.ts`, `verifyDerived`

`States`: a call reads the live states of its key, adds the new one and closes the old, each a
step. `MentalModels`: a refresh reads, asks, adds the answer, closes the one before, notes it in
the definition; facts come, change and go meanwhile, and `StartVerify`, `RetractUnsupported` are
the check of evidence. A fact is added under this store's clock (`AddFact`), or comes with a stamp of
any moment (`BringFact`: an import keeps the `created` anchor, a clock may have been wrong for a
while); it leaves the scope and returns (archived, sealed, binned, tagged; reopened) with the stamp
it has. Freshness is evaluated from what is stored, as `staleness` does, so it looks at those stamps
and at nothing else: `FreshSawWhatCame` is therefore stated for facts of this store's own clock that
came after the refresh read (history variable `own`); `StaleOnceOneArrives`, without that condition, is
refuted.

### LangStore, PortableImport, Release

`LangStore` (`integrations/langchain.ts`): puts in turn, each three calls of the store, that may
fail between any two; the namespaces an older version left under joined names. A search fixes the
instant it asks about, waits for the list of older namespaces, reads as of that instant and keeps
what is open: an entry replaced while it waits is found neither by its old fact nor by its new one
(`Search`, `SearchBelow`). `PortableImport`
(`importPortable`): a preflight item by item over several projects, then the writes one by one,
stopped anywhere and run again. `Release` (`scripts/release.mjs`, `release-lib.mjs`): the scripts
step by step over the tree, the clone, origin and npm, and the restart of the connector.

## 3. What is checked

| Run | Question | Bounds |
|---|---|---|
| `store_cascades` | Erasure takes exactly the conclusions, invalidation withdraws exactly those in force and reopening touches nothing (`WithdrawalIsExact`), history accounts for every change | 3 facts, 7 images (no, one or two sources; no end, ended, ends later), trails to 3 |
| `store_records` | Nothing is left for, or brought back to, a fact that is not there; trails stay in order and the record of a stored fact only grows (`RecordGrowsInOrder`) | 2 facts, 1 link, 1 vector model, clock set forward and back, one export and any imports of it or of a copy changed elsewhere |
| `history_reads` | May a read call itself exact only when it is; do stamps keep to the clock (`ReadsAreTrue`) | 2 stores, 3 images, 3 moments, 2 changes, 3 exports |
| `governed` | With its own table, does the governed store implement the atomic specification (`Implements`); with a sink that may fail, is one change at most unrecorded and none made after (`StopsOncePoisoned`); does every call end (`CallsTakeTurns`) | two setups: own table, 7 kinds of request, 4 labels; a sink beside, 3 kinds, raw writers. 2 calls at once, 2 actors, 2 facts one concluded from the other |
| `deleted_bin` | A fact and its conclusions go to the bin, come back and are purged together; the days are kept; a receipt is true; facts come back where they were | 3 facts, one concluded from one or both others, both kinds of handle, 2 tiers, 2 days, process ends |
| `consolidation` | What stands has its evidence, what was withdrawn says why and stays so; an undo misses nothing; nothing is concluded twice; a mark loses nothing noted before the answer | 2 raw facts, 1 conclusion, 2 passes, 1 undo at a time, process ends |
| `background` | Do the worklist loops return what the definitions say, and end; is the log one chain that shows all it promised; does whatever was begun end (`EverythingEnds`); does what was switched off or unpinned stay so (`StaysOff`); is every connection told the rules in the end; are verdicts on tokens due | all graphs of 3 facts, every root and set in force; 2 processes, 1 log, 2 keys, 3 events, 3 starts; 2 recalls, 2 batches; 3 slots on 2 connections, 1 remembered, 2 changes; 2 verifications, 1 change of the issuer |
| `services` | Is one chain shared by processes and what is said of it true; are files opened safely; is part of a graph enough; are pages the list; do sign-in, sharing, puts, releases and imports hold | 2 processes on each; 3 events, 1 alteration; 2 projects whose names collide; graphs of 3 facts, 2 calls; 3 facts on pages of 1 and 2; 2 apps, 2 sign-ins, 4 ticks; 2 members, 3 facts, 4 calls; 4 namespaces, 2 puts, a failure, 2 instants; 3 versions, 5 commits; 4 artifacts, 2 runs, a failure or a change |
| `answers` | Do current states, mental models and governed reads answer from what was there (`ReadsAreAsJudged`), and do recalls and pages miss nothing (`SearchesMissNothing`) | 2 writers, 3 recordings; 3 facts, pool of 2, 1 change; 2 facts with stamps of their own or the store's, 2 refreshes, 2 answers; 3 facts, 2 readers, 2 changes |

Three violation runs show disagreements between a document and the code:

- `history_joins`: SPEC.md §8 says an imported join is marked. `restoreNode` marks it only
  when the incoming image differs from the stored one, so a refresh from a backup whose
  image went away and came back leaves no mark, and reads in between are served as exact
  although this store held another image at the time.
- `deleted_alone`: GOVERNANCE.md says a conclusion cannot be restored on its own while its fact
  waits. One that was deleted first, on its own, can: it is not marked with the fact.
- `consolidation_revives`: SPEC.md §8a says a conclusion still in force at the instant a source
  ends is retracted, and kept. One that is pending counts as in force at an earlier instant; it
  is retracted, and then its pass stands it up all the same, over the retraction.

Statements of the documents that hold with a condition only. The stronger form is kept in the
module where a name is given, and TLC refutes it; the properties of the runs carry the condition.

- ENFORCEMENT.md:29, "That one" unrecorded change, is a bound per store: two governed stores on
  one sink can each leave one (`OneUnrecorded` with two queues in `Of`).
- `promotion.ts:154`, a retry must not leave the scope holding the same fact twice: the search below
  it leaves out archived and sealed copies (`query-filter.ts:44-50`), so a fact whose copy was archived
  is promoted there again, and both copies are live (`OneCopyAtAScope`).
- CHANGELOG.md:560-563, a model is stale when facts in its scope arrive that its answer was never
  shown: `staleness` compares `created` anchors, so a fact that comes with an older one, imported for
  instance, leaves the model fresh (`StaleOnceOneArrives`).
- `mental-models.ts:19-20`, erased words cannot survive in a summary: an erasure while the judgement
  is out finds no answer to take along, and the answer added afterwards quotes the erased fact
  (`ErasedWordsAreGone`).
- `audit-table.ts:23`, a cut-off tail is caught: not when another process appends behind the cut
  before anybody looks (`CutTailIsNamed`).
- `state.ts`, one state holds at any instant: two recorded late, or one late one recorded twice, are
  each closed by the newer state and not by one another, so both held (`OneHoldsAtAnyInstant`).
- `hybrid-retriever.ts`, recall sees an indexed fact right away: not when a recall was reading the
  vectors while it was indexed, and keeps them for a minute (`IndexedIsSeen`).
- `postgres-memory-store.ts:174`, the rules are the engine's: a read of several statements beside
  a deletion may throw (`ReadsAnswer`).
- `release-lib.mjs:262`, an answer of a new process is the new build's: not when launchd restarted
  the job by itself while the build ran (`OkIsAlwaysTheNewBuild`).
- SPEC.md §8, "as of now is always the present", fails in the millisecond after an import whose
  trail is ahead of the clock. An undo of a pass that is still writing passes over its pending
  conclusion, which then stands up. The comment at `derived.ts:28` says a conclusion comes before
  what was drawn from it; the search is breadth first, so a fact that cites both the root and a
  later conclusion comes out before that conclusion. Callers use the result as a set.
- A put of the LangGraph store that fails between its two writes leaves two live facts for an entry
  until the next put of it; namespaces whose segments hold "/" share a tag, and
  `GetFindsLastPut` looks at the entries' own namespaces. A search of it answers for the instant it
  began, so `SearchFindsAllBelow` leaves out what came while it waited for the list of older
  namespaces, and an entry replaced then is missing from the answer altogether. Two pins of one
  text at once make two.

### Why the bounds are enough

*Three facts* give a chain of two conclusions, a conclusion of two facts, a circle with and
without the root, a self-citation, and a citation of an erased fact. *Two anchors on a trail*
(three where the last change is allowed to cascade) give created, changed, changed back; the
join conditions relate neighbours only. *Two stores and three exports* give a copy, a copy of a
changed copy, and a refresh of the original; the interesting histories need an export older than
the last import. The run was also made once with four exports, with the same result. *Two calls
at once* are enough for the queue to have a head and a waiter; the third call in a row reuses
the slot of the first. *Two days* with a grace of one give a request that is not due and one
that is. *One conclusion of two facts* gives evidence that is half recorded when a source goes;
*two passes* meet in what they read and mark, so the second conclusion would only repeat the
first (one pass with two conclusions was run once, with the same result).

In the composed runs: *two processes* are a holder of a lock and one that waits, or a writer and a
reader of its snapshot. *Three log events* are one before, one in and one behind a failing
append, and *three starts* allow one process twice and the other beside it. *A pool of two and a
batch of one* over three facts put the cut between equally near facts; *a page of one or two* over
three facts gives a seam. *Two sign-ins, two wrong passphrases to lock an app and three to lock
all* give each lock and its end. *Three facts and four calls* in a team are a source, a copy and
a second copy, written, promoted, archived and promoted again, or withdrawn and brought back; the run
was also made once with five, which list the first copy again, with the same result. *Two instants* are one before and one after a put that a search waits beside. *Three
versions* are one served, one staged and one in the making.

`MaxTrail`, `MaxMoment`, `Exports`, `MaxChanges`, `MaxExports`, a setup's `maxEvents`, `MaxNow`,
`MaxProposals` and, in the other modules, the constants whose names hold `Max` are the only
bounds, all of them in guards or in the range of the clock. In `Consolidation`, only conclusions
that stand are archived, since nothing looks at the others; in `Recall`, at most one fact starts
out of scope and one without a vector.

`ExactReadsAreTrue`, in `ReadsAreTrue`, is stated for facts not `disturbed`: an import that was
interrupted, or a change in the importing store while an import of that fact was under way, leaves
a record that reads may take for complete. That is what the code does (the import is not a
transaction); it needs three exports and changes in the same millisecond to show. `DoneIsAllThere`
and `RerunGoesThrough` make the same reservation for other writers; `GuessesAreLimited` and
`GivenTokensWork` speak of a file that could always be read; `OneOpenAnswer` and `OneLivePerKey`
of calls that did not overlap, which the code does not promise to survive.

`FreshIsFresh` makes four reservations, each what the code does: facts with a stamp not of this
store's clock (above); facts that were there when the refresh read and were cut off at
`maxFactsPerModel`; facts that were out of the scope then and return to it with their old stamp; and
an answer that was shown a stamp ahead of the clock, behind which nothing newer is noticed until the
clock is past it. The clocks that refreshes and reads of a model, and calls of the LangGraph store,
go by are not set back in the models: behind a clock set back, a withdrawn answer reads as fresh
until the clock comes to its end again, and an entry put before is not found until it comes to its
beginning. In `TeamMemory`, Sensitive facts are there for a host that asks for them, and the tier of
a binned fact is left to `RecentlyDeleted`.

### Fairness

Every fairness condition is weak, and on steps that the event loop or another thread makes when
they are ready:

- `DerivedSearch`: the loop, which is synchronous code.
- `GovernedStore`: each call's next step; the store, the policies and the sink are assumed to
  answer, with success or failure. Without that a hanging sink jams the queue.
- `AuditLog`: each process's next step at the head of its tail, which may be a failure.
- `Embedding`: the delivery of what the worker sent, the worker's answer to each request while it
  runs, and the calls' own steps. That the worker answers or ends is an assumption.
- `Server`: every slot goes on recalling, and a call that began goes on. Pins and their removals
  are not fair.
- `Oidc`: a discovery under way answers, with a document or a failure (the code gives it a
  timeout), and a token whose keys are there is decided.

No fairness is assumed of asking, failing, restarting, raw writers or the host.

### Mutants

Every property is paired with a variant of one definition, kept beside it in the module and
named for the bug it stands for (`ErasedDirect`: an erasure that misses conclusions of
conclusions; `BatchEndInATie`: a batch that cuts equally near facts in two; ...). With the variant
in place the run finds the property violated. A property that joins several has a variant for
each part that a bug could break alone.

## 4. What is proved

`MemoryStore_proofs`, from the typing of the constants and no bound on their size:

- `StoreTypeOK`; `StoreRowsHaveFacts`; `StoreTrailsInOrder`; `StoreHistoryJoinsUp`;
- the action properties `StoreRecordOnlyGrows`, `StoreErasureTakesConclusions`,
  `StoreInvalidationWithdraws`, `StoreReopeningTouchesNothingElse`, and with them
  `StoreRecordGrowsInOrder` and `StoreWithdrawalIsExact`.

The invariants are proved in that order because each needs the ones before: rows need that
facts and links are only created for minted ids; the order of a trail rests on `LatestMoment`
(a stamp is at least every moment on the record); joining up rests on `ChangeJoinsUp`, which
covers the target and the withdrawn conclusions alike. The cascades rest on
`DependentsAreTransitive` and `RootsOwnSources` about the definitions of `DerivedFacts`,
and on `OnlyUpdatesChange`: no other operation than an update changes an image by a version
that is not "restored".

`Consolidation_proofs`, for any number of facts, conclusions and passes running beside one
another, and any number of proposals: `ConsolidationTypeOK`, `ConsolidationStandsOrSaysWhy`
(from `ConsolidationStandsOnEvidence` and `ConsolidationSaysWhy`), `ConsolidationWithdrawnForGood`
(from `ConsolidationNeverRevives` and `ConsolidationUndoneForGood`) and
`ConsolidationConcludesOnce` (from `ConsolidationNotTwice` and `ConsolidationKeepsReceipts`).

Three lemmas say what one step can change: a conclusion (`ConclusionsChange`), a raw fact
(`RawFactsChange`), a pass (`PassesGo`). What stands has its evidence because a pending
conclusion already has the part its pass has recorded (`LinkedSoFar`), and an erasure that takes
a fact takes what was drawn from it (`GoneIsClosed`). Nothing is revived because a conclusion
being written is its pass's alone, and no undo has it on its list (`PendingWhileSaved`). Nothing
is concluded twice because what a conclusion was drawn from is marked, or its pass has still to
mark it (`Covered`); a pass cut short is the exception, and the property leaves it out. A mark
keeps what was noted because a pass that has had none beside it is the only one (`AloneKnows`).

`GovernedStore_proofs`, for any policies, calls, store objects, databases and graph of
conclusions:

- `GovernedTypeOK`, which says of a queue that each call is in it once from when it is made until
  it ends, and only the head has begun;
- `GovernedUnrecordedPerStore`: a failed sink leaves at most one unrecorded change for each store
  object that writes to it, from `IsFiniteSet(Queue)`, with the invariant that changes without an
  event and calls about to record one are together no more than the queues (`SinkOK`);
- `GovernedNothingChangesOncePoisoned`, and for one store object (`OneStore`)
  `GovernedStopsOncePoisoned`. ENFORCEMENT.md:29 needs that condition, see above;
- `GovernedImplementsAtomic`: the refinement of `AtomicGovernance`, each action of the code a step
  or a stutter. The invariant it needs, `DecidedOnFacts`, says that what a call has read and the
  policies have judged are still the facts of the database when it writes, since no other call of
  the one queue has begun and nothing is written past the handle.

`RecentlyDeleted_proofs`: all four properties of `deleted_bin`, `RecentlyDeletedBinIsSound`,
`RecentlyDeletedReceiptIsTrue`, `RecentlyDeletedPurgesWhatIsDue` and
`RecentlyDeletedComesBackWhereItWas`, for any graph, days and handles. `BinIsSound` is not
inductive; its strengthening also says what a call that is half done has written and has still
to write (`WritesOK`, `CallOK`), what an erasure has seen, erased, held and refused so far
(`EraseOK`), and that a conclusion in the bin was binned with its fact or waits on its own
account (`Together`), but for a process that ended half-way.

`StoreServices_proofs` and `Services_proofs`, of all nine parts of `MCServices`, from what the
code makes of its constants: a name made up for "none" is nobody's name and there is a first version
(`ServicesNames`, `ServicesBounds`); namespaces are not empty and 0.11.0 left finitely many entries
(`ServicesNamespaces`); a tenant's graph has facts, a number of versions of each, and edges
(`ServicesTenants`); an artifact is a sequence of facts with a trail and of links, each version
after its own project's copy of the fact (`ServicesArtifacts`); times are whole and it takes a wrong
passphrase at least to lock every app out (`ServicesLocks`); a row has numbers to compare, decay only
takes confidence away, and a pool is no smaller than the page (`ServicesSearches`).

- `ServicesTableTellsTheTruth`: a snapshot being verified was the table's rows at one instant
  (`TabReadings`), and the holder of the write lock knows the newest row (`TabLock`); rows that
  nobody altered are one chain without a gap, and numbers show what is missing (`TabCounted`).
- `ServicesOpensSafely`: a file has had all the steps up to its stamp; while a process migrates,
  nobody changes the version it read; and a canonical path is only ever claimed where the old file
  is another project's (`OpBarred`), so one project's facts never come to lie in two files.
- `ServicesPartStandsForWhole`: what a call has read under the tenant's lock is still so when it
  writes (`PgCallOK`). What the engine makes of that part is what it makes of the whole, restricted
  to the part, since a cascade or a deletion depends on nothing but what rests on its root
  (`PgDependentsOfPart`, `PgPartStands`); and the count in the tenant's row stays ahead of a trail
  that lost events (`PgTrailOK`).
- `ServicesImportsAreWhole`: of the items before the one the preflight looks at, each copy is a
  beginning of what its fact will be, what the fact will be is held already or is written by one of
  them, and what is skipped is covered (`PiChecked`); while it writes, what is still to be written
  extends what is there (`PiPlanned`); and once the preflight passed, all copies of a fact are points
  of one history, so a second run finds nothing to refuse (`PiFits`). It rests on `PiPrefixes`: of
  two beginnings of one trail, one begins the other.
- `ServicesPagesAreTheList`, for any rows, pools and pages: in either order fewer rows stand before
  a row than before one behind it, so each place has one row (`SrSorted`), and leaving out rows that
  have a whole page before them changes nothing on the page (`SrSamePage`). A row the pool left out
  has one: behind a pool whose last row does not reach the page nothing does (`SrLeftOut`), and the
  wider read brings all that comes before the page's last row (`SrWider`). No two rows share an id,
  so what is cut behind the last fact given is what was not given (`SrBehind`).
- `ServicesReleasesAreGated`: pins that were ever committed are served (`RlPinsOK`), a tag on
  origin names a commit that passed the gates (`RlTagsOK`), each step of a script stands on what
  the step before it left (`RlScriptOK`), and the job is either the process from before or has
  loaded the new build (`RlJobOK`).
- `ServicesSharedOnceWithConsent`: what a promotion was judged on still holds when its copy is
  written (`TmCallOK`), and the trail accounts for every copy (`TmRecorded`). That
  no search finds two copies (`TmOnce`) carries through updates because a copy that is listed after
  it was not is marked, and everything else only hides copies.
- `ServicesPutsAreFound`: only the head of an entry's line has begun to put (`LgLine`), it knows
  the live fact before its own (`LgBegunOK`), and but for that put's own new fact a live fact of
  the entry is what the last put left (`LgSettled`). Of what was there at the instant it asks about, a
  search misses nothing that is live when it reads, because what 0.11.0 left, and is still live, is
  on the list however old the list is (`LgOlderOK`).
- `ServicesSignInHolds`, from `OaInv`. A sign-in is asked for, or let in, or has had a pair of tokens,
  never two of these, and keeps one refresh token (`OaFileOK`), which an empty file satisfies too.
  While no read failed, each wrong passphrase of the last lock's length is on the file, or the file
  locks every app for as long as it counts (`OaGuessesKept`), and fewer are on the file than lock
  every app; so one more is as many as may be.

`Answers_proofs`, of three parts of `MCAnswers`:

- `AnswersClosedByNewer`, with several calls beside one another, and `AnswersOneStateAtLast`, for
  calls that did not overlap, from `AnswersStInv`: what a call has read of keys and beginnings is
  still so, and all it has still to close began no later than what closes it. Instants are
  positive (`StTimesAssumption`).
- `AnswersFreshIsFresh`, from `AnswersMmInv`: a fact of this store's own clock that came after the
  refresh had read was learned no earlier than the moment of that refresh (`MmSaw`), and so, unless
  the answer was shown a stamp ahead of the clock, than the newest it was shown, which is what
  `staleness` compares. Facts of any stamp come besides, leave the scope and return; the property
  says nothing of them. The clock has a moment to show (`ClockAssumption`).
- `AnswersReadsAreAsJudged`, from `AnswersGrInv`: a history read half before and half after a
  change either was whole at an instant of the read (`GrMet`), or will be found changed when it is
  read again, because a version it begins with is gone for good (`GrGone`). The facts a store
  starts with are unchanged ones (`CopiesAssumption`).

`Background_proofs`, of four parts of `MCBackground`:

- `BackgroundLogTellsAll`, for any processes, files, keys, events and restarts, from
  `BackgroundLgInv`: an event in flight is on no line; no event is on two lines; all that callers
  were told stands on whole lines in their order, unless a line was spoilt for good, which no
  verification passes; and a file that one process at a time had open verifies but for an
  incomplete last line, its process holding the head (`LgChain`). There is some key, and no log is
  called like none (`LogAssumption`).
- `BackgroundVerdictsAreDue`, for any options, tokens and documents: held keys are this issuer's,
  had in a way nobody else could answer on, and a call during which the issuer was in order finds
  keys or a reading that cannot fail, so a failed discovery is not held against it (`OiInv`). A
  token says when it expires (`TokensAssumption`).
- `BackgroundHeldOpenWhileAsked`, part of `TypesOK`.
- `BackgroundStaysOff`: a rule that is closed is not current any more, whatever labels the later of
  two calls writes back, and a call only names facts there are (`SvInv`).
- of the searches of `DerivedSearch`, from `N \in Nat` and `Graphs` being graphs over the facts,
  `SearchTypeOK`, `SearchReturnsEachFactOnce`, `SearchReasonsAreSources` and
  `SearchFindsRetractions`: when the queue is empty the result is exactly
  `RetractionsFor(graph, Live, root)`. The inductive invariant says that what has been found lies in
  that set, and that every fact already scanned has had all who cite it found: when nothing is left
  to scan, the found facts are closed under citation, and the set is the smallest such.
  `SearchAnswersRight` joins them.

Out of the prover's reach, and left to TLC:

- liveness: `EverythingEnds`, `RulesReachEveryone`, `EveryCallEnds` in `CallsTakeTurns`;
- what folds, selections and sortings of the community modules compute, which takes induction over
  data: the record a read is served from in `FactHistory` (`ReadsAreTrue`), the fusing and the
  batches of `Recall` (`SearchesMissNothing`), the rendered block of `Server` and with it its type
  (`TypesOK`). `StoreSearch` sorts by counting instead, and is proved.

Only model-checked so far: the types of the composed runs, which the invariants above contain for
the parts that have one.

## 5. What is not modelled, and why

- *Text*: full-text matching, tokenising, reading cues out of a question, reranking by a model,
  the layout of a memory block, reports, tool descriptions and the command line. They are functions
  of what they are given, without state that a step could disturb.
- *Cryptography*: signatures, digests and the encryption of an artifact are taken to do what they
  are for; a digest is modelled as what it was computed from.
- *Row formats and schema creation* of the SQL stores, and Postgres imports and embeddings.
- *The seal of an erasure receipt* and its later verification.
- *Mastra and AI SDK adapters*, and the tools of the MCP server that pass one call through.
- *Edges, `restoreVersion` and embeddings through the governed queue*: the same queue, latch and
  commit as the operations that are modelled, with a check of one or two facts. `GovernedReads`
  has their verdicts.
- *Decisions across processes*: the queues of governance and promotion hold back one process.
  ENFORCEMENT.md says so; the model of a second process would show no more than that sentence.
- *Two connectors on one sign-in file*, the registration of clients, and an HTTP answer that is lost
  on its way.

## 6. Plan

1. Proofs: the parts of `SearchesMissNothing` that compute nothing with folds.
2. Receipts: the seal and its verification, over the trail of `AuditTable`.
3. Two connectors on one sign-in file, to say what the rename at its end does and does not protect.
