------------------------------ MODULE MCServices ------------------------------
(***************************************************************************)
(* Instances of the parts that share no state with one another: the table  *)
(* of audit events, the opening of databases, the Postgres store, the      *)
(* searches, the sign-in, a team's memory, the LangGraph store, the        *)
(* release scripts and the import of an artifact.                          *)
(*                                                                         *)
(* In a behaviour one of them, "part", moves and the others rest, so that  *)
(* the states of each are explored on their own.                           *)
(***************************************************************************)
EXTENDS Integers, Sequences, FiniteSets, TLC

CONSTANTS
  TabProcs, TabMaxEvents, TabMaxHarm, TabMaxReads,
  OpenProcs, OpenProjects, OpenSlug, OpenMaxTries,
  PgCallers, PgIds, PgLinkIds, PgGraphs, PgMaxCalls, PgMaxCuts,
  SrchIds, SrchCases, SrchMultiplier, SrchPoolMin,
  OaApps, OaPendingTtl, OaCodeTtl, OaAccessTtl, OaRefreshTtl, OaLock, OaLockAppAfter, OaLockAllAfter,
  OaMaxClock, OaMaxSignIns, OaMaxPairs, OaMaxLosses,
  TmActors, TmTeams, TmTeamsOf, TmAdmins, TmErasers, TmSettings, TmMaxFacts, TmMaxCalls, Org, Nobody,
  LgCallers, LgNamespaces, LgTag, LgKeys, LgOlder, LgMaxOlder, LgMaxCalls, LgMaxFailures, LgMaxElsewhere,
  LgMaxClock,
  RlLast, RlMaxCommits, RlTries, RlMaxPids,
  PiStores, PiIds, PiLinks, PiArtifacts, PiHeld, PiMaxFailures, PiMaxOthers, PiMaxRuns

VARIABLES
  part,
  tabRows, tabMark, tabChecked, tabCall, tabCalls, tabReads, tabHarm, tabMissing, tabRegrown, tabVerdict,
  openFiles, openLock, openAt, openTries, openFacts,
  pgGraph, pgTrail, pgTenant, pgLock, pgCall, pgChecked, pgCalls, pgCuts, pgAnswered,
  srchRows, srchAsk, srchAt, srchPool, srchSeen,
  oaFile, oaClock, oaSignIns, oaPairs, oaHeld, oaMisses, oaLosses,
  tmFacts, tmTrail, tmApprovals, tmSetting, tmJudged, tmCalls,
  lgFacts, lgQueue, lgCall, lgList, lgCount, lgClock, lgLast, lgTorn,
  rlTree, rlMain, rlOrigin, rlTags, rlNpm, rlRun, cnJob, cnDist, cnLed,
  piArtifact, piFacts, piLinks, piRun, piOutcome, piDisturbed, piPassed, piCount

----------------------------------------------------------------------------
(* Values of the constants *)

\* Two projects whose names made one old file name.
OneSlug == [p \in OpenProjects |-> "one file"]

\* Graphs of a tenant: a chain of conclusions, an edge between two facts, a
\* conclusion of a fact that has ended, and two facts apart.
Tenant(from, ended, edges) ==
  [facts |-> [n \in DOMAIN from |-> [open |-> n \notin ended, from |-> from[n]]],
   versions |-> [n \in DOMAIN from |-> IF n \in ended THEN 1 ELSE 0], edges |-> edges]
Chain == ("a" :> {}) @@ ("b" :> {"a"}) @@ ("c" :> {"b"})
Pair == ("a" :> {}) @@ ("b" :> {"a"}) @@ ("c" :> {})
Tenants ==
  {Tenant(Chain, {}, {}), Tenant(Pair, {}, {[id |-> "e", source |-> "b", target |-> "c"]}), Tenant(Chain, {"b"}, {}),
   Tenant([n \in {"a", "b"} |-> {}], {}, {})}

\* Facts that differ in how sure they are and in when they came, in how well
\* their words match, and in what a filter asks for; and the questions.
Kind(conf, created, rank) ==
  [id |-> 0, conf |-> conf[1], eff |-> conf[2], created |-> created, rank |-> rank, privacy |-> "Private",
   tier |-> "FullRetention", labels |-> [l \in {} |-> {}], from |-> 0, to |-> 9]
Sure == {<<2, 1>>, <<2, 2>>, <<4, 2>>, <<4, 4>>}
Labelled == [Kind(<<4, 2>>, 1, 1) EXCEPT !.labels = [x |-> {"v"}]]
Mixed ==
  {Labelled, Kind(<<2, 2>>, 1, 1), [Labelled EXCEPT !.eff = 4, !.privacy = "Sealed"],
   [Labelled EXCEPT !.eff = 4, !.rank = 0, !.tier = "Archived"], [Labelled EXCEPT !.eff = 4, !.to = 1]}
AnyFilter == <<[is |-> "all", of |-> {}]>>
HasLabel == <<[is |-> "any", of |-> {2, 3}], [is |-> "in", label |-> "x", values |-> {"v", "w"}], [is |-> "any", of |-> {}]>>
Asked(limit, words, filter) ==
  [privacy |-> {}, tiers |-> {}, labels |-> filter, minConfidence |-> 0, validAt |-> 1, words |-> words, limit |-> limit]
Cases ==
  {[kinds |-> {Kind(c, at, 1) : c \in Sure, at \in {1, 2}}, ask |-> Asked(l, FALSE, AnyFilter)] : l \in {1, 2}}
  \cup {[kinds |-> {Kind(c, 1, rank) : c \in Sure, rank \in {1, 2}}, ask |-> Asked(l, TRUE, AnyFilter)] : l \in {1, 2}}
  \cup {[kinds |-> Mixed, ask |-> Asked(l, w, f)] : l \in {-2, -1, 1}, w \in BOOLEAN, f \in {AnyFilter, HasLabel}}

\* Two members of one team, under either way to share.
Teams == [actor \in TmActors |-> TmTeams]
Settings == {[workflow |-> TRUE, selfServe |-> FALSE], [workflow |-> FALSE, selfServe |-> TRUE]}

\* Namespaces one below another, side by side, and with the same tag.
Upper == <<"a">>
Lower == <<"a", "b">>
Beside == <<"a", "c">>
Slashed == <<"a/b">>
Namespaces == {Upper, Lower, Beside, Slashed}
Tags == (Upper :> "a") @@ (Lower :> "a/b") @@ (Slashed :> "a/b") @@ (Beside :> "a/c")
Older == {[ns |-> Lower, key |-> "k"], [ns |-> Beside, key |-> "k"]}

\* Artifacts: the same things twice, two projects with one fact in different
\* states, histories that disagree, a version that says something else.
Made == <<"made">>
Moved == <<"made", "moved">>
Closed == <<"made", "closed">>
Brings(store, id, trail) == [store |-> store, kind |-> "fact", id |-> id, trail |-> trail]
Because == [store |-> "s", kind |-> "edge", id |-> "e", ids |-> {1, 2}, says |-> "because"]
Learned(says) == [store |-> "s", kind |-> "version", id |-> "v", ids |-> {1}, says |-> says]
Artifacts ==
  {<<Brings("s", 1, Made), Brings("s", 2, Made), Because, Learned("learned"), Brings("s", 1, Moved), Because, Learned("learned")>>,
   <<Brings("s", 1, Moved), Brings("t", 1, Closed), Brings("s", 1, Made), Brings("s", 2, Made), Because>>,
   <<Brings("s", 1, Moved), Brings("s", 1, Closed)>>,
   <<Brings("s", 1, Made), Learned("learned"), Brings("s", 1, Made), Learned("told")>>}
Held == [{1, 2} -> {<<>>, Moved}]

----------------------------------------------------------------------------
(* The parts *)

Table == INSTANCE AuditTable
Opening == INSTANCE Opening
Postgres == INSTANCE PostgresStore
Search == INSTANCE StoreSearch
SignIn == INSTANCE SignIn
Team == INSTANCE TeamMemory
Lang == INSTANCE LangStore
Release == INSTANCE Release
Import == INSTANCE PortableImport

\* No project is called as a file is that has no stamp, and no process as the
\* holder of a lock nobody has.
ASSUME ServicesNames ==
  /\ Opening!Unstamped \notin OpenProjects /\ Opening!NoHolder \notin OpenProcs
  /\ Postgres!NoCaller \notin PgCallers

\* A tenant's graph has facts, a number of versions of each, and edges.
ASSUME ServicesTenants == \A g \in PgGraphs :
  /\ DOMAIN g.facts \in SUBSET PgIds
  /\ g.facts \in [DOMAIN g.facts -> Postgres!PgFact] /\ g.versions \in [DOMAIN g.facts -> Nat]
  /\ g.edges \subseteq [id : PgLinkIds, source : PgIds, target : PgIds]
  /\ g = [facts |-> g.facts, versions |-> g.versions, edges |-> g.edges]

\* A namespace has a segment, and 0.11.0 left finitely many entries.
ASSUME ServicesNamespaces ==
  /\ \A ns \in LgNamespaces : ns # <<>> /\ ns \in Seq({ns[n] : n \in DOMAIN ns})
  /\ LgOlder \subseteq Lang!Entries /\ IsFiniteSet(LgOlder)

\* A store holds trails, and an artifact brings facts and links; a version
\* comes after its own project's copy of its fact (memory-portability.ts:244).
ASSUME ServicesArtifacts ==
  /\ PiHeld \subseteq [PiIds -> Seq(Import!Words)]
  /\ \A a \in PiArtifacts :
       /\ a \in Seq(Import!FactItem \cup Import!LinkItem)
       /\ \A n \in DOMAIN a : a[n].kind = "version" =>
            \A i \in a[n].ids : \E m \in 1 .. n - 1 : a[m].kind = "fact" /\ a[m].store = a[n].store /\ a[m].id = i

\* Times are whole, and one wrong passphrase at least locks every app out.
ASSUME ServicesLocks ==
  /\ {OaPendingTtl, OaCodeTtl, OaAccessTtl, OaRefreshTtl, OaLock} \subseteq Nat
  /\ OaLockAllAfter \in Nat \ {0} /\ OaMaxLosses \in Nat

\* A row's values are numbers, decay only takes confidence away, and a pool is
\* no smaller than the page (sqlite-memory-store.ts:1106).
ASSUME ServicesSearches ==
  /\ IsFiniteSet(SrchIds) /\ SrchIds \subseteq Int
  /\ SrchMultiplier \in Nat \ {0} /\ SrchPoolMin \in Nat
  /\ \A c \in SrchCases :
       /\ c.ask.limit \in Int /\ c.ask.words \in BOOLEAN
       /\ \A k \in c.kinds :
            /\ {k.conf, k.eff, k.created, k.rank} \subseteq Int /\ k.eff <= k.conf
            /\ k = [id |-> k.id, conf |-> k.conf, eff |-> k.eff, created |-> k.created, rank |-> k.rank,
                    privacy |-> k.privacy, tier |-> k.tier, labels |-> k.labels, from |-> k.from, to |-> k.to]

\* There is a first version.
ASSUME ServicesBounds == RlLast \in Nat \ {0} /\ RlMaxPids \in Nat

TableVars == <<tabRows, tabMark, tabChecked, tabCall, tabCalls, tabReads, tabHarm, tabMissing, tabRegrown, tabVerdict>>
OpeningVars == <<openFiles, openLock, openAt, openTries, openFacts>>
PostgresVars == <<pgGraph, pgTrail, pgTenant, pgLock, pgCall, pgChecked, pgCalls, pgCuts, pgAnswered>>
SearchVars == <<srchRows, srchAsk, srchAt, srchPool, srchSeen>>
SignInVars == <<oaFile, oaClock, oaSignIns, oaPairs, oaHeld, oaMisses, oaLosses>>
TeamVars == <<tmFacts, tmTrail, tmApprovals, tmSetting, tmJudged, tmCalls>>
LangVars == <<lgFacts, lgQueue, lgCall, lgList, lgCount, lgClock, lgLast, lgTorn>>
ReleaseVars == <<rlTree, rlMain, rlOrigin, rlTags, rlNpm, rlRun, cnJob, cnDist, cnLed>>
ImportVars == <<piArtifact, piFacts, piLinks, piRun, piOutcome, piDisturbed, piPassed, piCount>>

vars == <<part, TableVars, OpeningVars, PostgresVars, SearchVars,
          SignInVars, TeamVars, LangVars, ReleaseVars, ImportVars>>

Parts == {"table", "opening", "postgres", "search", "sign-in", "team",
          "lang", "release", "import"}

----------------------------------------------------------------------------
(* The behaviours: one part moves *)

\* A part that has several initial states, but does not move, has none of them.
Init ==
  /\ part \in Parts
  /\ Table!TabInit /\ SignIn!OaInit /\ Release!ReleaseInit
  /\ IF part = "opening" THEN Opening!OpenInit
     ELSE openFiles = 0 /\ openLock = 0 /\ openAt = 0 /\ openTries = 0 /\ openFacts = 0
  /\ IF part = "postgres" THEN Postgres!PgInit
     ELSE /\ pgGraph = 0 /\ pgTrail = 0 /\ pgTenant = 0 /\ pgLock = 0 /\ pgCall = 0
          /\ pgChecked = 0 /\ pgCalls = 0 /\ pgCuts = 0 /\ pgAnswered = 0
  /\ IF part = "search" THEN Search!SearchInit
     ELSE srchRows = 0 /\ srchAsk = 0 /\ srchAt = 0 /\ srchPool = 0 /\ srchSeen = 0
  /\ IF part = "team" THEN Team!TmInit
     ELSE tmFacts = 0 /\ tmTrail = 0 /\ tmApprovals = 0 /\ tmSetting = 0 /\ tmJudged = 0 /\ tmCalls = 0
  /\ IF part = "lang" THEN Lang!LgInit
     ELSE /\ lgFacts = 0 /\ lgQueue = 0 /\ lgCall = 0 /\ lgList = 0 /\ lgCount = 0 /\ lgClock = 0
          /\ lgLast = 0 /\ lgTorn = 0
  /\ IF part = "import" THEN Import!PiInit
     ELSE /\ piArtifact = 0 /\ piFacts = 0 /\ piLinks = 0 /\ piRun = 0
          /\ piOutcome = 0 /\ piDisturbed = 0 /\ piPassed = 0 /\ piCount = 0

\* This part moves, and the others rest.
Alone(p) ==
  /\ part = p
  /\ UNCHANGED part
  /\ IF p = "table" THEN TRUE ELSE UNCHANGED TableVars
  /\ IF p = "opening" THEN TRUE ELSE UNCHANGED OpeningVars
  /\ IF p = "postgres" THEN TRUE ELSE UNCHANGED PostgresVars
  /\ IF p = "search" THEN TRUE ELSE UNCHANGED SearchVars
  /\ IF p = "sign-in" THEN TRUE ELSE UNCHANGED SignInVars
  /\ IF p = "team" THEN TRUE ELSE UNCHANGED TeamVars
  /\ IF p = "lang" THEN TRUE ELSE UNCHANGED LangVars
  /\ IF p = "release" THEN TRUE ELSE UNCHANGED ReleaseVars
  /\ IF p = "import" THEN TRUE ELSE UNCHANGED ImportVars

TableMoves == Alone("table") /\ Table!TabNext
OpeningMoves == Alone("opening") /\ Opening!OpenNext
PostgresMoves == Alone("postgres") /\ Postgres!PgNext
SearchMoves == Alone("search") /\ Search!SearchNext
SignInMoves == Alone("sign-in") /\ SignIn!OaNext
TeamMoves == Alone("team") /\ Team!TmNext
LangMoves == Alone("lang") /\ Lang!LgNext
ReleaseMoves == Alone("release") /\ Release!ReleaseNext
ImportMoves == Alone("import") /\ Import!PiNext

Next ==
  \/ TableMoves \/ OpeningMoves \/ PostgresMoves \/ SearchMoves
  \/ SignInMoves \/ TeamMoves \/ LangMoves \/ ReleaseMoves \/ ImportMoves

Spec == Init /\ [][Next]_vars

----------------------------------------------------------------------------
(* Properties *)

\* Each part's state is of its type.
TypeOK ==
  CASE part = "table" -> Table!TabTypeOK
    [] part = "opening" -> Opening!OpenTypeOK
    [] part = "postgres" -> Postgres!PgTypeOK
    [] part = "search" -> Search!SearchTypeOK
    [] part = "sign-in" -> SignIn!OaTypeOK
    [] part = "team" -> Team!TmTypeOK
    [] part = "lang" -> Lang!LgTypeOK
    [] part = "release" -> Release!RlTypeOK
    [] part = "import" -> Import!PiTypeOK

\* What verify-audit says of the table of events is true: processes that write
\* at once make one chain, a table nobody altered is never reported, and one
\* that lacks an event or holds a changed one is never called intact, but for
\* a newest row cut off and written over (audit-table.ts:23-27, 218-259).
TableTellsTheTruth ==
  part = "table" => Table!ProcessesShareOneChain /\ Table!NoFalseAlarm /\ Table!AlteredIsNamed

\* Processes that open databases at the same time, under one project name or
\* two that sanitise alike: no file is labelled with migrations it has not had,
\* two projects never capture into one file, and none of a project's captures
\* are left behind in another (sqlite-memory-store.ts:689, 714).
OpensSafely ==
  part = "opening" => Opening!SchemaIsWhatItSays /\ Opening!ProjectsNeverShare /\ Opening!CapturesStayTogether

\* What a call on the Postgres store leaves is what the engine would have made
\* of the tenant's whole graph, of which it read only a part; and a trail whose
\* end was removed is never appended to.
PartStandsForWhole == Postgres!PartStandsForWhole /\ Postgres!CutTrailStaysClosed

\* The pages of a search are, put together, the ranked list of the in-memory
\* store.
PagesAreTheList == part = "search" => Search!PagesAreTheList

\* The owner's passphrase cannot be guessed faster than the locks allow, a
\* sign-in is one line of tokens, and a token that was given works until it is
\* spent, revoked or expires (owner-oauth.ts).
SignInHolds == part = "sign-in" => SignIn!GuessesAreLimited /\ SignIn!OneLineOfTokens /\ SignIn!GivenTokensWork

\* What others than its author can read was shared by its author, with the
\* approval the tenant asks for and on record, and no search finds a fact's copy
\* at a scope twice, whoever promotes and withdraws it at the same time, unless
\* one of the copies was brought back (promotion.ts:154-158).
SharedOnceWithConsent ==
  part = "team" => Team!NotTwiceAtAScope /\ Team!SharedWithConsent /\ Team!WithdrawnOnce

\* The LangGraph store answers a get with the last put, however puts overlap,
\* and a search with everything at or below its prefix that was there when the
\* search began and is live when the store is read (langchain.ts:167-230).
PutsAreFound == part = "lang" => Lang!GetFindsLastPut /\ Lang!SearchFindsAllBelow

\* However a release is stopped and run again, origin's install line names a
\* version that is served, a tag on it passed the gates, and a refreshed
\* connector that is called ok runs the new build (release.mjs, release-lib.mjs).
ReleasesAreGated == part = "release" => Release!PinsAreServed /\ Release!TagsAreGated /\ Release!OkIsTheNewBuild

\* An import is refused before its first write or brings everything, and one
\* that was stopped part-way goes through when it is run again
\* (memory-portability.ts:262-319).
ImportsAreWhole ==
  part = "import" => Import!PreflightFindsClashes /\ Import!DoneIsAllThere /\ Import!RerunGoesThrough
==============================================================================
