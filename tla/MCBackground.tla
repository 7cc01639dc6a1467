----------------------------- MODULE MCBackground -----------------------------
(***************************************************************************)
(* Instances of the parts in which something must come to an end: the      *)
(* searches of derived.ts, over every graph on three facts, circles and    *)
(* self-citations included; the chained log; the worker that embeds; the   *)
(* pinned tier each connection is sent; and the checking of an OIDC token. *)
(*                                                                         *)
(* In a behaviour one of them, "part", moves and the others rest: they     *)
(* share no state, so that the states of each are explored on their own.   *)
(***************************************************************************)
EXTENDS DerivedSearch

CONSTANTS
  LogProcs, LogFiles, LogKeys, LogMaxEvents, LogMaxStarts,
  EmbCallers, EmbBatches,
  SvSlots, SvConnection, SvTexts, SvSize, SvBudget, SvMaxShown, SvMaxChanges,
  OiCallers, OiOptions, OiTokens, OiDocuments, OiMaxChanges

VARIABLES
  part,
  logText, logOpen, logTail, logBase, logQueue, logCalls, logStarts, logTold, logShared,
  embWorker, embDead, embPending, embRequests, embEvents, embRef, embCalls, embStatus, embIndexed,
  svFacts, svCalls, svShown, svTold, svChanges,
  oiOptions, oiIssuer, oiKeys, oiCall, oiChanges

----------------------------------------------------------------------------
(* Values of the constants *)

EveryGraph == [Fact -> SUBSET Fact]

\* Two slots are one connection's, the third is another's; and a text that
\* fills the tier.
Slots == [s \in SvSlots |-> IF s = 3 THEN "d" ELSE "c"]
Sizes == [t \in SvTexts |-> IF t = "long" THEN 2 ELSE 1]

Good ==
  [signedBy |-> "this issuer", issuer |-> "this issuer", audience |-> "here", algorithm |-> "asymmetric",
   expiredFor |-> 0, namesActor |-> TRUE, namesTenant |-> TRUE]
Tokens ==
  {Good, [Good EXCEPT !.signedBy = "another"], [Good EXCEPT !.audience = "there"], [Good EXCEPT !.expiredFor = 31],
   [Good EXCEPT !.namesTenant = FALSE], [Good EXCEPT !.algorithm = "shared secret"]}
Plain ==
  [keys |-> "discovered", scheme |-> "https", audiences |-> {"here"}, algorithms |-> {"asymmetric"}, skew |-> 30,
   tenanted |-> FALSE]
Options ==
  {Plain, [Plain EXCEPT !.tenanted = TRUE], [Plain EXCEPT !.keys = "given", !.scheme = "http"],
   [Plain EXCEPT !.keys = "fetched", !.scheme = "http"], [Plain EXCEPT !.skew = 301],
   [Plain EXCEPT !.algorithms = {"asymmetric", "shared secret"}], [Plain EXCEPT !.audiences = {}]}
Answering(up, issuer, scheme) == [up |-> up, names |-> issuer, scheme |-> scheme]
Documents ==
  {Answering(TRUE, "this issuer", "https"), Answering(FALSE, "this issuer", "https"),
   Answering(TRUE, "another", "https"), Answering(TRUE, "this issuer", "http")}

----------------------------------------------------------------------------
(* The parts *)

Log == INSTANCE AuditLog
Embedder == INSTANCE Embedding
Server == INSTANCE Server
Oidc == INSTANCE Oidc

\* A log has a path, and is opened with some key.
ASSUME LogAssumption == LogKeys # {} /\ Log!NoLog.file \notin LogFiles

\* A token says when it expires; jwtVerify refuses one that does not.
ASSUME TokensAssumption == \A token \in OiTokens : token.expiredFor \in Int

LogVars == <<logText, logOpen, logTail, logBase, logQueue, logCalls, logStarts, logTold, logShared>>
EmbedderVars == <<embWorker, embDead, embPending, embRequests, embEvents, embRef, embCalls, embStatus, embIndexed>>
ServerVars == <<svFacts, svCalls, svShown, svTold, svChanges>>
OidcVars == <<oiOptions, oiIssuer, oiKeys, oiCall, oiChanges>>
allVars == <<part, vars, LogVars, EmbedderVars, ServerVars, OidcVars>>

Parts == {"derived", "log", "embedder", "server", "oidc"}

\* Of a part that has several initial states, but does not move, one is enough:
\* for derived.ts a search that has ended.
AllInit ==
  /\ part \in Parts
  /\ Log!LogInit /\ Embedder!EmbInit /\ Server!SvInit
  /\ IF part = "derived" THEN Init
     ELSE /\ restsOn = [n \in Fact |-> {}] /\ live = {} /\ root = 1 /\ queue = <<>>
          /\ current = 0 /\ next = 1 /\ seen = {1} /\ out = <<>>
  /\ IF part = "oidc" THEN Oidc!OiInit
     ELSE /\ oiOptions = Plain /\ oiIssuer = Answering(TRUE, "this issuer", "https") /\ oiKeys = Oidc!NoKeys
          /\ oiCall = [c \in OiCallers |-> Oidc!OiFree] /\ oiChanges = 0

\* This part moves, and the others rest.
Alone(p) ==
  /\ part = p
  /\ UNCHANGED part
  /\ IF p = "derived" THEN TRUE ELSE UNCHANGED vars
  /\ IF p = "log" THEN TRUE ELSE UNCHANGED LogVars
  /\ IF p = "embedder" THEN TRUE ELSE UNCHANGED EmbedderVars
  /\ IF p = "server" THEN TRUE ELSE UNCHANGED ServerVars
  /\ IF p = "oidc" THEN TRUE ELSE UNCHANGED OidcVars

DerivedMoves == Alone("derived") /\ Next
LogMoves == Alone("log") /\ Log!LogNext
EmbedderMoves == Alone("embedder") /\ Embedder!EmbNext
ServerMoves == Alone("server") /\ Server!SvNext
OidcMoves == Alone("oidc") /\ Oidc!OiNext

AllNext == DerivedMoves \/ LogMoves \/ EmbedderMoves \/ ServerMoves \/ OidcMoves

\* Each part is scheduled as its own module says.
AllFairness ==
  /\ WF_vars(part = "derived" /\ Next)
  /\ \A p \in LogProcs : WF_LogVars(part = "log" /\ Log!LogStep(p))
  /\ WF_EmbedderVars(part = "embedder" /\ (Embedder!DeliverAnswer \/ Embedder!DeliverExit))
  /\ \A c \in Embedder!Asking : WF_EmbedderVars(part = "embedder" /\ Embedder!WorkerAnswers(c))
  /\ WF_EmbedderVars(part = "embedder" /\ Embedder!StartAsks)
  /\ WF_EmbedderVars(part = "embedder" /\ (Embedder!StartFails \/ Embedder!ProbeAnswered \/ Embedder!BatchEmbedded))
  /\ \A c \in EmbCallers : /\ WF_EmbedderVars(part = "embedder" /\ Embedder!RecallAsks(c))
                           /\ WF_EmbedderVars(part = "embedder" /\ Embedder!RecallEnds(c))
  /\ \A s \in SvSlots :
       /\ WF_ServerVars(part = "server" /\ Server!RecallStarts(s))
       /\ WF_ServerVars(part = "server" /\ (\/ Server!RecallRenders(s) \/ Server!RecallAnswers(s)
                                            \/ Server!PinReinforces(s) \/ Server!PinAdds(s) \/ Server!Closes(s)))
  /\ WF_OidcVars(part = "oidc" /\ \E doc \in OiDocuments : Oidc!DiscoveryAnswers(doc))
  /\ \A c \in OiCallers : WF_OidcVars(part = "oidc" /\ Oidc!Decide(c))

AllSpec == AllInit /\ [][AllNext]_allVars /\ AllFairness

----------------------------------------------------------------------------
(* Properties *)

\* Each part's state is of its type, and the worker keeps the process running
\* exactly while a request waits on it (worker-embedder.ts:62-75).
TypesOK ==
  CASE part = "derived" -> TypeOK
    [] part = "log" -> Log!LogTypeOK
    [] part = "embedder" -> Embedder!EmbTypeOK /\ Embedder!HeldOpenWhileAsked
    [] part = "server" -> Server!SvTypeOK
    [] part = "oidc" -> Oidc!OiTypeOK

\* A log with one writer at a time is one chain at all times, whatever failed,
\* was cut off or restarted; and any log that verifies shows every event a
\* caller was told is recorded, in that order (audit.ts:208-247).
LogTellsAll == part = "log" => Log!LogStaysOneChain /\ Log!VerifiedLogsShowAll

\* Whatever was begun ends: a search, whose conclusions may form circles
\* (derived.ts:30); record(), whatever became of the calls before it
\* (audit.ts:240-247); a question to the worker, although it ends, fails or is
\* closed (worker-embedder.ts:44-56); and the verification of a token.
EverythingEnds ==
  Terminates /\ Log!LogCallsSettle /\ (part = "embedder" => Embedder!EmbedsSettle) /\ Oidc!VerdictsCome

\* Semantic recall that is off stays off, also when the index pass ends after a
\* recall switched it off (semantic.ts:100), and what was unpinned stays out of
\* the pinned tier, whichever of two calls that close a rule writes last.
StaysOff == Embedder!OffStaysOff /\ Server!UnpinnedStaysOut

\* Every connection that goes on recalling is in the end told the pinned tier
\* as it is (governance-server.ts:402).
RulesReachEveryone == part = "server" => Server!RulesReachEveryone

\* Only a genuine token is accepted, and one is refused only for cause: a failed
\* discovery is not held against the next (oidc.ts:77-82, 160-165).
VerdictsAreDue == Oidc!OnlyGenuineAccepted /\ Oidc!RefusedForCause
===============================================================================
