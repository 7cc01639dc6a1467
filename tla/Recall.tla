------------------------------- MODULE Recall -------------------------------
(* Recall by words and by meaning: src/hybrid-retriever.ts.                 *)
(*                                                                          *)
(* A recall searches by words, then reads every vector - from a cache the   *)
(* recalls of one process share - and walks them from the nearest, looking  *)
(* each fact up before it counts.  The two lists are fused by reciprocal    *)
(* rank.  Meanwhile facts are deleted and change scope, facts are indexed   *)
(* here, by another process and by a pass over all that lack a vector.      *)
EXTENDS Integers, SequencesExt

CONSTANTS RcFacts,      \* fact ids, numbers: a larger one was learned later
          RcWorlds,     \* what does not change of the facts, as [sim, conf]
          RcCalls,      \* recalls
          RcPool,       \* candidates each list holds at most
          RcBatch,      \* facts looked up in one statement
          RcLimit,      \* facts an answer holds at most
          RcTtl,        \* how long the cache is held
          RcMaxClock,   \* bound: the clock
          RcMaxChanges  \* bound: changes to facts and vectors

VARIABLES rcFact,    \* each fact: "in" the asked scope, "out" of it, or "gone"
          rcWorld,   \* how near each fact is to the question, and how sure
          rcSince,   \* of each vector there is, when it was written
          rcCache,   \* the vectors held: when they were asked for, and which
          rcCall,    \* what each recall is doing
          rcIndexed, \* facts whose indexing here has finished
          rcEmbeds,  \* the fact indexNode() waits for a vector of, or None
          rcPass,    \* the pass that indexes what has no vector
          rcClock,
          rcChanges

rcVars == <<rcFact, rcWorld, rcSince, rcCache, rcCall, rcIndexed, rcEmbeds, rcPass, rcClock, rcChanges>>

NoFact == 0
NoCache == [held |-> FALSE]
NotCalled == [at |-> "idle"]

InScope == {f \in RcFacts : rcFact[f] = "in"}
There == {f \in RcFacts : rcFact[f] # "gone"}
Vectors == DOMAIN rcSince

----------------------------------------------------------------------------
(* The lists and their fusion *)

UpTo(s, n) == SubSeq(s, 1, IF n < Len(s) THEN n ELSE Len(s))

\* Vectors are walked from the nearest, equally near ones in the order of ids.
Walked(rows) ==
  SetToSortSeq(rows, LAMBDA a, b : \/ rcWorld.sim[a] > rcWorld.sim[b]
                                   \/ rcWorld.sim[a] = rcWorld.sim[b] /\ a < b)

\* Between equally near facts the surer goes first, then the one learned later.
Surer(a, b) == \/ rcWorld.conf[a] > rcWorld.conf[b]
               \/ rcWorld.conf[a] = rcWorld.conf[b] /\ a > b
Nearer(a, b) == \/ rcWorld.sim[a] > rcWorld.sim[b]
                \/ rcWorld.sim[a] = rcWorld.sim[b] /\ Surer(a, b)

VectorList(out) == UpTo(SetToSortSeq(ToSet(out), Nearer), RcPool)

\* Reciprocal-rank fusion: weight / (60 + place), over a common denominator.
Share(weight, place) == (weight * 61 * 62 * 63 * 64) \div (60 + place)
ScoreIn(list, f) ==
  IF f \in ToSet(list.of) THEN Share(list.weight, CHOOSE i \in DOMAIN list.of : list.of[i] = f) ELSE 0
Score(lists, f) == FoldSeq(LAMBDA list, sum : sum + ScoreIn(list, f), 0, lists)

Fused(lists) ==
  SetToSortSeq(UNION {ToSet(lists[i].of) : i \in DOMAIN lists},
               LAMBDA a, b : \/ Score(lists, a) > Score(lists, b)
                             \/ Score(lists, a) = Score(lists, b) /\ Surer(a, b))

\* The facts already matched, the last learned first: freshness's own list.
Newest(lists) == SetToSortSeq(UNION {ToSet(lists[i].of) : i \in DOMAIN lists}, LAMBDA a, b : a > b)

----------------------------------------------------------------------------
(* Recalls *)

\* bound: at most one fact starts out of scope, and one without a vector.
RcInit ==
  /\ \E apart \in RcFacts \cup {NoFact} : rcFact = [f \in RcFacts |-> IF f = apart THEN "out" ELSE "in"]
  /\ rcWorld \in RcWorlds
  /\ \E bare \in RcFacts \cup {NoFact} : rcSince = [f \in RcFacts \ {bare} |-> 0]
  /\ rcCache = NoCache
  /\ rcCall = [c \in RcCalls |-> NotCalled]
  /\ rcIndexed = {}
  /\ rcEmbeds = NoFact
  /\ rcPass = NotCalled
  /\ rcClock = 0
  /\ rcChanges = 0

Step(c, s) == rcCall' = [rcCall EXCEPT ![c] = s]
Same == UNCHANGED <<rcFact, rcWorld, rcSince, rcIndexed, rcEmbeds, rcPass, rcClock, rcChanges>>

\* The list by words; `steady` and `seen` are what the properties speak of.
SearchWords(c) ==
  /\ rcCall[c] = NotCalled
  /\ Step(c, [at |-> "searched", steady |-> InScope, seen |-> InScope,
              words |-> UpTo(SetToSortSeq(InScope, LAMBDA a, b : a < b), RcPool), known |-> rcIndexed])
  /\ UNCHANGED rcCache
  /\ Same

\* embeddingsFor(): the vectors held, if they are young enough, or the stored.
Held == rcCache.held /\ rcClock - rcCache.asked < RcTtl

AskVectors(c) ==
  LET call == rcCall[c] IN
  /\ call.at = "searched"
  /\ Step(c, [call EXCEPT !.at = IF Held THEN "walking" ELSE "listing"]
             @@ [rows |-> IF Held THEN rcCache.rows ELSE Vectors, asked |-> rcClock, next |-> 1, out |-> <<>>])
  /\ UNCHANGED rcCache
  /\ Same

\* ... which are held, as asked for when the reading began.
HoldVectors(c) ==
  LET call == rcCall[c] IN
  /\ call.at = "listing"
  /\ rcCache' = [held |-> TRUE, asked |-> call.asked, rows |-> call.rows]
  /\ Step(c, [call EXCEPT !.at = "walking"])
  /\ Same

\* A variant that cuts a group of equally near facts in two.
BatchEndInATie(call) ==
  LET scored == Walked(call.rows) IN
  IF Len(call.out) < RcPool
    THEN LET n == IF RcPool - Len(call.out) > RcBatch THEN RcPool - Len(call.out) ELSE RcBatch
         IN IF call.next + n - 1 < Len(scored) THEN call.next + n - 1 ELSE Len(scored)
    ELSE call.next - 1

\* The end of the next batch: as many as can still make the pool, and once it
\* is full the rest of those as near as its last.
BatchEnd(call) ==
  LET scored == Walked(call.rows) IN
  IF Len(call.out) < RcPool
    THEN LET n == IF RcPool - Len(call.out) > RcBatch THEN RcPool - Len(call.out) ELSE RcBatch
         IN IF call.next + n - 1 < Len(scored) THEN call.next + n - 1 ELSE Len(scored)
    ELSE LET tied == {i \in call.next .. Len(scored) :
                        rcWorld.sim[scored[i]] >= rcWorld.sim[call.out[Len(call.out)]]}
         IN IF tied = {} THEN call.next - 1 ELSE CHOOSE i \in tied : \A j \in tied : j <= i

\* One fact looked up: it must be in scope, and a full pool takes only ties.
TakeFact(out, f) ==
  IF f \in InScope /\ (Len(out) >= RcPool => rcWorld.sim[f] >= rcWorld.sim[out[Len(out)]])
    THEN Append(out, f) ELSE out

LookUp(c) ==
  LET call == rcCall[c]
      end == BatchEnd(call)
  IN
  /\ call.at = "walking"
  /\ end >= call.next
  /\ Step(c, [call EXCEPT !.next = end + 1,
                          !.out = FoldLeft(TakeFact, @, SubSeq(Walked(call.rows), call.next, end))])
  /\ UNCHANGED rcCache
  /\ Same

\* The lists are fused; asked for freshness, with a list of the latest learned.
EndWalk(c) ==
  LET call == rcCall[c]
      two == <<[of |-> call.words, weight |-> 1], [of |-> VectorList(call.out), weight |-> 1]>>
  IN
  /\ call.at = "walking"
  /\ BatchEnd(call) < call.next
  /\ \E lists \in {two, Append(two, [of |-> Newest(two), weight |-> 1])} :
       Step(c, [at |-> "answered", lists |-> lists, answer |-> UpTo(Fused(lists), RcLimit),
                steady |-> call.steady, seen |-> call.seen, rows |-> call.rows])
  /\ UNCHANGED rcCache
  /\ Same

\* The model that embeds the question fails: the server searches again, by
\* words alone.
EmbedderFails(c) ==
  /\ rcCall[c].at = "searched"
  /\ Step(c, [rcCall[c] EXCEPT !.at = "failed"])
  /\ UNCHANGED rcCache
  /\ Same

AnswerByWords(c) ==
  LET words == [of |-> UpTo(SetToSortSeq(InScope, LAMBDA a, b : a < b), RcLimit), weight |-> 1]
      none == [of |-> <<>>, weight |-> 1]
  IN
  /\ rcCall[c].at = "failed"
  /\ Step(c, [at |-> "answered", lists |-> <<words, none>>, answer |-> words.of,
              steady |-> rcCall[c].steady, seen |-> rcCall[c].seen, rows |-> {}])
  /\ UNCHANGED rcCache
  /\ Same

Answered(c) ==
  /\ rcCall[c].at = "answered"
  /\ Step(c, NotCalled)
  /\ UNCHANGED rcCache
  /\ Same

----------------------------------------------------------------------------
(* Indexing *)

\* setEmbedding() of a fact that is there; of one that is not it throws.
WriteVector(f) == rcSince' = [g \in Vectors \cup {f} |-> IF g = f THEN rcClock ELSE rcSince[g]]

\* indexNode(): the cache is let go first, then the vector is waited for.
StartIndex(f) ==
  /\ rcEmbeds = NoFact
  /\ rcChanges < RcMaxChanges
  /\ f \in There \ Vectors
  /\ rcChanges' = rcChanges + 1
  /\ rcCache' = NoCache
  /\ rcEmbeds' = f
  /\ UNCHANGED <<rcFact, rcWorld, rcSince, rcCall, rcIndexed, rcPass, rcClock>>

EndIndex ==
  /\ rcEmbeds # NoFact
  /\ IF rcEmbeds \in There
       THEN WriteVector(rcEmbeds) /\ rcIndexed' = rcIndexed \cup {rcEmbeds}
       ELSE UNCHANGED <<rcSince, rcIndexed>>
  /\ rcEmbeds' = NoFact
  /\ UNCHANGED <<rcFact, rcWorld, rcCache, rcCall, rcPass, rcClock, rcChanges>>

\* remember() keeps the fact when its vector fails: words find it, and the
\* next pass indexes it.
FailIndex ==
  /\ rcEmbeds # NoFact
  /\ rcEmbeds' = NoFact
  /\ UNCHANGED <<rcFact, rcWorld, rcSince, rcCache, rcCall, rcIndexed, rcPass, rcClock, rcChanges>>

\* indexMissingEmbeddings(): which facts have a vector is read first, then,
\* of every tier and class, which facts there are.
ListIndexed ==
  /\ rcPass.at = "idle"
  /\ rcPass' = [at |-> "listed", has |-> Vectors, steady |-> There]
  /\ UNCHANGED <<rcFact, rcWorld, rcSince, rcCache, rcCall, rcIndexed, rcEmbeds, rcClock, rcChanges>>

Searched == There

ListMissing ==
  /\ rcPass.at = "listed"
  /\ rcPass' = [at |-> "indexing", steady |-> rcPass.steady, todo |-> Searched \ rcPass.has]
  /\ UNCHANGED <<rcFact, rcWorld, rcSince, rcCache, rcCall, rcIndexed, rcEmbeds, rcClock, rcChanges>>

\* Other work runs between two writes; a fact deleted meanwhile ends the pass.
IndexOne ==
  /\ rcPass.at = "indexing"
  /\ \E f \in rcPass.todo :
       IF f \in There
         THEN WriteVector(f) /\ rcPass' = [rcPass EXCEPT !.todo = @ \ {f}]
         ELSE rcPass' = [at |-> "failed"] /\ UNCHANGED rcSince
  /\ UNCHANGED <<rcFact, rcWorld, rcCache, rcCall, rcIndexed, rcEmbeds, rcClock, rcChanges>>

EndPass ==
  /\ rcPass.at = "indexing"
  /\ rcPass.todo = {}
  /\ rcPass' = [at |-> "done", steady |-> rcPass.steady]
  /\ UNCHANGED <<rcFact, rcWorld, rcSince, rcCache, rcCall, rcIndexed, rcEmbeds, rcClock, rcChanges>>

\* Another process indexes a fact.
IndexElsewhere(f) ==
  /\ rcChanges < RcMaxChanges
  /\ f \in There \ Vectors
  /\ WriteVector(f)
  /\ rcChanges' = rcChanges + 1
  /\ UNCHANGED <<rcFact, rcWorld, rcCache, rcCall, rcIndexed, rcEmbeds, rcPass, rcClock>>

\* A fact is deleted, its vectors with it, or comes into scope or leaves it.
FactBecomes(f, new) ==
  /\ rcChanges < RcMaxChanges
  /\ rcFact[f] \notin {"gone", new}
  /\ rcFact' = [rcFact EXCEPT ![f] = new]
  /\ rcSince' = IF new = "gone" THEN [g \in Vectors \ {f} |-> rcSince[g]] ELSE rcSince
  /\ rcIndexed' = IF new = "gone" THEN rcIndexed \ {f} ELSE rcIndexed
  /\ rcCall' = [c \in RcCalls |->
       IF rcCall[c].at = "idle" THEN rcCall[c]
       ELSE [rcCall[c] EXCEPT !.steady = IF new = "in" THEN @ ELSE @ \ {f},
                              !.seen = IF new = "in" THEN @ \cup {f} ELSE @]]
  /\ rcPass' = IF new = "gone" /\ "steady" \in DOMAIN rcPass THEN [rcPass EXCEPT !.steady = @ \ {f}] ELSE rcPass
  /\ rcChanges' = rcChanges + 1
  /\ UNCHANGED <<rcWorld, rcCache, rcEmbeds, rcClock>>

Passes ==
  /\ rcClock < RcMaxClock
  /\ rcClock' = rcClock + 1
  /\ UNCHANGED <<rcFact, rcWorld, rcSince, rcCache, rcCall, rcIndexed, rcEmbeds, rcPass, rcChanges>>

RcNext ==
  \/ \E c \in RcCalls :
       \/ SearchWords(c)
       \/ AskVectors(c)
       \/ HoldVectors(c)
       \/ LookUp(c)
       \/ EndWalk(c)
       \/ EmbedderFails(c)
       \/ AnswerByWords(c)
       \/ Answered(c)
  \/ \E f \in RcFacts :
       \/ StartIndex(f)
       \/ IndexElsewhere(f)
       \/ \E new \in {"in", "out", "gone"} : FactBecomes(f, new)
  \/ EndIndex
  \/ FailIndex
  \/ ListIndexed
  \/ ListMissing
  \/ IndexOne
  \/ EndPass
  \/ Passes

RcSpec == RcInit /\ [][RcNext]_rcVars

----------------------------------------------------------------------------
(* Properties *)

\* The type of the retriever's state.
RcTypeOK ==
  /\ rcFact \in [RcFacts -> {"in", "out", "gone"}]
  /\ Vectors \subseteq There
  /\ rcCache.held => rcCache.rows \subseteq RcFacts /\ rcCache.asked <= rcClock
  /\ \A c \in RcCalls : rcCall[c].at \in {"idle", "searched", "listing", "walking", "failed", "answered"}
  /\ rcPass.at \in {"idle", "listed", "indexing", "done", "failed"}
  /\ rcEmbeds \in RcFacts \cup {NoFact}

\* A fact that had a vector read and was in scope all along is left out of the
\* list by meaning only if the list is full of facts that go before it: by
\* nearness, and between equally near ones by the fact and not by where the
\* reading of the vectors was cut (hybrid-retriever.ts:322-328).
NearestAreListed ==
  \A c \in RcCalls :
    rcCall[c].at = "answered" =>
      LET near == rcCall[c].lists[2].of IN
      \A f \in (rcCall[c].steady \cap rcCall[c].rows) \ ToSet(near) :
        Len(near) = RcPool /\ \A i \in DOMAIN near : Nearer(near[i], f)

\* No answer holds a fact that was not in scope at some moment of its recall:
\* the vectors are read without a scope, and may be a minute old
\* (hybrid-retriever.ts:164-167).
AnswersWereInScope ==
  \A c \in RcCalls : rcCall[c].at = "answered" => ToSet(rcCall[c].answer) \subseteq rcCall[c].seen

\* A fact that no list places behind another, and some list ahead of it, is
\* ahead of it in the answer: fusing lists never overturns their agreement.
Ahead(list, a, b) ==
  a \in ToSet(list) /\ (b \in ToSet(list) => \E i, j \in DOMAIN list : list[i] = a /\ list[j] = b /\ i < j)

AgreementIsKept ==
  \A c \in RcCalls :
    rcCall[c].at = "answered" =>
      \A b \in ToSet(rcCall[c].answer) : \A a \in RcFacts \ {b} :
        (\A i \in DOMAIN rcCall[c].lists : Ahead(rcCall[c].lists[i].of, a, b)) => Ahead(rcCall[c].answer, a, b)

\* A recall walks every vector that was written, here or by another process, a
\* cache's lifetime before it asked for them (hybrid-retriever.ts:113-116).
SeenWithinTtl ==
  \A c \in RcCalls :
    rcCall[c].at = "walking" =>
      \A f \in Vectors : rcSince[f] <= rcCall[c].asked - RcTtl => f \in rcCall[c].rows

\* A pass that ends has left no fact without a vector that was there when it
\* began: retired and archived ones included, which a named scope may ask for.
NoneLeftUnindexed == rcPass.at = "done" => rcPass.steady \subseteq Vectors

\* A recall begun after a fact was indexed here finds its vector: "Embed one
\* node immediately (capture path) so recall sees it right away".
IndexedIsSeen ==
  \A c \in RcCalls :
    rcCall[c].at = "walking" => rcCall[c].known \cap Vectors \subseteq rcCall[c].rows
============================================================================
