---------------------------- MODULE StoreSearch ----------------------------
(* searchNodes: what the stores' shared filter admits (src/query-filter.ts),*)
(* the order every store ranks by (src/decay.ts), and how the SQLite store  *)
(* finds a page of that order without ranking everything                    *)
(* (src/sqlite-memory-store.ts, searchNow): it reads a pool in SQL's order, *)
(* by stored confidence, ranks the pool by what decay left of it, and reads *)
(* further only when a row left out could still belong on the page.         *)
(*                                                                          *)
(* A caller asks for a page and continues behind the last fact it was given *)
(* until it is given none.                                                  *)
EXTENDS Integers, SequencesExt

CONSTANTS SrchIds,        \* fact ids, numbers: the last word of every order
          SrchCases,      \* the stores and questions explored, as [kinds, ask]
          SrchMultiplier, \* FTS_POOL_MULTIPLIER
          SrchPoolMin     \* FTS_POOL_MIN

VARIABLES srchRows, \* the facts of the store
          srchAsk,  \* what the caller asks: a filter, whether words, a limit
          srchAt,   \* "asking", "read" (the pool is read) or "done"
          srchPool, \* the first read of a limited search
          srchSeen  \* every fact the caller was given, in order

srchVars == <<srchRows, srchAsk, srchAt, srchPool, srchSeen>>

NoLimit == -2   \* no limit, or one that is not a finite number

----------------------------------------------------------------------------
(* Which facts a search may return *)

\* A label filter is a tree, its nodes numbered from the root: a label with one
\* of some values, all of some filters, or any of them.
MatchesLabels(labels, f) ==
  LET matches[n \in DOMAIN f] ==
        \/ f[n].is = "all" /\ \A m \in f[n].of : matches[m]
        \/ f[n].is = "any" /\ \E m \in f[n].of : matches[m]
        \/ f[n].is = "in" /\ f[n].label \in DOMAIN labels /\ labels[f[n].label] \cap f[n].values # {}
  IN matches[1]

\* Named tiers and classes are taken as named; unnamed, what is sealed or on
\* its way out stays out.
NamedOr(named, value, withheld) == IF named # {} THEN value \in named ELSE value \notin withheld

Admitted(row, f) ==
  /\ NamedOr(f.privacy, row.privacy, {"Sealed"})
  /\ NamedOr(f.tiers, row.tier, {"Archived", "PendingDeletion"})
  /\ MatchesLabels(row.labels, f.labels)
  /\ row.conf >= f.minConfidence
  /\ row.from <= f.validAt
  /\ row.to > f.validAt
  /\ f.words => row.rank > 0

----------------------------------------------------------------------------
(* The orders *)

\* compareRecency(): newest learned first, then the id.
MoreRecent(a, b) == a.created > b.created \/ (a.created = b.created /\ a.id > b.id)

\* Relevance when there are words (a lower rank is better), then confidence,
\* then recency.  Every answer is ranked by confidence as decay leaves it, `by`
\* "eff"; SQL reads a pool by confidence as it is stored, `by` "conf".
Confidence(by, row) == IF by = "eff" THEN row.eff ELSE row.conf
ComesBefore(by, words, a, b) ==
  \/ words /\ a.rank < b.rank
  \/ /\ ~words \/ a.rank = b.rank
     /\ \/ Confidence(by, a) > Confidence(by, b)
        \/ Confidence(by, a) = Confidence(by, b) /\ MoreRecent(a, b)

\* A row's place is the number of rows that come before it.
InOrder(by, words, rows) ==
  [n \in 1 .. Cardinality(rows) |->
     CHOOSE r \in rows : Cardinality({q \in rows : ComesBefore(by, words, q, r)}) = n - 1]

Ranked(words, rows) == InOrder("eff", words, rows)
ReadInOrder(words, rows) == InOrder("conf", words, rows)

AtMost(s, n) == IF n = NoLimit THEN s ELSE SubSeq(s, 1, IF n < Len(s) THEN n ELSE Len(s))
Limit(n) == IF n = NoLimit THEN n ELSE IF n < 0 THEN 0 ELSE n
Behind(s, id) ==
  LET at == {i \in DOMAIN s : s[i].id = id} IN
  IF at = {} THEN <<>> ELSE SubSeq(s, (CHOOSE i \in at : TRUE) + 1, Len(s))

----------------------------------------------------------------------------
(* The in-memory store ranks everything; the Postgres store's SQL filters   *)
(* and it sorts the rows the same way.                                      *)

Matching == {r \in srchRows : Admitted(r, srchAsk)}
WholeList == Ranked(srchAsk.words, Matching)

----------------------------------------------------------------------------
(* The SQLite store *)

SearchInit ==
  \E c \in SrchCases :
    /\ \E kind \in [SrchIds -> c.kinds] : srchRows = {[kind[i] EXCEPT !.id = i] : i \in SrchIds}
    /\ srchAsk = c.ask
    /\ srchAt = "asking"
    /\ srchPool = <<>>
    /\ srchSeen = <<>>

\* The first read: a pool of the page's size times ten, or everything.
PoolSize ==
  LET n == Limit(srchAsk.limit) * SrchMultiplier IN
  IF srchAsk.limit = NoLimit THEN NoLimit ELSE IF n > SrchPoolMin THEN n ELSE SrchPoolMin

ReadPool ==
  /\ srchAt = "asking"
  /\ srchSeen = <<>>
  /\ srchPool' = AtMost(ReadInOrder(srchAsk.words, Matching), PoolSize)
  /\ srchAt' = "read"
  /\ UNCHANGED <<srchRows, srchAsk, srchSeen>>

\* A variant for which a row that ties in confidence never comes before.
BeatsBySurer(row, boundary) == row.conf > boundary.eff

\* A row left out of the pool is on the page only if its stored confidence
\* beats what decay left of the page's last row, or ties with it and is as
\* recent.
Beats(row, boundary) ==
  \/ row.conf > boundary.eff
  \/ /\ row.conf = boundary.eff
     /\ \/ row.created > boundary.created
        \/ row.created = boundary.created /\ row.id >= boundary.id

\* The page, from the pool alone when nothing left out can reach it.
MustWiden(limit) ==
  LET nodes == Ranked(srchAsk.words, ToSet(srchPool))
      boundary == nodes[limit]
      last == srchPool[Len(srchPool)]
  IN
  /\ limit > 0
  /\ Len(srchPool) = PoolSize
  /\ Len(nodes) >= limit
  /\ Beats(last, boundary)
  /\ srchAsk.words => last.rank <= boundary.rank

Wider(limit) ==
  LET boundary == Ranked(srchAsk.words, ToSet(srchPool))[limit] IN
  {r \in Matching :
     IF srchAsk.words THEN r.rank < boundary.rank \/ (r.rank = boundary.rank /\ Beats(r, boundary))
     ELSE Beats(r, boundary)}

FirstPage ==
  LET limit == Limit(srchAsk.limit)
      rows == IF srchAsk.limit # NoLimit /\ MustWiden(limit) THEN Wider(limit) ELSE ToSet(srchPool)
  IN AtMost(Ranked(srchAsk.words, rows), limit)

GivePage ==
  /\ srchAt = "read"
  /\ srchSeen' = FirstPage
  /\ srchAt' = IF FirstPage = <<>> \/ srchAsk.limit = NoLimit THEN "done" ELSE "asking"
  /\ UNCHANGED <<srchRows, srchAsk, srchPool>>

\* `after` the last fact given: everything is ranked and cut behind it.
NextPage ==
  LET page == AtMost(Behind(WholeList, srchSeen[Len(srchSeen)].id), Limit(srchAsk.limit)) IN
  /\ srchAt = "asking"
  /\ srchSeen # <<>>
  /\ srchSeen' = srchSeen \o page
  /\ srchAt' = IF page = <<>> THEN "done" ELSE "asking"
  /\ UNCHANGED <<srchRows, srchAsk, srchPool>>

SearchNext == ReadPool \/ GivePage \/ NextPage

SearchSpec == SearchInit /\ [][SearchNext]_srchVars /\ WF_srchVars(SearchNext)

----------------------------------------------------------------------------
(* Properties *)

\* The type of the search's state.
SearchTypeOK ==
  /\ srchAt \in {"asking", "read", "done"}
  /\ \A r \in srchRows : r.id \in SrchIds /\ r.eff <= r.conf
  /\ ToSet(srchPool) \subseteq srchRows /\ ToSet(srchSeen) \subseteq srchRows

\* The pages a caller reads one after another are, put together, the list the
\* in-memory store ranks: a row the pool left out is never missing from its
\* page, no row comes twice and none is skipped at the seam of two pages.
PagesAreTheList ==
  /\ IsPrefix(srchSeen, WholeList)
  /\ srchAt = "done" /\ Limit(srchAsk.limit) # 0 => srchSeen = WholeList
============================================================================
