----------------------------- MODULE StoreServices_proofs -----------------------------
(***************************************************************************)
(* What holds of the parts of MCServices that keep, find or carry the      *)
(* facts: the audit table, the opening of a database, the Postgres store,  *)
(* an import, the searches; for any processes, projects, callers, items,   *)
(* rows and bounds. A behaviour moves one part; the invariant of a part is *)
(* shown of the steps of that part alone.                                  *)
(***************************************************************************)
EXTENDS MCServices, TLAPS, SequenceTheorems, FiniteSetTheorems, FunctionTheorems

\* While a part moves, or nothing does, the part that moves stays the same.
LEMMA OnePartMoves ==
  ASSUME [Next]_vars
  PROVE  /\ part' = part
         /\ part = "table" => [Table!TabNext]_TableVars
         /\ part = "opening" => [Opening!OpenNext]_OpeningVars
         /\ part = "import" => [Import!PiNext]_ImportVars
         /\ part = "postgres" => [Postgres!PgNext]_PostgresVars
         /\ part = "search" => [Search!SearchNext]_SearchVars
  BY DEF Next, vars, Alone, TableMoves, OpeningMoves, PostgresMoves, SearchMoves, SignInMoves, TeamMoves, LangMoves,
         ReleaseMoves, ImportMoves

-----------------------------------------------------------------------------
(* The table of audit events.                                              *)

TabRow == [seq : Nat, prev : Seq(Nat), hash : Seq(Nat), event : Nat]
TabRead == [rows : Seq(TabRow), mark : Nat, missing : SUBSET Nat, regrown : BOOLEAN, harm : Nat]
TabSaid == [said : {"ok", "fault"}, missing : SUBSET Nat, regrown : BOOLEAN, harm : Nat]
TabState ==
  {Table!Idle} \cup [at : {"checked", "changed"}, event : Nat \ {0}]
  \cup [at : {"reading"}, event : Nat, read : TabRead] \cup [at : {"tailed"}, event : Nat \ {0}, prev : Seq(Nat)]

TabTypes ==
  /\ tabRows \in Seq(TabRow) /\ tabMark \in Nat /\ tabCalls \in Nat /\ tabHarm \in Nat
  /\ tabMissing \subseteq Nat /\ tabRegrown \in BOOLEAN
  /\ tabCall \in [TabProcs -> TabState]
  /\ tabVerdict \in [TabProcs -> {Table!NoVerdict} \cup TabSaid]

\* The event a row was written for, which an edit does not reach.
Written(row) == row.hash[Len(row.hash)]
TabRowSound(row) == row.hash # <<>> /\ Written(row) # 0 /\ row.event \in {0, Written(row)}
Edited(rows) == {i \in DOMAIN rows : rows[i].event = 0}

\* A table nobody altered is one chain, numbered without a gap.
TabWhole(rows, mark, harm) ==
  harm = 0 => /\ Table!WalkSound(rows) /\ mark = Len(rows)
              /\ \A i \in DOMAIN rows : rows[i].seq = i

\* Rows are numbered upwards, and one that starts at the first number and ends
\* at the mark lacks no event but those that were edited, unless the newest row
\* was cut off and another appended.
TabCounted(rows, mark, missing, regrown) ==
  /\ \A i \in DOMAIN rows : rows[i].seq \in 1 .. mark /\ TabRowSound(rows[i])
  /\ \A i, j \in DOMAIN rows : i < j => rows[i].seq < rows[j].seq
  /\ mark = 0 => missing = {}
  /\ ~regrown /\ rows # <<>> /\ rows[1].seq = 1 /\ rows[Len(rows)].seq = mark =>
       missing \subseteq {Written(rows[i]) : i \in Edited(rows)}

TabNow == TabWhole(tabRows, tabMark, tabHarm) /\ TabCounted(tabRows, tabMark, tabMissing, tabRegrown)
TabAsRead(read) == TabWhole(read.rows, read.mark, read.harm) /\ TabCounted(read.rows, read.mark, read.missing, read.regrown)
TabReadings == \A p \in TabProcs : tabCall[p].at = "reading" => TabAsRead(tabCall[p].read)
TabVerdictTrue(verdict) ==
  /\ verdict.said = "fault" => verdict.harm > 0
  /\ verdict.said = "ok" => verdict.missing = {} \/ verdict.regrown
TabVerdicts == \A p \in TabProcs : TabVerdictTrue(tabVerdict[p])

\* One process writes at a time, and appends to the row that is the newest.
TabLock ==
  /\ \A p, q \in TabProcs : Table!InWrite(p) /\ Table!InWrite(q) => p = q
  /\ \A p \in TabProcs : tabCall[p].at = "tailed" => tabCall[p].prev = Table!TailHash(tabRows)

TabInv == TabTypes /\ TabNow /\ TabReadings /\ TabVerdicts /\ TabLock

LEMMA TabInitInv == Table!TabInit => TabInv
  <1> SUFFICES ASSUME Table!TabInit PROVE TabInv
    OBVIOUS
  <1>1. TabTypes
    <2>1. tabRows \in Seq(TabRow) /\ tabMark = 0 /\ tabCalls = 0 /\ tabHarm = 0 /\ tabMissing = {} /\ tabRegrown = FALSE
      BY DEF Table!TabInit
    <2>2. tabCall \in [TabProcs -> TabState] /\ tabVerdict \in [TabProcs -> {Table!NoVerdict} \cup TabSaid]
      BY DEF Table!TabInit, TabState
    <2>3. QED
      BY <2>1, <2>2 DEF TabTypes
  <1>2. TabNow
    BY DEF Table!TabInit, TabNow, TabWhole, TabCounted, Table!WalkSound
  <1>3. TabReadings /\ TabVerdicts /\ TabLock
    BY DEF Table!TabInit, TabReadings, TabVerdicts, TabVerdictTrue, TabLock, Table!Idle, Table!NoVerdict, Table!InWrite, Table!At
  <1>4. QED
    BY <1>1, <1>2, <1>3 DEF TabInv

\* What a reading of such rows comes to is true.
LEMMA TabJudgedTruly ==
  ASSUME NEW read \in TabRead, TabAsRead(read)
  PROVE  Table!Judgement(read) \in TabSaid /\ TabVerdictTrue(Table!Judgement(read))
  <1> DEFINE rows == read.rows
  <1>1. [read EXCEPT !.mark = Table!MarkOf(read)] = read /\ rows \in Seq(TabRow) /\ read.mark \in Nat
    BY DEF TabRead, Table!MarkOf
  <1>2. Table!Judgement(read) = [said |-> IF Table!TableSound(read) THEN "ok" ELSE "fault",
                                 missing |-> read.missing, regrown |-> read.regrown, harm |-> read.harm]
    BY <1>1 DEF Table!Judgement
  <1>3. ASSUME read.harm = 0 PROVE Table!TableSound(read)
    <2>1. Table!WalkSound(rows) /\ read.mark = Len(rows) /\ \A i \in DOMAIN rows : rows[i].seq = i
      BY <1>3 DEF TabAsRead, TabWhole
    <2>2. Table!TailSound(rows, read.mark)
      BY <1>1, <2>1 DEF Table!TailSound
    <2>3. QED
      BY <2>1, <2>2 DEF Table!TableSound
  <1>4. ASSUME Table!TableSound(read), ~read.regrown, read.mark # 0 PROVE read.missing = {}
    <2>1. /\ rows # <<>> /\ rows[Len(rows)].seq >= read.mark /\ rows[1].seq = 1
          /\ \A i \in DOMAIN rows : rows[i].hash = Append(rows[i].prev, rows[i].event)
      BY <1>4 DEF Table!TableSound, Table!TailSound, Table!WalkSound, Table!RowHash
    <2>2. Len(rows) \in DOMAIN rows /\ rows[Len(rows)].seq \in 1 .. read.mark
      BY <1>1, <2>1 DEF TabAsRead, TabCounted
    <2>3. rows[Len(rows)].seq = read.mark
      BY <1>1, <2>1, <2>2
    <2>4. ASSUME NEW i \in Edited(rows) PROVE FALSE
      <3>1. rows[i] \in TabRow /\ rows[i].event = 0 /\ Written(rows[i]) # 0
        BY <1>1 DEF Edited, TabAsRead, TabCounted, TabRowSound
      <3>2. rows[i].hash = Append(rows[i].prev, 0) /\ rows[i].prev \in Seq(Nat)
        BY <2>1, <3>1 DEF Edited, TabRow
      <3>3. QED
        BY <3>1, <3>2 DEF Written
    <2>5. QED
      BY <1>4, <2>1, <2>3, <2>4 DEF TabAsRead, TabCounted
  <1>5. read.mark = 0 => read.missing = {}
    BY DEF TabAsRead, TabCounted
  <1>6. QED
    BY <1>2, <1>3, <1>4, <1>5 DEF TabSaid, TabRead, TabVerdictTrue

LEMMA TabPassesInv ==
  ASSUME TabInv, NEW p \in TabProcs, NEW state \in TabState, tabCall' = [tabCall EXCEPT ![p] = state],
         UNCHANGED <<tabRows, tabMark, tabHarm, tabMissing, tabRegrown>>, tabCalls' \in Nat,
         \/ tabVerdict' = tabVerdict
         \/ \E verdict \in TabSaid : tabVerdict' = [tabVerdict EXCEPT ![p] = verdict] /\ TabVerdictTrue(verdict),
         state.at = "reading" => TabAsRead(state.read),
         state.at = "changed" => Table!InWrite(p) \/ ~Table!Locked,
         state.at = "tailed" => Table!InWrite(p) /\ state.prev = Table!TailHash(tabRows)
  PROVE  TabInv'
  <1>1. tabCall'[p] = state /\ \A q \in TabProcs \ {p} : tabCall'[q] = tabCall[q]
    BY DEF TabInv, TabTypes
  <1>2. TabTypes'
    BY DEF TabInv, TabTypes
  <1>3. TabNow'
    BY DEF TabInv, TabNow
  <1>4. TabReadings'
    BY <1>1 DEF TabInv, TabReadings
  <1>5. TabVerdicts'
    <2>1. CASE tabVerdict' = tabVerdict
      BY <2>1 DEF TabInv, TabVerdicts
    <2>2. ASSUME NEW verdict \in TabSaid, tabVerdict' = [tabVerdict EXCEPT ![p] = verdict], TabVerdictTrue(verdict)
          PROVE  TabVerdicts'
      <3>1. \A q \in TabProcs : tabVerdict'[q] = IF q = p THEN verdict ELSE tabVerdict[q]
        BY <2>2 DEF TabInv, TabTypes
      <3>2. QED
        BY <2>2, <3>1 DEF TabInv, TabVerdicts
    <2>3. QED
      BY <2>1, <2>2
  <1>6. \A q \in TabProcs : Table!InWrite(q)' <=> IF q = p THEN state.at \in {"changed", "tailed"} ELSE Table!InWrite(q)
    BY <1>1 DEF Table!InWrite, Table!At
  <1>7. TabLock'
    BY <1>1, <1>6 DEF TabInv, TabLock, Table!Locked
  <1>8. QED
    BY <1>2, <1>3, <1>4, <1>5, <1>7 DEF TabInv

\* One more row.
LEMMA TabAppended ==
  ASSUME NEW rows \in Seq(TabRow), NEW row \in TabRow
  PROVE  LET more == Append(rows, row) IN
         /\ more \in Seq(TabRow) /\ DOMAIN more = 1 .. Len(rows) + 1 /\ Len(more) = Len(rows) + 1 /\ more # <<>>
         /\ more[Len(rows) + 1] = row /\ \A i \in 1 .. Len(rows) : more[i] = rows[i]
  BY AppendProperties

LEMMA TabAppendWhole ==
  ASSUME NEW rows \in Seq(TabRow), NEW mark \in Nat, NEW harm, TabWhole(rows, mark, harm), NEW row \in TabRow,
         row.prev = Table!TailHash(rows), row.hash = Table!RowHash(row.prev, row.event), row.seq = mark + 1
  PROVE  TabWhole(Append(rows, row), mark + 1, harm)
  <1> DEFINE n == Len(rows)
             more == Append(rows, row)
  <1>1. /\ DOMAIN more = 1 .. n + 1 /\ Len(more) = n + 1 /\ n \in Nat
        /\ more[n + 1] = row /\ \A i \in 1 .. n : more[i] = rows[i]
    BY TabAppended
  <1>2. n = Len(rows) /\ DOMAIN rows = 1 .. n /\ (rows = <<>> <=> n = 0)
    OBVIOUS
  <1> HIDE DEF n, more
  <1> SUFFICES ASSUME harm = 0
               PROVE  /\ Table!WalkSound(more) /\ mark + 1 = Len(more)
                      /\ \A i \in DOMAIN more : more[i].seq = i
    BY DEF TabWhole, more
  <1>3. Table!WalkSound(rows) /\ mark = n /\ \A i \in 1 .. n : rows[i].seq = i
    BY <1>2 DEF TabWhole
  <1>4. ASSUME NEW i \in 1 .. n + 1 PROVE more[i].seq = i
    BY <1>1, <1>3
  <1>5. ASSUME NEW i \in 1 .. n + 1
        PROVE  /\ more[i].prev = (IF i = 1 THEN <<>> ELSE more[i - 1].hash)
               /\ more[i].hash = Table!RowHash(more[i].prev, more[i].event)
    <2>1. CASE i \in 1 .. n
      <3>1. more[i] = rows[i] /\ (i # 1 => more[i - 1] = rows[i - 1])
        BY <1>1, <2>1
      <3>2. QED
        BY <1>2, <1>3, <2>1, <3>1 DEF Table!WalkSound
    <2>2. CASE i = n + 1
      <3>1. more[i] = row /\ (i # 1 => more[i - 1] = rows[n] /\ n # 0)
        BY <1>1, <2>2
      <3>2. Table!TailHash(rows) = IF i = 1 THEN <<>> ELSE rows[n].hash
        BY <1>1, <1>2, <2>2 DEF Table!TailHash
      <3>3. QED
        BY <3>1, <3>2
    <2>3. QED
      BY <1>1, <2>1, <2>2
  <1>6. QED
    BY <1>1, <1>3, <1>4, <1>5 DEF Table!WalkSound

LEMMA TabAppendCounted ==
  ASSUME NEW rows \in Seq(TabRow), NEW mark \in Nat, NEW missing, NEW regrown \in BOOLEAN, NEW again \in BOOLEAN,
         TabCounted(rows, mark, missing, regrown), NEW row \in TabRow, row.seq = mark + 1,
         TabRowSound(row),
         ~again => ~regrown /\ ~(rows # <<>> /\ rows[Len(rows)].seq < mark)
  PROVE  TabCounted(Append(rows, row), mark + 1, missing, again)
  <1> DEFINE n == Len(rows)
             more == Append(rows, row)
  <1>1. /\ DOMAIN more = 1 .. n + 1 /\ Len(more) = n + 1 /\ n \in Nat
        /\ more[n + 1] = row /\ \A i \in 1 .. n : more[i] = rows[i]
    BY TabAppended
  <1>2. n = Len(rows) /\ DOMAIN rows = 1 .. n /\ (rows = <<>> <=> n = 0)
    OBVIOUS
  <1>3. /\ \A i \in 1 .. n : rows[i].seq \in 1 .. mark /\ TabRowSound(rows[i])
        /\ \A i, j \in 1 .. n : i < j => rows[i].seq < rows[j].seq
    BY <1>2 DEF TabCounted
  <1> HIDE DEF n, more
  <1>4. ASSUME NEW i \in 1 .. n + 1
        PROVE  more[i].seq \in 1 .. mark + 1 /\ TabRowSound(more[i])
    <2>1. CASE i \in 1 .. n
      BY <1>1, <1>3, <2>1
    <2>2. CASE i = n + 1
      BY <1>1, <2>2
    <2>3. QED
      BY <1>1, <2>1, <2>2
  <1>5. ASSUME NEW i \in 1 .. n + 1, NEW j \in 1 .. n + 1, i < j PROVE more[i].seq < more[j].seq
    <2>1. i \in 1 .. n /\ more[i] = rows[i] /\ rows[i].seq \in 1 .. mark
      BY <1>1, <1>3, <1>5
    <2>2. CASE j \in 1 .. n
      BY <1>1, <1>3, <1>5, <2>1, <2>2
    <2>3. CASE j = n + 1
      BY <1>1, <2>1, <2>3
    <2>4. QED
      BY <1>1, <2>2, <2>3
  <1>6. ASSUME ~again, more[1].seq = 1 PROVE missing \subseteq {Written(more[i]) : i \in Edited(more)}
    <2>1. CASE n = 0
      <3>1. mark = 0
        BY <1>1, <1>6, <2>1
      <3>2. QED
        BY <3>1 DEF TabCounted
    <2>2. CASE n # 0
      <3>1. rows # <<>> /\ rows[1].seq = 1 /\ rows[n].seq \in 1 .. mark /\ ~(rows[n].seq < mark) /\ ~regrown
        BY <1>1, <1>2, <1>3, <1>6, <2>2
      <3>2. rows[n].seq = mark
        BY <3>1
      <3>3. missing \subseteq {Written(rows[i]) : i \in Edited(rows)}
        BY <1>2, <3>1, <3>2 DEF TabCounted
      <3>4. ASSUME NEW i \in Edited(rows) PROVE i \in Edited(more) /\ more[i] = rows[i]
        BY <1>1, <1>2 DEF Edited
      <3>5. QED
        BY <3>3, <3>4
    <2>3. QED
      BY <2>1, <2>2
  <1>7. mark + 1 # 0
    OBVIOUS
  <1>8. TabCounted(more, mark + 1, missing, again)
    BY <1>1, <1>4, <1>5, <1>6, <1>7 DEF TabCounted
  <1>9. QED
    BY <1>8 DEF more

\* What is left of the rows when the newest, the oldest or all were deleted.
TabKept(rows, kept) == kept \in {SubSeq(rows, 1, Len(rows) - 1), SubSeq(rows, 2, Len(rows)), <<>>}

LEMMA TabDeleteCounted ==
  ASSUME NEW rows \in Seq(TabRow), NEW mark \in Nat, NEW missing, NEW more, NEW regrown,
         TabCounted(rows, mark, missing, regrown), rows # <<>>,
         NEW kept, TabKept(rows, kept)
  PROVE  TabCounted(kept, mark, more, regrown) /\ kept \in Seq(TabRow)
  <1> DEFINE n == Len(rows)
  <1>1. /\ n \in Nat \ {0} /\ n = Len(rows) /\ DOMAIN rows = 1 .. n /\ \A i \in 1 .. n : rows[i] \in TabRow
    OBVIOUS
  <1>2. /\ \A i \in 1 .. n : rows[i].seq \in 1 .. mark /\ TabRowSound(rows[i])
        /\ \A i, j \in 1 .. n : i < j => rows[i].seq < rows[j].seq
    BY <1>1 DEF TabCounted
  <1> HIDE DEF n
  <1>3. mark # 0
    BY <1>1, <1>2
  <1>4. CASE kept = <<>>
    BY <1>3, <1>4 DEF TabCounted
  <1>5. ASSUME NEW from \in Int, NEW to \in Int, kept = SubSeq(rows, from, to),
               (from = 1 /\ to = n - 1) \/ (from = 2 /\ to = n)
        PROVE  TabCounted(kept, mark, more, regrown) /\ kept \in Seq(TabRow)
    <2>1. \A i \in from .. to : i \in 1 .. n /\ rows[i] \in TabRow
      BY <1>1, <1>5
    <2>2. /\ kept \in Seq(TabRow) /\ Len(kept) = IF from <= to THEN to - from + 1 ELSE 0
          /\ \A i \in 1 .. to - from + 1 : kept[i] = rows[from + i - 1]
      BY <1>5, <2>1, SubSeqProperties
    <2>3. to - from + 1 = n - 1
      BY <1>1, <1>5
    <2>4. Len(kept) = n - 1 /\ DOMAIN kept = 1 .. n - 1
      BY <1>1, <1>5, <2>2
    <2>5. ASSUME NEW i \in 1 .. n - 1 PROVE kept[i] = rows[from + i - 1] /\ from + i - 1 \in 1 .. n
      BY SMTT(30), <1>1, <1>5, <2>2, <2>3
    <2>6. ASSUME NEW i \in 1 .. n - 1
          PROVE  kept[i].seq \in 1 .. mark /\ TabRowSound(kept[i])
      BY <1>2, <2>5
    <2>7. ASSUME NEW i \in 1 .. n - 1, NEW j \in 1 .. n - 1, i < j PROVE kept[i].seq < kept[j].seq
      <3>1. /\ kept[i] = rows[from + i - 1] /\ from + i - 1 \in 1 .. n
            /\ kept[j] = rows[from + j - 1] /\ from + j - 1 \in 1 .. n
        BY <2>5
      <3>2. from + i - 1 < from + j - 1
        BY <1>1, <2>7
      <3>3. QED
        BY <1>2, <3>1, <3>2
    <2>8. ASSUME n - 1 # 0 PROVE kept[1].seq # 1 \/ kept[n - 1].seq # mark
      <3>1. /\ 1 \in 1 .. n - 1 /\ n - 1 \in 1 .. n - 1 /\ 1 \in 1 .. n /\ 2 \in 1 .. n /\ n - 1 \in 1 .. n /\ n \in 1 .. n
        BY <1>1, <2>8
      <3>2. CASE from = 2
        <4>1. kept[1] = rows[2]
          BY <2>5, <3>1, <3>2
        <4>2. rows[1].seq < rows[2].seq /\ rows[1].seq \in 1 .. mark /\ rows[2].seq \in 1 .. mark
          BY <1>2, <3>1
        <4>3. QED
          BY <4>1, <4>2
      <3>3. CASE from = 1
        <4>1. kept[n - 1] = rows[n - 1]
          BY <1>1, <2>5, <3>1, <3>3
        <4>2. n - 1 < n
          BY <1>1
        <4>3. rows[n - 1].seq < rows[n].seq /\ rows[n - 1].seq \in 1 .. mark /\ rows[n].seq \in 1 .. mark
          BY <1>2, <3>1, <4>2
        <4>4. QED
          BY <4>1, <4>3
      <3>4. QED
        BY <1>5, <3>2, <3>3
    <2>9. kept # <<>> => n - 1 # 0
      BY SMTT(30), <1>1, <2>2, <2>4
    <2>10. QED
      BY <1>3, <2>2, <2>4, <2>6, <2>7, <2>8, <2>9 DEF TabCounted
  <1>6. CASE kept = SubSeq(rows, 1, Len(rows) - 1)
    <2>1. 1 \in Int /\ n - 1 \in Int /\ kept = SubSeq(rows, 1, n - 1)
      BY <1>1, <1>6
    <2>2. QED
      BY <1>5, <2>1
  <1>7. CASE kept = SubSeq(rows, 2, Len(rows))
    <2>1. 2 \in Int /\ n \in Int /\ kept = SubSeq(rows, 2, n)
      BY <1>1, <1>7
    <2>2. QED
      BY <1>5, <2>1
  <1>8. QED
    BY <1>4, <1>6, <1>7 DEF TabKept

\* What a row says is edited.
LEMMA TabEditCounted ==
  ASSUME NEW rows \in Seq(TabRow), NEW mark \in Nat, NEW missing, NEW regrown,
         TabCounted(rows, mark, missing, regrown), NEW i \in DOMAIN rows, rows[i].event # 0
  PROVE  LET edited == [rows EXCEPT ![i].event = 0] IN
         TabCounted(edited, mark, missing \cup {rows[i].event}, regrown) /\ edited \in Seq(TabRow)
  <1> DEFINE edited == [rows EXCEPT ![i].event = 0]
             n == Len(rows)
  <1>1. n \in Nat /\ n = Len(rows) /\ DOMAIN rows = 1 .. n /\ \A j \in 1 .. n : rows[j] \in TabRow
    OBVIOUS
  <1>2. [rows[i] EXCEPT !.event = 0] \in TabRow
    BY <1>1 DEF TabRow
  <1>3. edited \in Seq(TabRow) /\ Len(edited) = n /\ DOMAIN edited = 1 .. n
    BY <1>1, <1>2, ExceptSeq
  <1>4. \A j \in 1 .. n : edited[j] = IF j = i THEN [rows[j] EXCEPT !.event = 0] ELSE rows[j]
    BY <1>1
  <1> HIDE DEF edited, n
  <1>5. ASSUME NEW j \in 1 .. n PROVE edited[j].seq = rows[j].seq /\ edited[j].hash = rows[j].hash
    BY <1>1, <1>4 DEF TabRow
  <1>6. \A j \in 1 .. n : Written(edited[j]) = Written(rows[j])
    BY <1>5 DEF Written
  <1>7. i \in Edited(edited) /\ Edited(rows) \subseteq Edited(edited) /\ Edited(edited) \subseteq 1 .. n
    BY <1>1, <1>3, <1>4 DEF Edited, TabRow
  <1>8. mark # 0 /\ rows[i].event = Written(rows[i])
    BY <1>1 DEF TabCounted, TabRowSound
  <1>a. \A j \in 1 .. n : TabRowSound(edited[j])
    <2> SUFFICES ASSUME NEW j \in 1 .. n PROVE TabRowSound(edited[j])
      OBVIOUS
    <2>1. TabRowSound(rows[j]) /\ edited[j].hash = rows[j].hash /\ Written(edited[j]) = Written(rows[j])
      BY <1>1, <1>5, <1>6 DEF TabCounted
    <2>2. edited[j].event \in {0, rows[j].event}
      BY <1>1, <1>4 DEF TabRow
    <2>3. QED
      BY <2>1, <2>2 DEF TabRowSound
  <1>9. ASSUME ~regrown, edited # <<>>, edited[1].seq = 1, edited[n].seq = mark
        PROVE  missing \cup {rows[i].event} \subseteq {Written(edited[j]) : j \in Edited(edited)}
    <2>1. 1 \in 1 .. n /\ n \in 1 .. n /\ rows # <<>>
      BY <1>1
    <2>2. missing \subseteq {Written(rows[j]) : j \in Edited(rows)}
      BY <1>1, <1>5, <1>9, <2>1 DEF TabCounted
    <2>3. Edited(rows) \subseteq 1 .. n
      BY <1>1 DEF Edited
    <2>4. QED
      BY <1>1, <1>6, <1>7, <1>8, <2>2, <2>3
  <1>10. TabCounted(edited, mark, missing \cup {rows[i].event}, regrown)
    BY <1>1, <1>3, <1>5, <1>8, <1>9, <1>a DEF TabCounted
  <1>11. QED
    BY <1>3, <1>10 DEF edited

LEMMA TabHarmedInv ==
  ASSUME TabInv, UNCHANGED <<tabMark, tabChecked, tabCall, tabCalls, tabReads, tabRegrown, tabVerdict>>,
         ~Table!Locked, tabHarm' = tabHarm + 1, tabRows' \in Seq(TabRow), tabMissing' \subseteq Nat,
         TabCounted(tabRows', tabMark, tabMissing', tabRegrown)
  PROVE  TabInv'
  <1>1. TabTypes'
    BY DEF TabInv, TabTypes
  <1>2. TabNow'
    BY DEF TabInv, TabNow, TabTypes, TabWhole
  <1>3. TabReadings' /\ TabVerdicts'
    BY DEF TabInv, TabReadings, TabVerdicts
  <1>4. \A p \in TabProcs : ~Table!InWrite(p)' /\ ~Table!InWrite(p)
    BY DEF Table!Locked, Table!InWrite, Table!At
  <1>5. TabLock'
    BY <1>4 DEF TabLock, Table!InWrite, Table!At
  <1>6. QED
    BY <1>1, <1>2, <1>3, <1>5 DEF TabInv

LEMMA TabDeleteInv == ASSUME TabInv, Table!DeleteRows PROVE TabInv'
  <1>1. PICK kept : /\ TabKept(tabRows, kept) /\ tabRows' = kept
                     /\ tabMissing' = tabMissing \cup ({tabRows[i].event : i \in 1 .. Len(tabRows)} \ {kept[i].event : i \in DOMAIN kept})
    BY DEF Table!DeleteRows, TabKept
  <1>2. tabRows \in Seq(TabRow) /\ tabRows # <<>> /\ tabMark \in Nat /\ tabMissing \subseteq Nat
    BY DEF TabInv, TabTypes, Table!DeleteRows
  <1>3. TabCounted(tabRows, tabMark, tabMissing, tabRegrown)
    BY DEF TabInv, TabNow
  <1>4. \A more : TabCounted(kept, tabMark, more, tabRegrown) /\ kept \in Seq(TabRow)
    BY <1>1, <1>2, <1>3, TabDeleteCounted
  <1>a. TabCounted(tabRows', tabMark, tabMissing', tabRegrown) /\ tabRows' \in Seq(TabRow)
    BY <1>1, <1>4
  <1>b. \A i \in 1 .. Len(tabRows) : tabRows[i] \in TabRow
    BY <1>2
  <1>c. \A i \in 1 .. Len(tabRows) : tabRows[i].event \in Nat
    BY <1>b DEF TabRow
  <1>5. tabMissing' \subseteq Nat
    BY <1>1, <1>2, <1>c
  <1>6. /\ UNCHANGED <<tabMark, tabChecked, tabCall, tabCalls, tabReads, tabRegrown, tabVerdict>>
        /\ ~Table!Locked /\ tabHarm' = tabHarm + 1
    BY DEF Table!DeleteRows
  <1>7. QED
    BY <1>a, <1>5, <1>6, TabHarmedInv

LEMMA TabEditInv == ASSUME TabInv, Table!EditRow PROVE TabInv'
  <1>1. PICK i \in DOMAIN tabRows :
          /\ tabRows[i].event # 0 /\ tabRows' = [tabRows EXCEPT ![i].event = 0]
          /\ tabMissing' = tabMissing \cup {tabRows[i].event}
    BY DEF Table!EditRow
  <1>2. tabRows \in Seq(TabRow) /\ tabMark \in Nat /\ tabMissing \subseteq Nat
    BY DEF TabInv, TabTypes
  <1>3. TabCounted(tabRows, tabMark, tabMissing, tabRegrown)
    BY DEF TabInv, TabNow
  <1>4. TabCounted(tabRows', tabMark, tabMissing', tabRegrown) /\ tabRows' \in Seq(TabRow)
    BY <1>1, <1>2, <1>3, TabEditCounted
  <1>a. tabRows[i] \in TabRow
    BY <1>1, <1>2
  <1>5. tabMissing' \subseteq Nat
    BY <1>1, <1>2, <1>a DEF TabRow
  <1>6. /\ UNCHANGED <<tabMark, tabChecked, tabCall, tabCalls, tabReads, tabRegrown, tabVerdict>>
        /\ ~Table!Locked /\ tabHarm' = tabHarm + 1
    BY DEF Table!EditRow
  <1>7. QED
    BY <1>4, <1>5, <1>6, TabHarmedInv

LEMMA TabCommitInv == ASSUME TabInv, NEW p \in TabProcs, Table!CommitRow(p) PROVE TabInv'
  <1> DEFINE row == Table!AuditRow(tabMark + 1, tabCall[p].prev, tabCall[p].event)
  <1>1. /\ tabRows \in Seq(TabRow) /\ tabMark \in Nat /\ tabRegrown \in BOOLEAN
        /\ tabCall[p] \in TabState /\ tabCall[p].at = "tailed" /\ tabCall[p].prev = Table!TailHash(tabRows)
        /\ \A q \in TabProcs : Table!InWrite(q) => q = p
    BY DEF TabInv, TabTypes, TabLock, Table!CommitRow, Table!At, Table!InWrite
  <1>2. tabCall[p].prev \in Seq(Nat) /\ tabCall[p].event \in Nat \ {0}
    BY <1>1 DEF TabState, Table!Idle
  <1>3. /\ tabRows' = Append(tabRows, row) /\ tabMark' = tabMark + 1
        /\ tabRegrown' = (tabRegrown \/ (tabRows # <<>> /\ tabRows[Len(tabRows)].seq < tabMark))
        /\ tabCall' = [tabCall EXCEPT ![p] = Table!Idle]
        /\ UNCHANGED <<tabChecked, tabCalls, tabReads, tabHarm, tabMissing, tabVerdict>>
    BY DEF Table!CommitRow, Table!Goes
  <1>4. /\ row \in TabRow /\ row.seq = tabMark + 1 /\ row.prev = Table!TailHash(tabRows)
        /\ row.hash = Table!RowHash(row.prev, row.event) /\ TabRowSound(row)
    <2>1. LET hash == Append(tabCall[p].prev, tabCall[p].event) IN
          hash \in Seq(Nat) /\ hash # <<>> /\ hash[Len(hash)] = tabCall[p].event
      BY <1>2, AppendProperties
    <2>2. tabMark + 1 \in Nat
      BY <1>1
    <2>3. QED
      BY <1>1, <1>2, <2>1, <2>2 DEF Table!AuditRow, Table!RowHash, TabRow, TabRowSound, Written
  <1> HIDE DEF row
  <1>5. TabWhole(tabRows', tabMark', tabHarm')
    BY <1>1, <1>3, <1>4, TabAppendWhole DEF TabInv, TabNow
  <1>6. tabRegrown' \in BOOLEAN /\ (~tabRegrown' => ~tabRegrown /\ ~(tabRows # <<>> /\ tabRows[Len(tabRows)].seq < tabMark))
    BY <1>1, <1>3
  <1>7. TabCounted(tabRows', tabMark', tabMissing', tabRegrown')
    BY <1>1, <1>3, <1>4, <1>6, TabAppendCounted DEF TabInv, TabNow
  <1>8. tabCall'[p] = Table!Idle /\ \A q \in TabProcs \ {p} : tabCall'[q] = tabCall[q]
    BY <1>3 DEF TabInv, TabTypes
  <1>9. TabTypes'
    BY <1>1, <1>3, <1>4, <1>6, TabAppended DEF TabInv, TabTypes, TabState
  <1>10. TabReadings' /\ TabVerdicts'
    BY <1>3, <1>8 DEF TabInv, TabReadings, TabVerdicts, Table!Idle
  <1>11. TabLock'
    BY <1>1, <1>8 DEF TabLock, Table!InWrite, Table!At, Table!Idle
  <1>12. QED
    BY <1>5, <1>7, <1>9, <1>10, <1>11 DEF TabInv, TabNow

LEMMA TabNextInv == ASSUME TabInv, [Table!TabNext]_TableVars PROVE TabInv'
  <1>1. CASE UNCHANGED TableVars
    BY <1>1 DEF TableVars, TabInv, TabTypes, TabNow, TabReadings, TabVerdicts, TabLock, Table!InWrite, Table!At
  <1> DEFINE Snap == Table!Snapshot
  <1>2. Snap \in TabRead /\ TabAsRead(Snap) /\ tabCalls + 1 \in Nat \ {0} /\ Table!Idle \in TabState /\ Table!Idle.at = "idle"
    BY DEF TabInv, TabTypes, TabNow, Table!Snapshot, TabRead, TabAsRead, TabState, Table!Idle
  <1> HIDE DEF Snap
  <1>3. ASSUME NEW p \in TabProcs, Table!BeginCall(p) PROVE TabInv'
    <2> DEFINE state == IF p \in tabChecked THEN [at |-> "checked", event |-> tabCalls + 1]
                        ELSE [at |-> "reading", event |-> tabCalls + 1, read |-> Snap]
    <2>1. state \in TabState /\ (state.at = "reading" => state.read = Snap) /\ state.at \in {"checked", "reading"}
      BY <1>2 DEF TabState
    <2>2. /\ tabCall' = [tabCall EXCEPT ![p] = state] /\ tabCalls' \in Nat
          /\ UNCHANGED <<tabRows, tabMark, tabHarm, tabMissing, tabRegrown, tabVerdict>>
      BY <1>2, <1>3 DEF Table!BeginCall, Table!Goes, Snap
    <2> HIDE DEF state
    <2>3. QED
      BY <1>2, <2>1, <2>2, TabPassesInv
  <1>4. ASSUME NEW p \in TabProcs, Table!AskVerdict(p) PROVE TabInv'
    <2> DEFINE state == [at |-> "reading", event |-> 0, read |-> Snap]
    <2>1. state \in TabState /\ state.read = Snap /\ state.at = "reading"
      BY <1>2 DEF TabState
    <2>2. /\ tabCall' = [tabCall EXCEPT ![p] = state] /\ tabCalls' \in Nat
          /\ UNCHANGED <<tabRows, tabMark, tabHarm, tabMissing, tabRegrown, tabVerdict>>
      BY <1>4 DEF Table!AskVerdict, Table!Goes, Snap, TabInv, TabTypes
    <2> HIDE DEF state
    <2>3. QED
      BY <1>2, <2>1, <2>2, TabPassesInv
  <1>5. ASSUME NEW p \in TabProcs, Table!EndReading(p) PROVE TabInv'
    <2> DEFINE verdict == Table!Judgement(tabCall[p].read)
               event == tabCall[p].event
               state == IF event # 0 /\ verdict.said = "ok" THEN [at |-> "checked", event |-> event] ELSE Table!Idle
    <2>1. tabCall[p] \in TabState /\ tabCall[p].at = "reading"
      BY <1>5 DEF TabInv, TabTypes, Table!EndReading, Table!At
    <2>2. event \in Nat /\ tabCall[p].read \in TabRead /\ TabAsRead(tabCall[p].read)
      BY <2>1 DEF TabState, Table!Idle, TabInv, TabReadings
    <2>3. verdict \in TabSaid /\ TabVerdictTrue(verdict)
      BY <2>2, TabJudgedTruly
    <2>4. /\ tabCall' = [tabCall EXCEPT ![p] = state] /\ tabVerdict' = [tabVerdict EXCEPT ![p] = verdict]
          /\ UNCHANGED <<tabRows, tabMark, tabHarm, tabMissing, tabRegrown, tabCalls>> /\ tabCalls' \in Nat
      BY <1>5 DEF Table!EndReading, Table!Goes, TabInv, TabTypes
    <2>5. state \in TabState /\ state.at \in {"checked", "idle"}
      BY <1>2, <2>2 DEF TabState
    <2> HIDE DEF state, verdict
    <2>6. QED
      BY <2>3, <2>4, <2>5, TabPassesInv
  <1>6. ASSUME NEW p \in TabProcs, Table!TakeLock(p) PROVE TabInv'
    <2> DEFINE state == [at |-> "changed", event |-> tabCall[p].event]
    <2>1. tabCall[p] \in TabState /\ tabCall[p].at = "checked"
      BY <1>6 DEF TabInv, TabTypes, Table!TakeLock, Table!At
    <2>2. state \in TabState /\ state.at = "changed"
      BY <2>1 DEF TabState, Table!Idle
    <2>3. /\ tabCall' = [tabCall EXCEPT ![p] = state] /\ tabCalls' \in Nat /\ ~Table!Locked
          /\ UNCHANGED <<tabRows, tabMark, tabHarm, tabMissing, tabRegrown, tabVerdict>>
      BY <1>6 DEF Table!TakeLock, Table!Goes, TabInv, TabTypes
    <2> HIDE DEF state
    <2>4. QED
      BY <2>2, <2>3, TabPassesInv
  <1>7. ASSUME NEW p \in TabProcs, Table!ReadTail(p) PROVE TabInv'
    <2> DEFINE state == [at |-> "tailed", event |-> tabCall[p].event, prev |-> Table!TailHash(tabRows)]
    <2>1. tabCall[p] \in TabState /\ tabCall[p].at = "changed" /\ Table!InWrite(p)
      BY <1>7 DEF TabInv, TabTypes, Table!ReadTail, Table!At, Table!InWrite
    <2>2. Table!TailHash(tabRows) \in Seq(Nat)
      <3>1. tabRows \in Seq(TabRow)
        BY DEF TabInv, TabTypes
      <3>2. tabRows # <<>> => tabRows[Len(tabRows)] \in TabRow
        BY <3>1
      <3>3. QED
        BY <3>1, <3>2 DEF Table!TailHash, TabRow
    <2>3. state \in TabState /\ state.at = "tailed" /\ state.prev = Table!TailHash(tabRows)
      BY <2>1, <2>2 DEF TabState, Table!Idle
    <2>4. /\ tabCall' = [tabCall EXCEPT ![p] = state] /\ tabCalls' \in Nat
          /\ UNCHANGED <<tabRows, tabMark, tabHarm, tabMissing, tabRegrown, tabVerdict>>
      BY <1>7 DEF Table!ReadTail, Table!Goes, TabInv, TabTypes
    <2> HIDE DEF state
    <2>5. QED
      BY <2>1, <2>3, <2>4, TabPassesInv
  <1>8. ASSUME NEW p \in TabProcs, Table!Abandon(p) \/ Table!Reopen(p) PROVE TabInv'
    <2>1. /\ tabCall' = [tabCall EXCEPT ![p] = Table!Idle] /\ tabCalls' \in Nat
          /\ UNCHANGED <<tabRows, tabMark, tabHarm, tabMissing, tabRegrown, tabVerdict>>
      BY <1>8 DEF Table!Abandon, Table!Reopen, Table!Goes, TabInv, TabTypes
    <2>2. QED
      BY <1>2, <2>1, TabPassesInv
  <1>9. QED
    BY <1>1, <1>3, <1>4, <1>5, <1>6, <1>7, <1>8, TabCommitInv, TabDeleteInv, TabEditInv DEF Table!TabNext

\* However many processes write at once the table of events is one chain; one
\* that nobody altered is never reported, and one that lacks an event or holds a
\* changed one is never called intact, but for a newest row cut off and written
\* over (audit-table.ts, walk and tailFault).
THEOREM ServicesTableTellsTheTruth == Spec => []TableTellsTheTruth
  <1> DEFINE Inv == part = "table" => TabInv
  <1>1. Init => Inv
    BY TabInitInv DEF Init
  <1>2. Inv /\ [Next]_vars => Inv'
    BY OnePartMoves, TabNextInv
  <1>3. Inv => TableTellsTheTruth
    BY DEF TabInv, TabNow, TabWhole, TabVerdicts, TabVerdictTrue, TableTellsTheTruth, Table!ProcessesShareOneChain,
           Table!NoFalseAlarm, Table!AlteredIsNamed
  <1> HIDE DEF Inv
  <1>4. QED
    BY <1>1, <1>2, <1>3, PTL DEF Spec

-----------------------------------------------------------------------------
(* The opening of databases.                                               *)

OpScope == OpenProjects \cup {Opening!Unstamped}
OpVersions == 0 .. 4
OpFile == {Opening!NoFile} \cup [there : {TRUE}, version : OpVersions, done : SUBSET (1 .. 4), scope : OpScope]
OpCall ==
  {Opening!Away} \cup [at : {"looking"}, project : OpenProjects]
  \cup [at : {"chosen", "migrated", "open"}, project : OpenProjects, file : Opening!OpenPaths]
  \cup [at : {"migrating"}, project : OpenProjects, file : Opening!OpenPaths, from : OpVersions]

OpTypes ==
  /\ openFiles \in [Opening!OpenPaths -> OpFile]
  /\ openLock \in [Opening!OpenPaths -> OpenProcs \cup {Opening!NoHolder}]
  /\ openAt \in [OpenProcs -> OpCall]
  /\ openFacts \in [Opening!OpenPaths -> SUBSET OpenProjects]

\* The old file is not there, or another project's: it will never be p's.
OpBarred(files, p) ==
  LET old == files[Opening!Legacy(p)] IN old.there => old.scope \notin {p, Opening!Unstamped}

\* What holds of each file, whoever has it open.
OpFileOK(files, f) ==
  files[f].there =>
    /\ 1 .. files[f].version \subseteq files[f].done
    /\ \A p \in OpenProjects : f = Opening!Canonical(p) =>
         /\ files[f].scope \in {p, Opening!Unstamped}
         /\ files[f].scope = p => OpBarred(files, p)

\* A process has a file of its project, and a canonical one only where the old
\* one is barred; while it migrates nobody else changes the version.
OpCallOK(files, lock, q, call) ==
  "file" \in DOMAIN call =>
    /\ call.file \in {Opening!Canonical(call.project), Opening!Legacy(call.project)}
    /\ call.file = Opening!Canonical(call.project) => OpBarred(files, call.project)
    /\ call.file = Opening!Legacy(call.project) => files[call.file].there
    /\ call.at = "migrating" => lock[call.file] = q /\ files[call.file].there /\ files[call.file].version = call.from
    /\ call.at \in {"migrated", "open"} => files[call.file].there /\ files[call.file].done = 1 .. 4
    /\ call.at = "open" => files[call.file].scope = call.project

\* Facts are in a file of their project, stamped with it.
OpFactsOK(files, facts, f) ==
  \A p \in facts[f] : /\ f \in {Opening!Canonical(p), Opening!Legacy(p)}
                      /\ files[f].there /\ files[f].scope = p

OpInv ==
  /\ OpTypes
  /\ \A f \in Opening!OpenPaths : OpFileOK(openFiles, f) /\ OpFactsOK(openFiles, openFacts, f)
  /\ \A q \in OpenProcs : OpCallOK(openFiles, openLock, q, openAt[q])

\* What a step may do to the file g: make it, unless it is an old one, bring it
\* up to date, or stamp it when it has no stamp.
OpGrows(files, more, calls, q, g) ==
  /\ files[g].there =>
       /\ more[g].there /\ files[g].done \subseteq more[g].done
       /\ files[g].scope # Opening!Unstamped => more[g].scope = files[g].scope
       /\ \/ more[g].version = files[g].version
          \/ \A r \in OpenProcs \ {q} : calls[r].at = "migrating" => calls[r].file # g
  /\ more[g].there => 
       /\ files[g].there \/ \A p \in OpenProjects : g # Opening!Legacy(p)
       /\ 1 .. more[g].version \subseteq more[g].done
       /\ \/ more[g].scope = IF files[g].there THEN files[g].scope ELSE Opening!Unstamped
          \/ \E p \in OpenProjects : /\ g \in {Opening!Canonical(p), Opening!Legacy(p)} /\ more[g].scope = p
                                     /\ g = Opening!Canonical(p) => OpBarred(files, p)

\* Paths of different projects, or of different kinds, differ.
LEMMA OpPathsDiffer ==
  /\ \A p, r \in OpenProjects : Opening!Canonical(p) = Opening!Canonical(r) => p = r
  /\ \A p, r \in OpenProjects : Opening!Canonical(p) # Opening!Legacy(r)
  /\ \A p \in OpenProjects : Opening!Canonical(p) \in Opening!OpenPaths /\ Opening!Legacy(p) \in Opening!OpenPaths
  BY DEF Opening!Canonical, Opening!Legacy, Opening!OpenPaths

\* A file that is there is at a version, and has had migrations.
LEMMA OpFileThere ==
  ASSUME NEW file \in OpFile, file.there
  PROVE  file \in [there : {TRUE}, version : OpVersions, done : SUBSET (1 .. 4), scope : OpScope]
  <1>1. file # Opening!NoFile
    BY DEF Opening!NoFile
  <1>2. QED
    BY <1>1 DEF OpFile

LEMMA OpBarredStays ==
  ASSUME NEW files, NEW more, NEW calls, NEW q, \A g \in Opening!OpenPaths : OpGrows(files, more, calls, q, g),
         \A g \in Opening!OpenPaths : files[g] \in OpFile /\ more[g] \in OpFile,
         NEW p \in OpenProjects, OpBarred(files, p)
  PROVE  OpBarred(more, p)
  <1>1. Opening!Legacy(p) \in Opening!OpenPaths
    BY OpPathsDiffer
  <1>2. OpGrows(files, more, calls, q, Opening!Legacy(p))
    BY <1>1
  <1>3. QED
    BY <1>2 DEF OpBarred, OpGrows

LEMMA OpStep ==
  ASSUME OpInv, OpTypes', NEW q \in OpenProcs \cup {Opening!NoHolder},
         \A g \in Opening!OpenPaths : OpGrows(openFiles, openFiles', openAt, q, g),
         \A r \in OpenProcs \ {q} : openAt'[r] = openAt[r],
         \A g \in Opening!OpenPaths : openLock[g] \in OpenProcs \ {q} => openLock'[g] = openLock[g],
         q \in OpenProcs => OpCallOK(openFiles', openLock', q, openAt'[q]),
         \A g \in Opening!OpenPaths : \/ openFacts'[g] = openFacts[g]
                                      \/ (openFiles' = openFiles /\ OpFactsOK(openFiles, openFacts', g))
  PROVE  OpInv'
  <1>1. \A g \in Opening!OpenPaths : openFiles[g] \in OpFile /\ openFiles'[g] \in OpFile
    BY DEF OpInv, OpTypes
  <1>2. \A p \in OpenProjects : OpBarred(openFiles, p) => OpBarred(openFiles', p)
    BY <1>1, OpBarredStays
  <1>3. ASSUME NEW f \in Opening!OpenPaths PROVE OpFileOK(openFiles', f)
    <2>1. OpFileOK(openFiles, f) /\ OpGrows(openFiles, openFiles', openAt, q, f)
      BY DEF OpInv
    <2>2. SUFFICES ASSUME openFiles'[f].there, NEW p \in OpenProjects, f = Opening!Canonical(p)
                   PROVE  /\ openFiles'[f].scope \in {p, Opening!Unstamped}
                          /\ openFiles'[f].scope = p => OpBarred(openFiles', p)
      BY <2>1 DEF OpFileOK, OpGrows
    <2>3. CASE openFiles'[f].scope = IF openFiles[f].there THEN openFiles[f].scope ELSE Opening!Unstamped
      BY <1>2, <2>1, <2>2, <2>3, ServicesNames DEF OpFileOK
    <2>4. ASSUME NEW r \in OpenProjects, f \in {Opening!Canonical(r), Opening!Legacy(r)}, openFiles'[f].scope = r,
                 f = Opening!Canonical(r) => OpBarred(openFiles, r)
          PROVE  /\ openFiles'[f].scope \in {p, Opening!Unstamped}
                 /\ openFiles'[f].scope = p => OpBarred(openFiles', p)
      BY <1>2, <2>2, <2>4, OpPathsDiffer
    <2>5. QED
      BY <2>1, <2>2, <2>3, <2>4 DEF OpGrows
  <1>4. ASSUME NEW f \in Opening!OpenPaths PROVE OpFactsOK(openFiles', openFacts', f)
    <2>1. OpFactsOK(openFiles, openFacts, f) /\ OpGrows(openFiles, openFiles', openAt, q, f)
      BY DEF OpInv
    <2>2. CASE openFacts'[f] = openFacts[f]
      <3>1. SUFFICES ASSUME NEW p \in openFacts[f]
                     PROVE  /\ f \in {Opening!Canonical(p), Opening!Legacy(p)}
                            /\ openFiles'[f].there /\ openFiles'[f].scope = p
        BY <2>2 DEF OpFactsOK
      <3>2. p # Opening!Unstamped
        BY ServicesNames DEF OpInv, OpTypes
      <3>3. QED
        BY <2>1, <3>1, <3>2 DEF OpFactsOK, OpGrows
    <2>3. QED
      BY <2>2
  <1>5. ASSUME NEW r \in OpenProcs \ {q} PROVE OpCallOK(openFiles', openLock', r, openAt'[r])
    <2>1. OpCallOK(openFiles, openLock, r, openAt[r]) /\ openAt'[r] = openAt[r] /\ openAt[r] \in OpCall
      BY DEF OpInv, OpTypes
    <2>2. SUFFICES ASSUME "file" \in DOMAIN openAt[r] PROVE OpCallOK(openFiles', openLock', r, openAt[r])
      BY <2>1 DEF OpCallOK
    <2> DEFINE call == openAt[r]
               f == call.file
    <2>3. /\ f \in Opening!OpenPaths /\ call.project \in OpenProjects
          /\ call.at \in {"chosen", "migrating", "migrated", "open"}
      BY <2>1, <2>2 DEF OpCall, Opening!Away
    <2>4. OpGrows(openFiles, openFiles', openAt, q, f) /\ openFiles[f] \in OpFile /\ openFiles'[f] \in OpFile
      BY <1>1, <2>3
    <2> HIDE DEF call, f
    <2>5. /\ f \in {Opening!Canonical(call.project), Opening!Legacy(call.project)}
          /\ f = Opening!Canonical(call.project) => OpBarred(openFiles', call.project)
          /\ f = Opening!Legacy(call.project) => openFiles'[f].there
      BY <1>2, <2>1, <2>2, <2>3, <2>4 DEF OpCallOK, OpGrows, call, f
    <2>6. call.at = "migrating" =>
            openLock'[f] = r /\ openFiles'[f].there /\ openFiles'[f].version = call.from
      BY <2>1, <2>2, <2>3, <2>4 DEF OpCallOK, OpGrows, call, f
    <2>7. call.at \in {"migrated", "open"} => openFiles'[f].there /\ openFiles'[f].done = 1 .. 4
      <3>1. SUFFICES ASSUME call.at \in {"migrated", "open"} PROVE openFiles'[f].there /\ openFiles'[f].done = 1 .. 4
        OBVIOUS
      <3>2. openFiles[f].there /\ openFiles[f].done = 1 .. 4
        BY <2>1, <2>2, <3>1 DEF OpCallOK, call, f
      <3>3. openFiles'[f].there /\ openFiles[f].done \subseteq openFiles'[f].done
        BY <2>4, <3>2 DEF OpGrows
      <3>4. openFiles'[f].done \subseteq 1 .. 4
        BY <2>4, <3>3, OpFileThere
      <3>5. QED
        BY <3>2, <3>3, <3>4
    <2>8. call.at = "open" => openFiles'[f].scope = call.project
      BY <2>1, <2>2, <2>3, <2>4, ServicesNames DEF OpCallOK, OpGrows, call, f
    <2>9. QED
      BY <2>5, <2>6, <2>7, <2>8 DEF OpCallOK, call, f
  <1>6. \A r \in OpenProcs : OpCallOK(openFiles', openLock', r, openAt'[r])
    BY <1>5
  <1>7. QED
    BY <1>3, <1>4, <1>6 DEF OpInv

LEMMA OpInitInv == Opening!OpenInit => OpInv
  <1> SUFFICES ASSUME Opening!OpenInit PROVE OpInv
    OBVIOUS
  <1>1. PICK old \in SUBSET {Opening!Legacy(p) : p \in OpenProjects}, v \in 1 .. 2 :
          openFiles = [f \in Opening!OpenPaths |-> IF f \in old THEN Opening!OldFile(v) ELSE Opening!NoFile]
    BY DEF Opening!OpenInit
  <1>2. Opening!OldFile(v) \in OpFile /\ Opening!OldFile(v).done = 1 .. Opening!OldFile(v).version
    BY <1>1 DEF Opening!OldFile, OpFile, OpVersions, OpScope
  <1>3. /\ openLock = [f \in Opening!OpenPaths |-> Opening!NoHolder]
        /\ openAt = [q \in OpenProcs |-> Opening!Away]
        /\ openFacts = [f \in Opening!OpenPaths |-> {}]
    BY DEF Opening!OpenInit
  <1>4. OpTypes
    <2>1. openFiles \in [Opening!OpenPaths -> OpFile]
      BY <1>1, <1>2 DEF OpFile
    <2>2. openAt \in [OpenProcs -> OpCall]
      BY <1>3 DEF OpCall
    <2>3. QED
      BY <1>3, <2>1, <2>2 DEF OpTypes
  <1>5. ASSUME NEW f \in Opening!OpenPaths PROVE OpFileOK(openFiles, f) /\ OpFactsOK(openFiles, openFacts, f)
    <2>1. OpFactsOK(openFiles, openFacts, f)
      BY <1>3 DEF OpFactsOK
    <2>2. openFiles[f].there => openFiles[f] = Opening!OldFile(v) /\ f \in old
      BY <1>1 DEF Opening!NoFile
    <2>3. f \in old => \A p \in OpenProjects : f # Opening!Canonical(p)
      BY <1>1, OpPathsDiffer
    <2>4. QED
      BY <1>2, <2>1, <2>2, <2>3 DEF OpFileOK
  <1>6. ASSUME NEW q \in OpenProcs PROVE OpCallOK(openFiles, openLock, q, openAt[q])
    BY <1>3 DEF OpCallOK, Opening!Away
  <1>7. QED
    BY <1>4, <1>5, <1>6 DEF OpInv

\* A step that leaves the files alone.
LEMMA OpFilesRest ==
  ASSUME OpInv, NEW calls, NEW q
  PROVE  \A g \in Opening!OpenPaths : OpGrows(openFiles, openFiles, calls, q, g)
  BY DEF OpInv, OpFileOK, OpGrows

\* What is left when one element of the function is another.
LEMMA OpOneChanges ==
  ASSUME NEW S, NEW T, NEW table \in [S -> T], NEW x \in S, NEW y, NEW more, more = [table EXCEPT ![x] = y]
  PROVE  more[x] = y /\ \A z \in S \ {x} : more[z] = table[z]
  OBVIOUS

LEMMA OpLookInv ==
  ASSUME OpInv, NEW q \in OpenProcs, (\E p \in OpenProjects : Opening!LookCanonical(q, p)) \/ Opening!LookLegacy(q)
  PROVE  OpInv'
  <1>1. \E call \in OpCall : openAt' = [openAt EXCEPT ![q] = call] /\ OpCallOK(openFiles, openLock, q, call)
    <2>1. ASSUME NEW p \in OpenProjects, Opening!LookCanonical(q, p)
          PROVE  \E call \in OpCall : openAt' = [openAt EXCEPT ![q] = call] /\ OpCallOK(openFiles, openLock, q, call)
      <3> DEFINE found == [at |-> "chosen", project |-> p, file |-> Opening!Canonical(p)]
                 looks == [at |-> "looking", project |-> p]
                 f == Opening!Canonical(p)
      <3>1. f \in Opening!OpenPaths /\ f # Opening!Legacy(p)
        BY OpPathsDiffer
      <3>2. found \in OpCall /\ looks \in OpCall
        BY <3>1 DEF OpCall
      <3>3. OpCallOK(openFiles, openLock, q, looks)
        BY DEF OpCallOK
      <3>4. p # Opening!Unstamped
        BY ServicesNames
      <3>5. openFiles[f].there /\ Opening!RecordedScope(f) = p => OpCallOK(openFiles, openLock, q, found)
        BY <3>1, <3>4 DEF OpCallOK, Opening!RecordedScope, OpInv, OpFileOK
      <3>6. openAt' = [openAt EXCEPT ![q] = IF openFiles[f].there /\ Opening!RecordedScope(f) = p THEN found ELSE looks]
        BY <2>1 DEF Opening!LookCanonical, Opening!Becomes
      <3> HIDE DEF found, looks, f
      <3>7. QED
        BY <3>2, <3>3, <3>5, <3>6
    <2>2. ASSUME Opening!LookLegacy(q)
          PROVE  \E call \in OpCall : openAt' = [openAt EXCEPT ![q] = call] /\ OpCallOK(openFiles, openLock, q, call)
      <3> DEFINE p == openAt[q].project
                 takes == openFiles[Opening!Legacy(p)].there /\ Opening!MayTake(Opening!RecordedScope(Opening!Legacy(p)), p)
                 f == IF takes THEN Opening!Legacy(p) ELSE Opening!Canonical(p)
                 call == [at |-> "chosen", project |-> p, file |-> f]
      <3>1. openAt[q] \in OpCall /\ openAt[q].at = "looking"
        BY <2>2 DEF Opening!LookLegacy, Opening!Doing, OpInv, OpTypes
      <3>2. p \in OpenProjects
        BY <3>1 DEF OpCall, Opening!Away
      <3>3. f \in Opening!OpenPaths /\ Opening!Canonical(p) # Opening!Legacy(p)
        BY <3>2, OpPathsDiffer
      <3>4. call \in OpCall
        BY <3>2, <3>3 DEF OpCall
      <3>5. ~takes => OpBarred(openFiles, p)
        BY DEF OpBarred, Opening!MayTake, Opening!RecordedScope
      <3>6. takes => openFiles[Opening!Legacy(p)].there
        OBVIOUS
      <3>7. openAt' = [openAt EXCEPT ![q] = call]
        BY <2>2 DEF Opening!LookLegacy, Opening!Becomes
      <3> HIDE DEF takes, p
      <3>8. OpCallOK(openFiles, openLock, q, call)
        BY <3>3, <3>5, <3>6 DEF OpCallOK
      <3>9. QED
        BY <3>4, <3>7, <3>8
    <2>3. QED
      BY <2>1, <2>2
  <1>2. UNCHANGED <<openFiles, openLock, openFacts>>
    BY DEF Opening!LookCanonical, Opening!LookLegacy
  <1>3. PICK call \in OpCall : openAt' = [openAt EXCEPT ![q] = call] /\ OpCallOK(openFiles, openLock, q, call)
    BY <1>1
  <1>4. openAt'[q] = call /\ OpTypes' /\ \A r \in OpenProcs \ {q} : openAt'[r] = openAt[r]
    BY <1>2, <1>3 DEF OpInv, OpTypes
  <1>5. \A g \in Opening!OpenPaths : OpGrows(openFiles, openFiles', openAt, q, g)
    BY <1>2, OpFilesRest
  <1>6. openFiles' = openFiles /\ openLock' = openLock /\ openFacts' = openFacts
    BY <1>2
  <1>7. OpCallOK(openFiles', openLock', q, openAt'[q])
    BY <1>3, <1>4, <1>6
  <1>8. QED
    BY <1>4, <1>5, <1>6, <1>7, OpStep

\* A process that opens a file of its project.
LEMMA OpHas ==
  ASSUME NEW call \in OpCall, call.at \in {"chosen", "migrating", "migrated", "open"}
  PROVE  /\ call.project \in OpenProjects /\ call.file \in Opening!OpenPaths /\ "file" \in DOMAIN call
         /\ call.at = "migrating" => call.from \in OpVersions
  BY DEF OpCall, Opening!Away

LEMMA OpLockInv == ASSUME OpInv, NEW q \in OpenProcs, Opening!LockForMigration(q) PROVE OpInv'
  <1> DEFINE f == openAt[q].file
             p == openAt[q].project
             file == IF openFiles[f].there THEN openFiles[f] ELSE Opening!NewFile
             call == [at |-> "migrating", project |-> p, file |-> f,
                      from |-> IF openFiles[f].there THEN openFiles[f].version ELSE 0]
  <1>1. openAt[q] \in OpCall /\ openAt[q].at = "chosen" /\ OpCallOK(openFiles, openLock, q, openAt[q]) /\ OpTypes
    BY DEF Opening!LockForMigration, Opening!Doing, OpInv, OpTypes
  <1>2. p \in OpenProjects /\ f \in Opening!OpenPaths /\ "file" \in DOMAIN openAt[q]
    BY <1>1, OpHas
  <1>3. /\ openLock[f] = Opening!NoHolder /\ openLock' = [openLock EXCEPT ![f] = q]
        /\ openFiles' = [openFiles EXCEPT ![f] = file] /\ openAt' = [openAt EXCEPT ![q] = call]
        /\ openFacts' = openFacts
    BY DEF Opening!LockForMigration, Opening!Becomes
  <1>4. openFiles[f] \in OpFile /\ Opening!NewFile \in OpFile
    <2>1. openFiles[f] \in OpFile
      BY <1>1, <1>2 DEF OpTypes
    <2>2. Opening!NewFile \in OpFile
      BY DEF Opening!NewFile, OpFile, OpVersions, OpScope
    <2>3. QED
      BY <2>1, <2>2
  <1>5. /\ file \in OpFile /\ file.there /\ file.version = call.from /\ call.from \in OpVersions
        /\ openFiles[f].there => file = openFiles[f]
        /\ ~openFiles[f].there => file = Opening!NewFile
    BY <1>4, OpFileThere DEF Opening!NewFile, OpVersions
  <1>6. call \in OpCall /\ call.at = "migrating" /\ call.file = f /\ call.project = p /\ "file" \in DOMAIN call
    BY <1>2, <1>5 DEF OpCall
  <1>7. /\ f \in {Opening!Canonical(p), Opening!Legacy(p)}
        /\ f = Opening!Canonical(p) => OpBarred(openFiles, p)
        /\ f = Opening!Legacy(p) => openFiles[f].there
    BY <1>1, <1>2 DEF OpCallOK
  <1> HIDE DEF f, p, file, call
  <1>8. /\ openFiles'[f] = file /\ \A g \in Opening!OpenPaths \ {f} : openFiles'[g] = openFiles[g]
        /\ openLock'[f] = q /\ \A g \in Opening!OpenPaths \ {f} : openLock'[g] = openLock[g]
        /\ openAt'[q] = call /\ \A r \in OpenProcs \ {q} : openAt'[r] = openAt[r]
    BY <1>1, <1>2, <1>3 DEF OpTypes
  <1>9. OpTypes'
    BY <1>1, <1>3, <1>5, <1>6 DEF OpTypes
  <1>10. ~openFiles[f].there => \A r \in OpenProjects : f # Opening!Legacy(r)
    BY <1>2, <1>7, OpPathsDiffer
  <1>11. OpGrows(openFiles, openFiles', openAt, q, f)
    <2>1. CASE openFiles[f].there
      BY <1>2, <1>5, <1>8, <2>1 DEF OpGrows, OpInv, OpFileOK
    <2>2. CASE ~openFiles[f].there
      <3>1. openFiles'[f] = Opening!NewFile
        BY <1>5, <1>8, <2>2
      <3>2. openFiles'[f].scope = Opening!Unstamped /\ 1 .. openFiles'[f].version = {}
        BY <3>1 DEF Opening!NewFile
      <3>3. QED
        BY <1>10, <2>2, <3>2 DEF OpGrows
    <2>3. QED
      BY <2>1, <2>2
  <1>12. \A g \in Opening!OpenPaths : OpGrows(openFiles, openFiles', openAt, q, g)
    <2>1. ASSUME NEW g \in Opening!OpenPaths, g # f PROVE OpGrows(openFiles, openFiles', openAt, q, g)
      <3>1. openFiles'[g] = openFiles[g]
        BY <1>8, <2>1
      <3>2. QED
        BY <3>1 DEF OpGrows, OpInv, OpFileOK
    <2>2. QED
      BY <1>11, <2>1
  <1>13. OpBarred(openFiles, p) => OpBarred(openFiles', p)
    <2>1. Opening!Legacy(p) \in Opening!OpenPaths
      BY <1>2, OpPathsDiffer
    <2>2. openFiles'[Opening!Legacy(p)] = openFiles[Opening!Legacy(p)]
      BY <1>5, <1>7, <1>8, <2>1
    <2>3. QED
      BY <2>2 DEF OpBarred
  <1>14. OpCallOK(openFiles', openLock', q, openAt'[q])
    BY <1>5, <1>6, <1>7, <1>8, <1>13 DEF OpCallOK
  <1>15. \A g \in Opening!OpenPaths : openLock[g] \in OpenProcs \ {q} => openLock'[g] = openLock[g]
    BY <1>3, <1>8, ServicesNames
  <1>16. QED
    BY <1>3, <1>8, <1>9, <1>12, <1>14, <1>15, OpStep

\* A step that changes the file of q and moves q on.
LEMMA OpFileStep ==
  ASSUME OpInv, NEW q \in OpenProcs, NEW f \in Opening!OpenPaths, NEW file \in OpFile, NEW call \in OpCall,
         openFiles' = [openFiles EXCEPT ![f] = file], openAt' = [openAt EXCEPT ![q] = call],
         openFacts' = openFacts, openLock' \in [Opening!OpenPaths -> OpenProcs \cup {Opening!NoHolder}],
         \A g \in Opening!OpenPaths : openLock[g] \in OpenProcs \ {q} => openLock'[g] = openLock[g],
         \A more : more[f] = file => OpGrows(openFiles, more, openAt, q, f),
         \A files : files[f] = file
                    /\ (\A p \in OpenProjects : OpBarred(openFiles, p) => OpBarred(files, p)) => OpCallOK(files, openLock', q, call)
  PROVE  OpInv'
  <1>1. /\ openFiles'[f] = file /\ \A g \in Opening!OpenPaths \ {f} : openFiles'[g] = openFiles[g]
        /\ openAt'[q] = call /\ \A r \in OpenProcs \ {q} : openAt'[r] = openAt[r]
    BY DEF OpInv, OpTypes
  <1>2. OpTypes'
    BY DEF OpInv, OpTypes
  <1>3. \A g \in Opening!OpenPaths : OpGrows(openFiles, openFiles', openAt, q, g)
    <2>1. ASSUME NEW g \in Opening!OpenPaths, g # f PROVE OpGrows(openFiles, openFiles', openAt, q, g)
      <3>1. openFiles'[g] = openFiles[g]
        BY <1>1, <2>1
      <3>2. QED
        BY <3>1 DEF OpGrows, OpInv, OpFileOK
    <2>2. QED
      BY <1>1, <2>1
  <1>4. \A g \in Opening!OpenPaths : openFiles[g] \in OpFile /\ openFiles'[g] \in OpFile
    BY <1>2 DEF OpInv, OpTypes
  <1>5. ASSUME NEW p \in OpenProjects, OpBarred(openFiles, p) PROVE OpBarred(openFiles', p)
    <2>1. Opening!Legacy(p) \in Opening!OpenPaths
      BY OpPathsDiffer
    <2>2. OpGrows(openFiles, openFiles', openAt, q, Opening!Legacy(p))
      BY <1>3, <2>1
    <2>3. QED
      BY <1>5, <2>2 DEF OpBarred, OpGrows
  <1>6. OpCallOK(openFiles', openLock', q, openAt'[q])
    BY <1>1, <1>5
  <1>7. QED
    BY <1>1, <1>2, <1>3, <1>6, OpStep

LEMMA OpMigrateInv == ASSUME OpInv, NEW q \in OpenProcs, Opening!Migrate(q) PROVE OpInv'
  <1> DEFINE f == openAt[q].file
             p == openAt[q].project
             file == Opening!Migrated(openFiles[f], openAt[q].from)
             call == [at |-> "migrated", project |-> p, file |-> f]
  <1>1. openAt[q] \in OpCall /\ openAt[q].at = "migrating" /\ OpCallOK(openFiles, openLock, q, openAt[q]) /\ OpTypes
    BY DEF Opening!Migrate, Opening!Doing, OpInv, OpTypes
  <1>2. /\ p \in OpenProjects /\ f \in Opening!OpenPaths /\ "file" \in DOMAIN openAt[q]
        /\ openAt[q].from \in OpVersions
    BY <1>1, OpHas
  <1>3. /\ f \in {Opening!Canonical(p), Opening!Legacy(p)}
        /\ f = Opening!Canonical(p) => OpBarred(openFiles, p)
        /\ openLock[f] = q /\ openFiles[f].there /\ openFiles[f].version = openAt[q].from
    BY <1>1, <1>2 DEF OpCallOK
  <1>4. openFiles[f] \in [there : {TRUE}, version : OpVersions, done : SUBSET (1 .. 4), scope : OpScope]
    BY <1>1, <1>2, <1>3, OpFileThere DEF OpTypes
  <1>5. 1 .. openFiles[f].version \subseteq openFiles[f].done
    BY <1>2, <1>3 DEF OpInv, OpFileOK
  <1>6. Opening!CanMigrate(openFiles[f], openAt[q].from)
    BY DEF Opening!CanMigrate, Opening!StepFails, Opening!Tolerated
  <1>7. Len(Opening!Migrations) = 4
    BY DEF Opening!Migrations
  <1>8. /\ file = [openFiles[f] EXCEPT !.version = 4, !.done = openFiles[f].done \cup ((openAt[q].from + 1) .. 4)]
    BY <1>7 DEF Opening!Migrated
  <1>9. openFiles[f].done \cup ((openAt[q].from + 1) .. 4) = 1 .. 4
    <2>1. openAt[q].from \in 0 .. 4 /\ openFiles[f].done \subseteq 1 .. 4 /\ 1 .. openAt[q].from \subseteq openFiles[f].done
      BY <1>2, <1>3, <1>4, <1>5 DEF OpVersions
    <2>2. 1 .. 4 \subseteq (1 .. openAt[q].from) \cup ((openAt[q].from + 1) .. 4)
      BY <2>1
    <2>3. ((openAt[q].from + 1) .. 4) \subseteq 1 .. 4
      BY <2>1
    <2>4. QED
      BY <2>1, <2>2, <2>3
  <1>10. file = [there |-> TRUE, version |-> 4, done |-> 1 .. 4, scope |-> openFiles[f].scope]
    BY <1>4, <1>8, <1>9
  <1>11. /\ openFiles' = [openFiles EXCEPT ![f] = file] /\ openAt' = [openAt EXCEPT ![q] = call]
         /\ openLock' = [openLock EXCEPT ![f] = Opening!NoHolder] /\ openFacts' = openFacts
    BY <1>6 DEF Opening!Migrate, Opening!Becomes
  <1>12. call \in OpCall
    BY <1>2 DEF OpCall
  <1> HIDE DEF f, p, file
  <1>13. file \in OpFile
    <2>1. 4 \in OpVersions
      BY DEF OpVersions
    <2>2. openFiles[f].scope \in OpScope
      BY <1>4
    <2>3. QED
      BY <1>10, <2>1, <2>2 DEF OpFile
  <1>14. ASSUME NEW more, more[f] = file PROVE OpGrows(openFiles, more, openAt, q, f)
    <2>1. \A r \in OpenProcs \ {q} : openAt[r].at = "migrating" => openAt[r].file # f
      <3>1. SUFFICES ASSUME NEW r \in OpenProcs, openAt[r].at = "migrating", openAt[r].file = f PROVE r = q
        OBVIOUS
      <3>2. openAt[r] \in OpCall /\ OpCallOK(openFiles, openLock, r, openAt[r])
        BY <1>1 DEF OpTypes, OpInv
      <3>3. "file" \in DOMAIN openAt[r]
        BY <3>1, <3>2, OpHas
      <3>4. QED
        BY <1>3, <3>1, <3>2, <3>3 DEF OpCallOK
    <2>2. /\ file.there /\ file.scope = openFiles[f].scope /\ 1 .. file.version \subseteq file.done
          /\ openFiles[f].done \subseteq file.done
      BY <1>4, <1>10
    <2>3. QED
      BY <1>3, <1>14, <2>1, <2>2 DEF OpGrows
  <1>15. ASSUME NEW files, files[f] = file, \A r \in OpenProjects : OpBarred(openFiles, r) => OpBarred(files, r)
         PROVE  OpCallOK(files, openLock', q, call)
    <2>1. file.there /\ file.done = 1 .. 4
      BY <1>10
    <2>2. QED
      BY <1>2, <1>3, <1>15, <2>1 DEF OpCallOK
  <1>16. \A g \in Opening!OpenPaths : openLock[g] \in OpenProcs \ {q} => openLock'[g] = openLock[g]
    BY <1>1, <1>3, <1>11 DEF OpTypes
  <1>17. openLock' \in [Opening!OpenPaths -> OpenProcs \cup {Opening!NoHolder}]
    BY <1>1, <1>11 DEF OpTypes
  <1> HIDE DEF call
  <1>18. QED
    BY <1>2, <1>11, <1>12, <1>13, <1>14, <1>15, <1>16, <1>17, OpFileStep

LEMMA OpClaimInv == ASSUME OpInv, NEW q \in OpenProcs, Opening!ClaimScope(q) PROVE OpInv'
  <1> DEFINE f == openAt[q].file
             p == openAt[q].project
             file == Opening!Stamp(openFiles[f], p)
             call == IF file.scope = p THEN [at |-> "open", project |-> p, file |-> f] ELSE Opening!Away
  <1>1. openAt[q] \in OpCall /\ openAt[q].at = "migrated" /\ OpCallOK(openFiles, openLock, q, openAt[q]) /\ OpTypes
    BY DEF Opening!ClaimScope, Opening!Doing, OpInv, OpTypes
  <1>2. p \in OpenProjects /\ f \in Opening!OpenPaths /\ "file" \in DOMAIN openAt[q]
    BY <1>1, OpHas
  <1>3. /\ f \in {Opening!Canonical(p), Opening!Legacy(p)}
        /\ f = Opening!Canonical(p) => OpBarred(openFiles, p)
        /\ openFiles[f].there /\ openFiles[f].done = 1 .. 4
    BY <1>1, <1>2 DEF OpCallOK
  <1>4. openFiles[f] \in [there : {TRUE}, version : OpVersions, done : SUBSET (1 .. 4), scope : OpScope]
    BY <1>1, <1>2, <1>3, OpFileThere DEF OpTypes
  <1>5. 1 .. openFiles[f].version \subseteq openFiles[f].done
    BY <1>2, <1>3 DEF OpInv, OpFileOK
  <1>6. file = [openFiles[f] EXCEPT !.scope = IF openFiles[f].scope = Opening!Unstamped THEN p ELSE openFiles[f].scope]
    BY <1>4 DEF Opening!Stamp
  <1>7. /\ file \in OpFile /\ file.there /\ file.done = 1 .. 4 /\ file.version = openFiles[f].version
        /\ file.scope = IF openFiles[f].scope = Opening!Unstamped THEN p ELSE openFiles[f].scope
    BY <1>2, <1>3, <1>4, <1>6 DEF OpFile, OpScope
  <1>8. /\ openFiles' = [openFiles EXCEPT ![f] = file] /\ openAt' = [openAt EXCEPT ![q] = call]
        /\ openLock' = openLock /\ openFacts' = openFacts
    BY DEF Opening!ClaimScope, Opening!Becomes
  <1> HIDE DEF f, p, file
  <1>9. call \in OpCall
    BY <1>2 DEF OpCall
  <1>10. ASSUME NEW more, more[f] = file PROVE OpGrows(openFiles, more, openAt, q, f)
    BY <1>2, <1>3, <1>5, <1>7, <1>10 DEF OpGrows
  <1>11. ASSUME NEW files, files[f] = file, \A r \in OpenProjects : OpBarred(openFiles, r) => OpBarred(files, r)
         PROVE  OpCallOK(files, openLock', q, call)
    <2>1. CASE file.scope = p
      BY <1>2, <1>3, <1>7, <1>11, <2>1 DEF OpCallOK
    <2>2. CASE file.scope # p
      BY <2>2 DEF OpCallOK, Opening!Away
    <2>3. QED
      BY <2>1, <2>2
  <1>12. openLock' \in [Opening!OpenPaths -> OpenProcs \cup {Opening!NoHolder}]
    BY <1>1, <1>8 DEF OpTypes
  <1> HIDE DEF call
  <1>13. QED
    BY <1>2, <1>7, <1>8, <1>9, <1>10, <1>11, <1>12, OpFileStep

LEMMA OpGiveUpInv == ASSUME OpInv, NEW q \in OpenProcs, Opening!GiveUp(q) PROVE OpInv'
  <1>1. /\ openFiles' = openFiles /\ openFacts' = openFacts /\ openAt' = [openAt EXCEPT ![q] = Opening!Away]
        /\ openLock' = [f \in Opening!OpenPaths |-> IF openLock[f] = q THEN Opening!NoHolder ELSE openLock[f]]
    BY DEF Opening!GiveUp, Opening!Becomes
  <1>2. OpTypes'
    BY <1>1 DEF OpInv, OpTypes, OpCall
  <1>3. openAt'[q] = Opening!Away /\ \A r \in OpenProcs \ {q} : openAt'[r] = openAt[r]
    BY <1>1 DEF OpInv, OpTypes
  <1>4. OpCallOK(openFiles', openLock', q, openAt'[q])
    BY <1>3 DEF OpCallOK, Opening!Away
  <1>5. \A g \in Opening!OpenPaths : openLock[g] \in OpenProcs \ {q} => openLock'[g] = openLock[g]
    BY <1>1
  <1>6. \A g \in Opening!OpenPaths : OpGrows(openFiles, openFiles', openAt, q, g)
    BY <1>1, OpFilesRest
  <1>7. QED
    BY <1>1, <1>2, <1>3, <1>4, <1>5, <1>6, OpStep

LEMMA OpCaptureInv == ASSUME OpInv, NEW q \in OpenProcs, Opening!Capture(q) PROVE OpInv'
  <1> DEFINE f == openAt[q].file
             p == openAt[q].project
  <1>1. openAt[q] \in OpCall /\ openAt[q].at = "open" /\ OpCallOK(openFiles, openLock, q, openAt[q]) /\ OpTypes
    BY DEF Opening!Capture, Opening!Doing, OpInv, OpTypes
  <1>2. p \in OpenProjects /\ f \in Opening!OpenPaths /\ "file" \in DOMAIN openAt[q]
    BY <1>1, OpHas
  <1>3. f \in {Opening!Canonical(p), Opening!Legacy(p)} /\ openFiles[f].there /\ openFiles[f].scope = p
    BY <1>1, <1>2 DEF OpCallOK
  <1>4. /\ openFiles' = openFiles /\ openLock' = openLock /\ openAt' = openAt
        /\ openFacts' = [openFacts EXCEPT ![f] = openFacts[f] \cup {p}]
    BY DEF Opening!Capture
  <1> HIDE DEF f, p
  <1>5. OpTypes'
    BY <1>1, <1>2, <1>4 DEF OpTypes
  <1>6. openFacts'[f] = openFacts[f] \cup {p} /\ \A g \in Opening!OpenPaths \ {f} : openFacts'[g] = openFacts[g]
    BY <1>1, <1>2, <1>4 DEF OpTypes
  <1>7. OpFactsOK(openFiles, openFacts', f)
    BY <1>2, <1>3, <1>6 DEF OpInv, OpFactsOK
  <1>8. \A g \in Opening!OpenPaths : OpGrows(openFiles, openFiles', openAt, q, g)
    BY <1>4, OpFilesRest
  <1>9. OpCallOK(openFiles', openLock', q, openAt'[q])
    BY <1>1, <1>4
  <1>10. QED
    BY <1>4, <1>5, <1>6, <1>7, <1>8, <1>9, OpStep

LEMMA OpRelabelled ==
  ASSUME NEW file \in [there : {TRUE}, version : OpVersions, done : SUBSET (1 .. 4), scope : OpScope]
  PROVE  LET more == [file EXCEPT !.version = 0] IN
         /\ more \in OpFile /\ more.there /\ more.version = 0 /\ more.done = file.done /\ more.scope = file.scope
  <1>1. 0 \in OpVersions
    BY DEF OpVersions
  <1>2. [file EXCEPT !.version = 0] \in [there : {TRUE}, version : OpVersions, done : SUBSET (1 .. 4), scope : OpScope]
    BY <1>1
  <1>3. QED
    BY <1>2 DEF OpFile

LEMMA OpRestoreInv == ASSUME OpInv, NEW f \in Opening!OpenPaths, Opening!RestoreDump(f) PROVE OpInv'
  <1> DEFINE file == [openFiles[f] EXCEPT !.version = 0]
  <1>1. /\ openFiles[f].there /\ openFiles' = [openFiles EXCEPT ![f] = file]
        /\ \A r \in OpenProcs : "file" \in DOMAIN openAt[r] => openAt[r].file # f
        /\ openLock' = openLock /\ openAt' = openAt /\ openFacts' = openFacts
    BY DEF Opening!RestoreDump
  <1>2. openFiles[f] \in [there : {TRUE}, version : OpVersions, done : SUBSET (1 .. 4), scope : OpScope]
    BY <1>1, OpFileThere DEF OpInv, OpTypes
  <1>3. /\ file \in OpFile /\ file.there /\ file.version = 0 /\ file.done = openFiles[f].done
        /\ file.scope = openFiles[f].scope
    BY <1>2, OpRelabelled
  <1> HIDE DEF file
  <1>4. openFiles'[f] = file /\ \A g \in Opening!OpenPaths \ {f} : openFiles'[g] = openFiles[g]
    BY <1>1 DEF OpInv, OpTypes
  <1>5. OpTypes'
    BY <1>1, <1>3 DEF OpInv, OpTypes
  <1>6. ASSUME NEW r \in OpenProcs, openAt[r].at = "migrating" PROVE openAt[r].file # f
    <2>1. openAt[r] \in OpCall
      BY DEF OpInv, OpTypes
    <2>2. QED
      BY <1>1, <1>6, <2>1, OpHas
  <1>7. OpGrows(openFiles, openFiles', openAt, Opening!NoHolder, f)
    <2>1. 1 .. file.version = {}
      BY <1>3
    <2>2. QED
      BY <1>1, <1>3, <1>4, <1>6, <2>1 DEF OpGrows
  <1>8. ASSUME NEW g \in Opening!OpenPaths, g # f PROVE OpGrows(openFiles, openFiles', openAt, Opening!NoHolder, g)
    <2>1. openFiles'[g] = openFiles[g]
      BY <1>4, <1>8
    <2>2. QED
      BY <2>1 DEF OpGrows, OpInv, OpFileOK
  <1>9. \A g \in Opening!OpenPaths : OpGrows(openFiles, openFiles', openAt, Opening!NoHolder, g)
    BY <1>7, <1>8
  <1>10. QED
    BY <1>1, <1>5, <1>9, ServicesNames, OpStep

LEMMA OpNextInv == ASSUME OpInv, [Opening!OpenNext]_OpeningVars PROVE OpInv'
  <1>1. CASE UNCHANGED OpeningVars
    BY <1>1 DEF OpeningVars, OpInv, OpTypes
  <1>2. CASE Opening!OpenNext
    BY <1>2, OpLookInv, OpLockInv, OpMigrateInv, OpClaimInv, OpGiveUpInv, OpCaptureInv, OpRestoreInv DEF Opening!OpenNext
  <1>3. QED
    BY <1>1, <1>2

\* Processes that open databases at the same time, under one project name or
\* names that sanitise alike: no file is labelled with migrations it has not
\* had and none fails to open for having had some, two projects never capture
\* into one file, and all that a project captures is in one
\* (sqlite-memory-store.ts, migrate and claimScope; project-memory.ts).
THEOREM ServicesOpensSafely == Spec => []OpensSafely
  <1> DEFINE Inv == part = "opening" => OpInv
  <1>1. Init => Inv
    BY OpInitInv DEF Init
  <1>2. Inv /\ [Next]_vars => Inv'
    BY OnePartMoves, OpNextInv
  <1>3. ASSUME OpInv PROVE Opening!SchemaIsWhatItSays
    <2>1. \A f \in Opening!OpenPaths : openFiles[f].there => 1 .. openFiles[f].version \subseteq openFiles[f].done
      BY <1>3 DEF OpInv, OpFileOK
    <2>2. ASSUME NEW q \in OpenProcs PROVE /\ openAt[q].at = "open" => openFiles[openAt[q].file].done = 1 .. 4
                                           /\ openAt[q].at # "failed"
      <3>1. openAt[q] \in OpCall /\ OpCallOK(openFiles, openLock, q, openAt[q])
        BY <1>3 DEF OpInv, OpTypes
      <3>2. openAt[q].at # "failed"
        BY <3>1 DEF OpCall, Opening!Away
      <3>3. QED
        BY <3>1, <3>2, OpHas DEF OpCallOK
    <2>3. Len(Opening!Migrations) = 4
      BY DEF Opening!Migrations
    <2>4. QED
      BY <2>1, <2>2, <2>3 DEF Opening!SchemaIsWhatItSays, Opening!Doing
  <1>4. ASSUME OpInv PROVE Opening!ProjectsNeverShare
    <2>1. ASSUME NEW f \in Opening!OpenPaths, NEW p \in openFacts[f] PROVE openFiles[f].scope = p
      BY <1>4 DEF OpInv, OpFactsOK
    <2>2. QED
      BY <2>1 DEF Opening!ProjectsNeverShare
  <1>5. ASSUME OpInv PROVE Opening!CapturesStayTogether
    <2>1. SUFFICES ASSUME NEW f \in Opening!OpenPaths, NEW g \in Opening!OpenPaths, NEW p \in openFacts[f] \cap openFacts[g]
                   PROVE  f = g
      BY DEF Opening!CapturesStayTogether
    <2>2. p \in OpenProjects
      BY <1>5 DEF OpInv, OpTypes
    <2>3. /\ f \in {Opening!Canonical(p), Opening!Legacy(p)} /\ openFiles[f].there /\ openFiles[f].scope = p
          /\ g \in {Opening!Canonical(p), Opening!Legacy(p)} /\ openFiles[g].there /\ openFiles[g].scope = p
      BY <1>5 DEF OpInv, OpFactsOK
    <2>4. ASSUME openFiles[Opening!Canonical(p)].there, openFiles[Opening!Canonical(p)].scope = p
          PROVE  OpBarred(openFiles, p)
      BY <1>5, <2>2, <2>4, OpPathsDiffer DEF OpInv, OpFileOK
    <2>5. QED
      BY <2>3, <2>4 DEF OpBarred
  <1>6. Inv => OpensSafely
    BY <1>3, <1>4, <1>5 DEF OpensSafely
  <1> HIDE DEF Inv
  <1>7. QED
    BY <1>1, <1>2, <1>6, PTL DEF Spec

-----------------------------------------------------------------------------
(* The tenant of the Postgres store.                                       *)

\* The root and what rests on it is closed.
LEMMA PgDependentsClosed ==
  ASSUME NEW h, NEW root
  PROVE  Postgres!Closed(h, {root} \cup Postgres!DependentsOf(h, root))
  <1> SUFFICES ASSUME NEW n \in DOMAIN h, h[n] \cap ({root} \cup Postgres!DependentsOf(h, root)) # {}, n # root,
                      NEW S \in SUBSET (DOMAIN h \cup {root}), root \in S, Postgres!Closed(h, S)
               PROVE  n \in S
    BY DEF Postgres!Closed, Postgres!DependentsOf
  <1>1. {root} \cup Postgres!DependentsOf(h, root) \subseteq S
    BY DEF Postgres!DependentsOf
  <1> QED BY <1>1 DEF Postgres!Closed

\* What rests on the root can be told from any part of the graph that has it.
LEMMA PgDependentsOfPart ==
  ASSUME NEW h, NEW small, NEW root, DOMAIN small \subseteq DOMAIN h,
         \A n \in DOMAIN small : small[n] = h[n], Postgres!DependentsOf(h, root) \subseteq DOMAIN small
  PROVE  Postgres!DependentsOf(small, root) = Postgres!DependentsOf(h, root)
  <1>1. ASSUME NEW n \in Postgres!DependentsOf(h, root) PROVE n \in Postgres!DependentsOf(small, root)
    <2>1. n \in DOMAIN small \ {root}
      BY DEF Postgres!DependentsOf
    <2> SUFFICES ASSUME NEW S \in SUBSET (DOMAIN small \cup {root}), root \in S, Postgres!Closed(small, S) PROVE n \in S
      BY <2>1 DEF Postgres!DependentsOf
    <2> DEFINE T == S \cap ({root} \cup Postgres!DependentsOf(h, root))
    <2>2. T \in SUBSET (DOMAIN h \cup {root}) /\ root \in T
      OBVIOUS
    <2>3. Postgres!Closed(h, T)
      <3> SUFFICES ASSUME NEW m \in DOMAIN h, h[m] \cap T # {} PROVE m \in T
        BY DEF Postgres!Closed
      <3>1. m \in {root} \cup Postgres!DependentsOf(h, root)
        BY PgDependentsClosed DEF Postgres!Closed
      <3>2. CASE m \in Postgres!DependentsOf(h, root)
        <4>1. m \in DOMAIN small /\ small[m] \cap S # {}
          BY <3>2
        <4> QED BY <3>2, <4>1 DEF Postgres!Closed
      <3> QED BY <2>2, <3>1, <3>2
    <2>4. n \in T
      BY <1>1, <2>2, <2>3 DEF Postgres!DependentsOf
    <2> QED BY <2>4
  <1>2. ASSUME NEW n \in Postgres!DependentsOf(small, root) PROVE n \in Postgres!DependentsOf(h, root)
    <2>1. n \in DOMAIN h \ {root}
      BY DEF Postgres!DependentsOf
    <2> SUFFICES ASSUME NEW S \in SUBSET (DOMAIN h \cup {root}), root \in S, Postgres!Closed(h, S) PROVE n \in S
      BY <2>1 DEF Postgres!DependentsOf
    <2> DEFINE T == S \cap (DOMAIN small \cup {root})
    <2>2. T \in SUBSET (DOMAIN small \cup {root}) /\ root \in T
      OBVIOUS
    <2>3. Postgres!Closed(small, T)
      BY DEF Postgres!Closed
    <2>4. n \in T
      BY <1>2, <2>2, <2>3 DEF Postgres!DependentsOf
    <2> QED BY <2>4
  <1> QED BY <1>1, <1>2

\* So can a cascade, which reaches no further than that.
LEMMA PgCascadesOfPart ==
  ASSUME NEW g, NEW small, NEW read, NEW id, small.facts = [n \in DOMAIN g.facts \cap read |-> g.facts[n]],
         Postgres!Resting(g, id) \subseteq read
  PROVE  /\ Postgres!Resting(small, id) = Postgres!Resting(g, id)
         /\ Postgres!RetractionsFor(Postgres!Sources(small), Postgres!LiveIn(small), id)
              = Postgres!RetractionsFor(Postgres!Sources(g), Postgres!LiveIn(g), id)
         /\ Postgres!RetractionsFor(Postgres!Sources(g), Postgres!LiveIn(g), id) \subseteq Postgres!Resting(g, id)
  <1> DEFINE s == Postgres!Sources(g)
             t == Postgres!Sources(small)
             h == Postgres!Among(s, Postgres!LiveIn(g))
             k == Postgres!Among(t, Postgres!LiveIn(small))
  <1>1. DOMAIN s = DOMAIN g.facts /\ DOMAIN t = DOMAIN s \cap read /\ \A n \in DOMAIN t : t[n] = s[n]
    BY DEF Postgres!Sources
  <1>2. Postgres!Resting(small, id) = Postgres!Resting(g, id)
    <2>1. Postgres!DependentsOf(s, id) \subseteq DOMAIN t
      BY <1>1 DEF Postgres!Resting, Postgres!DependentsOf
    <2> HIDE DEF s, t
    <2>2. Postgres!DependentsOf(t, id) = Postgres!DependentsOf(s, id)
      BY <1>1, <2>1, PgDependentsOfPart
    <2> QED BY <2>2 DEF Postgres!Resting, s, t
  <1>3. DOMAIN h = DOMAIN s /\ DOMAIN k = DOMAIN t /\ \A n \in DOMAIN h : h[n] = (IF n \in Postgres!LiveIn(g) THEN s[n] ELSE {})
    BY DEF Postgres!Among
  <1>4. \A n \in DOMAIN k : k[n] = h[n]
    <2>1. \A n \in DOMAIN t : n \in Postgres!LiveIn(small) <=> n \in Postgres!LiveIn(g)
      BY <1>1 DEF Postgres!LiveIn
    <2> QED BY <1>1, <1>3, <2>1 DEF Postgres!Among
  <1>5. Postgres!DependentsOf(h, id) \subseteq Postgres!DependentsOf(s, id)
    <2> HIDE DEF s, h
    <2>1. \A S : Postgres!Closed(s, S) => Postgres!Closed(h, S)
      BY <1>3 DEF Postgres!Closed
    <2> QED BY <1>3, <2>1 DEF Postgres!DependentsOf
  <1>6. Postgres!DependentsOf(k, id) = Postgres!DependentsOf(h, id)
    <2>1. Postgres!DependentsOf(h, id) \subseteq DOMAIN k
      BY <1>1, <1>3, <1>5 DEF Postgres!Resting, Postgres!DependentsOf
    <2>2. DOMAIN k \subseteq DOMAIN h
      BY <1>1, <1>3
    <2> HIDE DEF s, t, h, k
    <2>3. \A n \in DOMAIN k : k[n] = h[n]
      BY <1>4
    <2> QED BY <2>1, <2>2, <2>3, PgDependentsOfPart
  <1> QED BY <1>2, <1>5, <1>6 DEF Postgres!RetractionsFor, Postgres!Resting

\* A graph of facts, with the number of versions of each, and edges.
PgLink == [id : PgLinkIds, source : PgIds, target : PgIds]
PgGraph == UNION {[facts : [S -> Postgres!PgFact], versions : [S -> Nat], edges : SUBSET PgLink] : S \in SUBSET PgIds}

\* What a call has read of the graph.
PgPart(g, read, acted, edges) ==
  [facts |-> [n \in DOMAIN g.facts \cap read |-> g.facts[n]],
   versions |-> [n \in DOMAIN g.facts \cap read |-> IF n \in acted THEN g.versions[n] ELSE 0],
   edges |-> edges]

LEMMA PgGraphIs ==
  ASSUME NEW g \in PgGraph
  PROVE  /\ g = [facts |-> g.facts, versions |-> g.versions, edges |-> g.edges]
         /\ DOMAIN g.facts \subseteq PgIds /\ DOMAIN g.versions = DOMAIN g.facts /\ g.edges \subseteq PgLink
         /\ g.facts = [n \in DOMAIN g.facts |-> g.facts[n]] /\ g.versions = [n \in DOMAIN g.facts |-> g.versions[n]]
         /\ \A n \in DOMAIN g.facts : g.facts[n] \in Postgres!PgFact /\ g.versions[n] \in Nat
  <1>1. PICK S \in SUBSET PgIds : g \in [facts : [S -> Postgres!PgFact], versions : [S -> Nat], edges : SUBSET PgLink]
    BY DEF PgGraph
  <1> QED BY <1>1

LEMMA PgGraphHas ==
  ASSUME NEW S \in SUBSET PgIds, NEW facts \in [S -> Postgres!PgFact], NEW versions \in [S -> Nat], NEW edges \in SUBSET PgLink
  PROVE  [facts |-> facts, versions |-> versions, edges |-> edges] \in PgGraph
  BY DEF PgGraph

LEMMA PgLoadIs ==
  ASSUME NEW g, NEW s
  PROVE  LET acted == Postgres!ActedOn(g, s)
             edges == Postgres!EdgesRead(g, s, acted)
         IN  Postgres!Load(g, s) = PgPart(g, acted \cup UNION {Postgres!Ends(e) : e \in edges}, acted, edges)
  <1> DEFINE acted == Postgres!ActedOn(g, s)
             edges == Postgres!EdgesRead(g, s, acted)
             read == acted \cup UNION {Postgres!Ends(e) : e \in edges}
  <1>1. Postgres!Load(g, s) = Postgres!PartOf(Postgres!FactsRead(g, acted, edges), Postgres!VersionsRead(g, acted), edges)
    BY DEF Postgres!Load
  <1>2. Postgres!FactsRead(g, acted, edges) = [n \in DOMAIN g.facts \cap read |-> g.facts[n]]
    BY DEF Postgres!FactsRead
  <1>3. /\ DOMAIN Postgres!VersionsRead(g, acted) = DOMAIN g.facts \cap acted
        /\ \A n \in DOMAIN g.facts \cap acted : Postgres!VersionsRead(g, acted)[n] = g.versions[n]
    BY DEF Postgres!VersionsRead
  <1> HIDE DEF acted, edges, read
  <1> QED BY <1>1, <1>2, <1>3 DEF Postgres!PartOf, PgPart, read, acted, edges

PgShape(g) ==
  /\ g = [facts |-> g.facts, versions |-> g.versions, edges |-> g.edges]
  /\ g.facts = [n \in DOMAIN g.facts |-> g.facts[n]]
  /\ g.versions = [n \in DOMAIN g.facts |-> g.versions[n]]

LEMMA PgPut ==
  ASSUME NEW g, NEW F, NEW V, NEW E, g = [facts |-> F, versions |-> V, edges |-> E], NEW facts, NEW versions
  PROVE  /\ [g EXCEPT !.versions = versions] = [facts |-> F, versions |-> versions, edges |-> E]
         /\ [[g EXCEPT !.facts = facts] EXCEPT !.versions = versions] = [facts |-> facts, versions |-> versions, edges |-> E]
         /\ [g EXCEPT !.facts = facts].versions = V
  <1>1. [g EXCEPT !.versions = versions] = [facts |-> F, versions |-> versions, edges |-> E]
    OBVIOUS
  <1>2. [g EXCEPT !.facts = facts] = [facts |-> facts, versions |-> V, edges |-> E]
    OBVIOUS
  <1> DEFINE h == [g EXCEPT !.facts = facts]
  <1> HIDE DEF h
  <1>3. h = [facts |-> facts, versions |-> V, edges |-> E]
    BY <1>2 DEF h
  <1>4. [h EXCEPT !.versions = versions] = [facts |-> facts, versions |-> versions, edges |-> E] /\ h.versions = V
    BY <1>3
  <1> QED BY <1>1, <1>4, Zenon DEF h

\* Facts that change, and versions that are recorded; none comes or goes.
PgChanged(g, S, facts, T, versions) ==
  [facts |-> [n \in DOMAIN g.facts |-> IF n \in S THEN facts[n] ELSE g.facts[n]],
   versions |-> [n \in DOMAIN g.facts |-> IF n \in T THEN versions[n] ELSE g.versions[n]],
   edges |-> g.edges]

PgShut(g) == [n \in DOMAIN g.facts |-> [g.facts[n] EXCEPT !.open = FALSE]]
PgOpened(g) == [n \in DOMAIN g.facts |-> [g.facts[n] EXCEPT !.open = TRUE]]
PgCounted(g) == [n \in DOMAIN g.facts |-> g.versions[n] + 1]
PgCascade(g, id) == {id} \cup Postgres!RetractionsFor(Postgres!Sources(g), Postgres!LiveIn(g), id)

LEMMA PgEngineChanges ==
  ASSUME NEW g, PgShape(g), NEW op, op.id \in DOMAIN g.facts
  PROVE  /\ op.do = "invalidate" => Postgres!Engine(op, g) =
              IF g.facts[op.id].open THEN PgChanged(g, PgCascade(g, op.id), PgShut(g), PgCascade(g, op.id), PgCounted(g))
                                     ELSE PgChanged(g, {}, PgShut(g), {op.id}, PgCounted(g))
         /\ op.do = "reopen" => Postgres!Engine(op, g) = PgChanged(g, {op.id}, PgOpened(g), {op.id}, PgCounted(g))
  <1>1. DOMAIN g.versions = DOMAIN g.facts /\ g = [facts |-> g.facts, versions |-> g.versions, edges |-> g.edges]
    BY DEF PgShape
  <1>2. ASSUME NEW S
        PROVE  Postgres!Ended(g, S) = PgChanged(g, S, PgShut(g), S, PgCounted(g))
    <2>1. Postgres!Ended(g, S) =
            [facts |-> [n \in DOMAIN g.facts |-> IF n \in S THEN [g.facts[n] EXCEPT !.open = FALSE] ELSE g.facts[n]],
             versions |-> [n \in DOMAIN g.facts |-> IF n \in S THEN g.versions[n] + 1 ELSE g.versions[n]],
             edges |-> g.edges]
      <3> DEFINE facts == [n \in DOMAIN g.facts |-> IF n \in S THEN [g.facts[n] EXCEPT !.open = FALSE] ELSE g.facts[n]]
                 versions == [n \in DOMAIN g.versions |-> IF n \in S THEN g.versions[n] + 1 ELSE g.versions[n]]
      <3>1. [g EXCEPT !.facts = facts].versions = g.versions
        BY <1>1, PgPut, Zenon
      <3>2. Postgres!Ended(g, S) = [[g EXCEPT !.facts = facts] EXCEPT !.versions = versions]
        BY <3>1, Zenon DEF Postgres!Ended
      <3>3. [[g EXCEPT !.facts = facts] EXCEPT !.versions = versions] = [facts |-> facts, versions |-> versions, edges |-> g.edges]
        <4> DEFINE F == g.facts
                   V == g.versions
                   E == g.edges
        <4>1. g = [facts |-> F, versions |-> V, edges |-> E]
          BY <1>1
        <4> HIDE DEF facts, versions, F, V, E
        <4>2. [g EXCEPT !.facts = facts] = [facts |-> facts, versions |-> V, edges |-> E]
          BY <4>1
        <4> DEFINE h == [g EXCEPT !.facts = facts]
        <4> HIDE DEF h
        <4>3. h = [facts |-> facts, versions |-> V, edges |-> E]
          BY <4>2 DEF h
        <4>4. [h EXCEPT !.versions = versions] = [facts |-> facts, versions |-> versions, edges |-> E]
          BY <4>3
        <4> QED BY <4>4, Zenon DEF h, E
      <3> QED BY <1>1, <3>2, <3>3, Zenon
    <2> QED BY <2>1 DEF PgChanged, PgShut, PgOpened, PgCounted
  <1>3. ASSUME op.do = "invalidate", g.facts[op.id].open
        PROVE  Postgres!Engine(op, g) = Postgres!Ended(g, PgCascade(g, op.id))
    BY <1>3 DEF Postgres!Engine, PgCascade
  <1>4. ASSUME op.do = "invalidate", ~g.facts[op.id].open
        PROVE  Postgres!Engine(op, g) = PgChanged(g, {}, PgShut(g), {op.id}, PgCounted(g))
    <2>1. Postgres!Engine(op, g) = [g EXCEPT !.versions[op.id] = @ + 1]
      BY <1>4 DEF Postgres!Engine
    <2>2. [g EXCEPT !.versions[op.id] = @ + 1] = [facts |-> g.facts, versions |-> [g.versions EXCEPT ![op.id] = @ + 1], edges |-> g.edges]
      BY <1>1
    <2>3. [g.versions EXCEPT ![op.id] = @ + 1] = [n \in DOMAIN g.facts |-> IF n \in {op.id} THEN PgCounted(g)[n] ELSE g.versions[n]]
      BY <1>1 DEF PgCounted, PgShape
    <2>4. g.facts = [n \in DOMAIN g.facts |-> IF n \in {} THEN PgShut(g)[n] ELSE g.facts[n]]
      BY DEF PgShape
    <2> QED BY <2>1, <2>2, <2>3, <2>4 DEF PgChanged
  <1>5. ASSUME op.do = "reopen"
        PROVE  Postgres!Engine(op, g) = PgChanged(g, {op.id}, PgOpened(g), {op.id}, PgCounted(g))
    <2>1. Postgres!Engine(op, g) = [g EXCEPT !.facts[op.id].open = TRUE, !.versions[op.id] = @ + 1]
      BY <1>5 DEF Postgres!Engine
    <2>2. [g EXCEPT !.facts[op.id].open = TRUE, !.versions[op.id] = @ + 1]
            = [facts |-> [g.facts EXCEPT ![op.id].open = TRUE], versions |-> [g.versions EXCEPT ![op.id] = @ + 1], edges |-> g.edges]
      <3> DEFINE facts == [g.facts EXCEPT ![op.id].open = TRUE]
                 versions == [g.versions EXCEPT ![op.id] = @ + 1]
      <3>1. [g EXCEPT !.facts = facts].versions = g.versions
        BY <1>1, PgPut, Zenon
      <3>2. [[g EXCEPT !.facts = facts] EXCEPT !.versions = versions] = [facts |-> facts, versions |-> versions, edges |-> g.edges]
        <4> DEFINE F == g.facts
                   V == g.versions
                   E == g.edges
        <4>1. g = [facts |-> F, versions |-> V, edges |-> E]
          BY <1>1
        <4> HIDE DEF facts, versions, F, V, E
        <4>2. [g EXCEPT !.facts = facts] = [facts |-> facts, versions |-> V, edges |-> E]
          BY <4>1
        <4> DEFINE h == [g EXCEPT !.facts = facts]
        <4> HIDE DEF h
        <4>3. h = [facts |-> facts, versions |-> V, edges |-> E]
          BY <4>2 DEF h
        <4>4. [h EXCEPT !.versions = versions] = [facts |-> facts, versions |-> versions, edges |-> E]
          BY <4>3
        <4> QED BY <4>4, Zenon DEF h, E
      <3> QED BY <3>1, <3>2, Zenon
    <2>3. [g.versions EXCEPT ![op.id] = @ + 1] = [n \in DOMAIN g.facts |-> IF n \in {op.id} THEN PgCounted(g)[n] ELSE g.versions[n]]
      BY <1>1 DEF PgCounted, PgShape
    <2>4. [g.facts EXCEPT ![op.id].open = TRUE] = [n \in DOMAIN g.facts |-> IF n \in {op.id} THEN PgOpened(g)[n] ELSE g.facts[n]]
      BY DEF PgShut, PgOpened
    <2> QED BY <2>1, <2>2, <2>3, <2>4 DEF PgChanged
  <1> QED BY <1>2, <1>3, <1>4, <1>5

\* Written back, such a change of what was read is the change of the graph.
LEMMA PgChangeStands ==
  ASSUME NEW g \in PgGraph, NEW acted, NEW S \in SUBSET acted, NEW T \in SUBSET acted,
         NEW x, x = PgPart(g, acted, acted, {}),
         NEW changed, NEW opened, \A n \in DOMAIN x.facts : changed[n] = opened[n],
         NEW recounted, NEW counted, \A n \in DOMAIN x.facts : recounted[n] = counted[n]
  PROVE  Postgres!Persist(g, x, PgChanged(x, S, changed, T, recounted)) = PgChanged(g, S, opened, T, counted)
  <1> DEFINE new == PgChanged(x, S, changed, T, recounted)
             put == {n \in DOMAIN new.facts : n \notin DOMAIN x.facts \/ x.facts[n] # new.facts[n]}
             recorded == {n \in DOMAIN new.facts : n \notin DOMAIN x.facts \/ x.versions[n] # new.versions[n]}
             D == DOMAIN g.facts
  <1>1. /\ DOMAIN x.facts = D \cap acted /\ x.edges = {}
        /\ \A n \in D \cap acted : x.facts[n] = g.facts[n] /\ x.versions[n] = g.versions[n]
    BY DEF PgPart
  <1>2. /\ DOMAIN new.facts = D \cap acted /\ new.edges = {}
        /\ \A n \in D \cap acted : /\ new.facts[n] = IF n \in S THEN opened[n] ELSE g.facts[n]
                                   /\ new.versions[n] = IF n \in T THEN counted[n] ELSE g.versions[n]
    BY <1>1 DEF PgChanged
  <1>3. Postgres!Persist(g, x, new) =
          LET gone == DOMAIN x.facts \ DOMAIN new.facts
              facts == (D \ gone) \cup put
          IN [facts |-> [n \in facts |-> IF n \in put THEN new.facts[n] ELSE g.facts[n]],
              versions |-> [n \in facts |-> IF n \in recorded THEN new.versions[n] ELSE g.versions[n]],
              edges |-> (g.edges \ (x.edges \ new.edges)) \cup new.edges]
    BY DEF Postgres!Persist
  <1> HIDE DEF new
  <1>4. DOMAIN x.facts \ DOMAIN new.facts = {} /\ put \subseteq D /\ (D \ {}) \cup put = D
    BY <1>1, <1>2
  <1>5. \A n \in D : (IF n \in put THEN new.facts[n] ELSE g.facts[n]) = (IF n \in S THEN opened[n] ELSE g.facts[n])
    BY <1>1, <1>2
  <1>6. \A n \in D : (IF n \in recorded THEN new.versions[n] ELSE g.versions[n]) = (IF n \in T THEN counted[n] ELSE g.versions[n])
    BY <1>1, <1>2
  <1>7. (g.edges \ (x.edges \ new.edges)) \cup new.edges = g.edges
    BY <1>1, <1>2
  <1> HIDE DEF put, recorded, D
  <1>8. Postgres!Persist(g, x, new) =
          [facts |-> [n \in D |-> IF n \in S THEN opened[n] ELSE g.facts[n]],
           versions |-> [n \in D |-> IF n \in T THEN counted[n] ELSE g.versions[n]], edges |-> g.edges]
    BY <1>3, <1>4, <1>5, <1>6, <1>7
  <1> QED BY <1>8 DEF PgChanged, new, D

LEMMA PgOpeningStands ==
  ASSUME NEW g \in PgGraph, NEW acted, NEW S, S \subseteq acted, NEW T, T \subseteq acted,
         NEW x, x = PgPart(g, acted, acted, {})
  PROVE  /\ Postgres!Persist(g, x, PgChanged(x, S, PgShut(x), T, PgCounted(x)))
              = PgChanged(g, S, PgShut(g), T, PgCounted(g))
         /\ Postgres!Persist(g, x, PgChanged(x, S, PgOpened(x), T, PgCounted(x)))
              = PgChanged(g, S, PgOpened(g), T, PgCounted(g))
  <1> DEFINE changed == PgShut(x)
             opened == PgShut(g)
             reopened == PgOpened(x)
             again == PgOpened(g)
             recounted == PgCounted(x)
             counted == PgCounted(g)
  <1>1. \A n \in DOMAIN x.facts : changed[n] = opened[n] /\ reopened[n] = again[n] /\ recounted[n] = counted[n]
    BY DEF PgPart, PgShut, PgOpened, PgCounted
  <1>2. S \in SUBSET acted /\ T \in SUBSET acted
    OBVIOUS
  <1> HIDE DEF changed, opened, reopened, again, recounted, counted
  <1>3. /\ Postgres!Persist(g, x, PgChanged(x, S, changed, T, recounted)) = PgChanged(g, S, opened, T, counted)
        /\ Postgres!Persist(g, x, PgChanged(x, S, reopened, T, recounted)) = PgChanged(g, S, again, T, counted)
    BY <1>1, <1>2, PgChangeStands
  <1> QED BY <1>3, Zenon DEF changed, opened, reopened, again, recounted, counted

LEMMA PgInvalidateStands ==
  ASSUME NEW g \in PgGraph, NEW op, op.do = "invalidate", Postgres!Allowed(op, Postgres!Load(g, Postgres!Scope(op)))
  PROVE  /\ Postgres!Allowed(op, g)
         /\ Postgres!Persist(g, Postgres!Load(g, Postgres!Scope(op)), Postgres!Engine(op, Postgres!Load(g, Postgres!Scope(op))))
              = Postgres!Engine(op, g)
  <1> DEFINE s == Postgres!Scope(op)
             acted == {op.id} \cup Postgres!Resting(g, op.id)
             x == PgPart(g, acted, acted, {})
  <1>1. s = [nodes |-> {op.id}, dependents |-> TRUE, edges |-> {}, edgesOf |-> FALSE]
    BY DEF Postgres!Scope
  <1>2. Postgres!ActedOn(g, s) = acted
    BY <1>1 DEF Postgres!ActedOn
  <1>3. Postgres!EdgesRead(g, s, acted) = {}
    BY <1>1 DEF Postgres!EdgesRead
  <1> HIDE DEF s
  <1>4. Postgres!Load(g, s) = x
    BY <1>2, <1>3, PgLoadIs
  <1>5. /\ PgShape(x) /\ DOMAIN x.facts = DOMAIN g.facts \cap acted
        /\ x.facts = [n \in DOMAIN g.facts \cap acted |-> g.facts[n]]
    <2> HIDE DEF acted
    <2> QED BY DEF PgPart, PgShape
  <1>6. PgShape(g)
    BY PgGraphIs DEF PgShape
  <1> HIDE DEF x
  <1>7. op.id \in DOMAIN x.facts /\ op.id \in DOMAIN g.facts /\ op.id \in acted /\ x.facts[op.id] = g.facts[op.id]
    BY <1>4, <1>5 DEF Postgres!Allowed, s
  <1>8. PgCascade(x, op.id) = PgCascade(g, op.id) /\ PgCascade(g, op.id) \subseteq acted
    <2>1. Postgres!Resting(g, op.id) \subseteq acted
      OBVIOUS
    <2>2. /\ Postgres!RetractionsFor(Postgres!Sources(x), Postgres!LiveIn(x), op.id)
               = Postgres!RetractionsFor(Postgres!Sources(g), Postgres!LiveIn(g), op.id)
          /\ Postgres!RetractionsFor(Postgres!Sources(g), Postgres!LiveIn(g), op.id) \subseteq Postgres!Resting(g, op.id)
      <3> HIDE DEF acted
      <3> QED BY <1>5, <2>1, PgCascadesOfPart
    <2> QED BY <2>1, <2>2, Zenon DEF PgCascade
  <1> HIDE DEF acted
  <1>a. x = PgPart(g, acted, acted, {})
    BY DEF x
  <1>9. Postgres!Persist(g, x, Postgres!Engine(op, x)) = Postgres!Engine(op, g)
    <2>1. CASE g.facts[op.id].open
      <3>1. Postgres!Engine(op, x) = PgChanged(x, PgCascade(g, op.id), PgShut(x), PgCascade(g, op.id), PgCounted(x))
        BY <1>5, <1>7, <1>8, <2>1, PgEngineChanges
      <3>2. Postgres!Engine(op, g) = PgChanged(g, PgCascade(g, op.id), PgShut(g), PgCascade(g, op.id), PgCounted(g))
        BY <1>6, <1>7, <2>1, PgEngineChanges
      <3>3. Postgres!Persist(g, x, PgChanged(x, PgCascade(g, op.id), PgShut(x), PgCascade(g, op.id), PgCounted(x)))
              = PgChanged(g, PgCascade(g, op.id), PgShut(g), PgCascade(g, op.id), PgCounted(g))
        BY <1>a, <1>8, PgOpeningStands
      <3> QED BY <3>1, <3>2, <3>3, Zenon
    <2>2. CASE ~g.facts[op.id].open
      <3>1. Postgres!Engine(op, x) = PgChanged(x, {}, PgShut(x), {op.id}, PgCounted(x))
        BY <1>5, <1>7, <2>2, PgEngineChanges
      <3>2. Postgres!Engine(op, g) = PgChanged(g, {}, PgShut(g), {op.id}, PgCounted(g))
        BY <1>6, <1>7, <2>2, PgEngineChanges
      <3>3. {} \in SUBSET acted /\ {op.id} \in SUBSET acted
        BY <1>7
      <3>4. Postgres!Persist(g, x, PgChanged(x, {}, PgShut(x), {op.id}, PgCounted(x)))
              = PgChanged(g, {}, PgShut(g), {op.id}, PgCounted(g))
        BY <1>a, <3>3, PgOpeningStands
      <3> QED BY <3>1, <3>2, <3>4, Zenon
    <2> QED BY <2>1, <2>2
  <1> QED BY <1>4, <1>7, <1>9 DEF Postgres!Allowed, s

LEMMA PgReopenStands ==
  ASSUME NEW g \in PgGraph, NEW op, op.do = "reopen", Postgres!Allowed(op, Postgres!Load(g, Postgres!Scope(op)))
  PROVE  /\ Postgres!Allowed(op, g)
         /\ Postgres!Persist(g, Postgres!Load(g, Postgres!Scope(op)), Postgres!Engine(op, Postgres!Load(g, Postgres!Scope(op))))
              = Postgres!Engine(op, g)
  <1> DEFINE s == Postgres!Scope(op)
             x == PgPart(g, {op.id}, {op.id}, {})
  <1>1. s = [nodes |-> {op.id}, dependents |-> FALSE, edges |-> {}, edgesOf |-> FALSE]
    BY DEF Postgres!Scope
  <1>2. Postgres!ActedOn(g, s) = {op.id}
    BY <1>1 DEF Postgres!ActedOn
  <1>3. Postgres!EdgesRead(g, s, {op.id}) = {}
    BY <1>1 DEF Postgres!EdgesRead
  <1> HIDE DEF s
  <1>4. Postgres!Load(g, s) = x
    BY <1>2, <1>3, PgLoadIs
  <1>a. x = PgPart(g, {op.id}, {op.id}, {})
    OBVIOUS
  <1>5. PgShape(x) /\ DOMAIN x.facts = DOMAIN g.facts \cap {op.id}
    BY DEF PgPart, PgShape
  <1>6. PgShape(g)
    BY PgGraphIs DEF PgShape
  <1> HIDE DEF x
  <1>7. op.id \in DOMAIN x.facts /\ op.id \in DOMAIN g.facts
    BY <1>4, <1>5 DEF Postgres!Allowed, s
  <1>8. Postgres!Engine(op, x) = PgChanged(x, {op.id}, PgOpened(x), {op.id}, PgCounted(x))
    BY <1>5, <1>7, PgEngineChanges
  <1>9. Postgres!Engine(op, g) = PgChanged(g, {op.id}, PgOpened(g), {op.id}, PgCounted(g))
    BY <1>6, <1>7, PgEngineChanges
  <1>10. Postgres!Persist(g, x, Postgres!Engine(op, x)) = Postgres!Engine(op, g)
    <2>1. Postgres!Persist(g, x, PgChanged(x, {op.id}, PgOpened(x), {op.id}, PgCounted(x)))
            = PgChanged(g, {op.id}, PgOpened(g), {op.id}, PgCounted(g))
      BY <1>a, PgOpeningStands
    <2> QED BY <1>8, <1>9, <2>1, Zenon
  <1> QED BY <1>4, <1>7, <1>10 DEF Postgres!Allowed, s

LEMMA PgEngineAdds ==
  ASSUME NEW y, PgShape(y), NEW op, op.do = "addNode"
  PROVE  Postgres!Engine(op, y) =
           [facts |-> [n \in DOMAIN y.facts \cup {op.id} |-> IF n = op.id THEN [open |-> TRUE, from |-> op.from] ELSE y.facts[n]],
            versions |-> [n \in DOMAIN y.facts \cup {op.id} |-> IF n = op.id THEN 0 ELSE y.versions[n]], edges |-> y.edges]
  <1>1. y = [facts |-> y.facts, versions |-> y.versions, edges |-> y.edges] /\ DOMAIN y.versions = DOMAIN y.facts
    BY DEF PgShape
  <1>2. Postgres!Engine(op, y) = Postgres!WithFact(y, op.id, op.from)
    BY DEF Postgres!Engine
  <1> QED BY <1>1, <1>2 DEF Postgres!WithFact

LEMMA PgAddNodeStands ==
  ASSUME NEW g \in PgGraph, NEW op, op.do = "addNode"
  PROVE  /\ Postgres!Allowed(op, g)
         /\ Postgres!Persist(g, Postgres!Load(g, Postgres!Scope(op)), Postgres!Engine(op, Postgres!Load(g, Postgres!Scope(op))))
              = Postgres!Engine(op, g)
  <1> DEFINE s == Postgres!Scope(op)
             x == PgPart(g, {}, {}, {})
             D == DOMAIN g.facts
             fact == [open |-> TRUE, from |-> op.from]
  <1>1. s = [nodes |-> {}, dependents |-> FALSE, edges |-> {}, edgesOf |-> FALSE]
    BY DEF Postgres!Scope
  <1>2. Postgres!ActedOn(g, s) = {}
    BY <1>1 DEF Postgres!ActedOn
  <1>3. Postgres!EdgesRead(g, s, {}) = {}
    BY <1>1 DEF Postgres!EdgesRead
  <1> HIDE DEF s
  <1>4. Postgres!Load(g, s) = x
    BY <1>2, <1>3, PgLoadIs
  <1>5. PgShape(x) /\ DOMAIN x.facts = {} /\ x.edges = {} /\ DOMAIN x.versions = {}
    BY DEF PgPart, PgShape
  <1>6. PgShape(g)
    BY PgGraphIs DEF PgShape
  <1> HIDE DEF x, fact
  <1>7. ASSUME NEW y, PgShape(y)
        PROVE  Postgres!Engine(op, y) =
                 [facts |-> [n \in DOMAIN y.facts \cup {op.id} |-> IF n = op.id THEN fact ELSE y.facts[n]],
                  versions |-> [n \in DOMAIN y.facts \cup {op.id} |-> IF n = op.id THEN 0 ELSE y.versions[n]], edges |-> y.edges]
    BY <1>7, PgEngineAdds DEF fact
  <1> DEFINE new == Postgres!Engine(op, x)
             put == {n \in DOMAIN new.facts : n \notin DOMAIN x.facts \/ x.facts[n] # new.facts[n]}
             recorded == {n \in DOMAIN new.facts : n \notin DOMAIN x.facts \/ x.versions[n] # new.versions[n]}
  <1>8. new.facts = [n \in {op.id} |-> fact] /\ new.versions = [n \in {op.id} |-> 0] /\ new.edges = {}
    <2> DEFINE facts == [n \in DOMAIN x.facts \cup {op.id} |-> IF n = op.id THEN fact ELSE x.facts[n]]
               versions == [n \in DOMAIN x.facts \cup {op.id} |-> IF n = op.id THEN 0 ELSE x.versions[n]]
    <2>1. new = [facts |-> facts, versions |-> versions, edges |-> {}]
      BY <1>5, <1>7
    <2>2. facts = [n \in {op.id} |-> fact] /\ versions = [n \in {op.id} |-> 0]
      BY <1>5
    <2> HIDE DEF facts, versions, new
    <2>3. new.facts = facts /\ new.versions = versions /\ new.edges = {}
      BY <2>1
    <2> QED BY <2>2, <2>3
  <1>9. Postgres!Persist(g, x, new) =
          LET gone == DOMAIN x.facts \ DOMAIN new.facts
              facts == (D \ gone) \cup put
          IN [facts |-> [n \in facts |-> IF n \in put THEN new.facts[n] ELSE g.facts[n]],
              versions |-> [n \in facts |-> IF n \in recorded THEN new.versions[n] ELSE g.versions[n]],
              edges |-> (g.edges \ (x.edges \ new.edges)) \cup new.edges]
    BY DEF Postgres!Persist
  <1> HIDE DEF new
  <1>10. put = {op.id} /\ recorded = {op.id} /\ DOMAIN x.facts \ DOMAIN new.facts = {} /\ D \ {} = D
    BY <1>5, <1>8
  <1>11. (g.edges \ (x.edges \ new.edges)) \cup new.edges = g.edges
    BY <1>5, <1>8
  <1> HIDE DEF put, recorded, D
  <1>12. Postgres!Persist(g, x, new) =
           [facts |-> [n \in D \cup {op.id} |-> IF n \in {op.id} THEN new.facts[n] ELSE g.facts[n]],
            versions |-> [n \in D \cup {op.id} |-> IF n \in {op.id} THEN new.versions[n] ELSE g.versions[n]], edges |-> g.edges]
    BY <1>9, <1>10, <1>11
  <1>13. Postgres!Persist(g, x, new) =
           [facts |-> [n \in D \cup {op.id} |-> IF n = op.id THEN fact ELSE g.facts[n]],
            versions |-> [n \in D \cup {op.id} |-> IF n = op.id THEN 0 ELSE g.versions[n]], edges |-> g.edges]
    BY <1>8, <1>12
  <1>14. Postgres!Persist(g, x, Postgres!Engine(op, x)) = Postgres!Engine(op, g)
    BY <1>6, <1>7, <1>13 DEF new, D
  <1> QED BY <1>4, <1>14 DEF Postgres!Allowed, s

LEMMA PgEngineLinks ==
  ASSUME NEW g, PgShape(g), NEW op
  PROVE  /\ op.do = "addEdge" => Postgres!Engine(op, g) =
              [facts |-> g.facts, versions |-> g.versions, edges |-> g.edges \cup {op.edge}]
         /\ op.do = "deleteEdge" => Postgres!Engine(op, g) =
              [facts |-> g.facts, versions |-> g.versions, edges |-> {e \in g.edges : e.id # op.id}]
  <1> DEFINE F == g.facts
             V == g.versions
             E == g.edges
             more == E \cup {op.edge}
             fewer == {e \in E : e.id # op.id}
  <1>1. g = [facts |-> F, versions |-> V, edges |-> E]
    BY DEF PgShape
  <1>2. /\ op.do = "addEdge" => Postgres!Engine(op, g) = [g EXCEPT !.edges = more]
        /\ op.do = "deleteEdge" => Postgres!Engine(op, g) = [g EXCEPT !.edges = fewer]
    BY DEF Postgres!Engine
  <1> HIDE DEF F, V, E, more, fewer
  <1>3. /\ [g EXCEPT !.edges = more] = [facts |-> F, versions |-> V, edges |-> more]
        /\ [g EXCEPT !.edges = fewer] = [facts |-> F, versions |-> V, edges |-> fewer]
    BY <1>1
  <1> QED BY <1>2, <1>3, Zenon DEF F, V, E, more, fewer

\* A change of edges alone, written back.
LEMMA PgEdgesStand ==
  ASSUME NEW g \in PgGraph, NEW x, NEW new, new.facts = x.facts, new.versions = x.versions
  PROVE  Postgres!Persist(g, x, new)
           = [facts |-> g.facts, versions |-> g.versions, edges |-> (g.edges \ (x.edges \ new.edges)) \cup new.edges]
  <1> DEFINE D == DOMAIN g.facts
             put == {n \in DOMAIN new.facts : n \notin DOMAIN x.facts \/ x.facts[n] # new.facts[n]}
             recorded == {n \in DOMAIN new.facts : n \notin DOMAIN x.facts \/ x.versions[n] # new.versions[n]}
  <1>1. Postgres!Persist(g, x, new) =
          LET gone == DOMAIN x.facts \ DOMAIN new.facts
              facts == (D \ gone) \cup put
          IN [facts |-> [n \in facts |-> IF n \in put THEN new.facts[n] ELSE g.facts[n]],
              versions |-> [n \in facts |-> IF n \in recorded THEN new.versions[n] ELSE g.versions[n]],
              edges |-> (g.edges \ (x.edges \ new.edges)) \cup new.edges]
    BY DEF Postgres!Persist
  <1>2. put = {} /\ recorded = {} /\ DOMAIN x.facts \ DOMAIN new.facts = {} /\ (D \ {}) \cup {} = D
    OBVIOUS
  <1> HIDE DEF put, recorded, D
  <1>3. Postgres!Persist(g, x, new) =
          [facts |-> [n \in D |-> g.facts[n]], versions |-> [n \in D |-> g.versions[n]],
           edges |-> (g.edges \ (x.edges \ new.edges)) \cup new.edges]
    BY <1>1, <1>2
  <1>4. g.facts = [n \in D |-> g.facts[n]] /\ g.versions = [n \in D |-> g.versions[n]]
    BY PgGraphIs DEF D
  <1> QED BY <1>3, <1>4

LEMMA PgAddEdgeStands ==
  ASSUME NEW g \in PgGraph, NEW op, op.do = "addEdge", Postgres!Allowed(op, Postgres!Load(g, Postgres!Scope(op)))
  PROVE  /\ Postgres!Allowed(op, g)
         /\ Postgres!Persist(g, Postgres!Load(g, Postgres!Scope(op)), Postgres!Engine(op, Postgres!Load(g, Postgres!Scope(op))))
              = Postgres!Engine(op, g)
  <1> DEFINE s == Postgres!Scope(op)
             acted == Postgres!Ends(op.edge)
             edges == {e \in g.edges : e.id = op.edge.id}
             read == acted \cup UNION {Postgres!Ends(e) : e \in edges}
             x == PgPart(g, read, acted, edges)
  <1>1. s = [nodes |-> acted, dependents |-> FALSE, edges |-> {op.edge.id}, edgesOf |-> FALSE]
    BY DEF Postgres!Scope
  <1> HIDE DEF s
  <1>2. Postgres!ActedOn(g, s) = acted
    BY <1>1 DEF Postgres!ActedOn
  <1>3. Postgres!EdgesRead(g, s, acted) = edges
    BY <1>1 DEF Postgres!EdgesRead
  <1> HIDE DEF acted, edges
  <1>4. Postgres!Load(g, s) = x
    BY <1>2, <1>3, PgLoadIs
  <1>5. DOMAIN x.facts \subseteq DOMAIN g.facts /\ x.edges = edges /\ PgShape(x)
    BY DEF PgPart, PgShape
  <1>6. PgShape(g)
    BY PgGraphIs DEF PgShape
  <1> DEFINE after == edges \cup {op.edge}
             new == Postgres!Engine(op, x)
  <1> HIDE DEF x, read
  <1>8. Postgres!Allowed(op, g)
    BY <1>4, <1>5 DEF Postgres!Allowed, s
  <1>9. new = [facts |-> x.facts, versions |-> x.versions, edges |-> after]
    BY <1>5, PgEngineLinks
  <1>10. Postgres!Engine(op, g) = [facts |-> g.facts, versions |-> g.versions, edges |-> g.edges \cup {op.edge}]
    BY <1>6, PgEngineLinks
  <1>11. (g.edges \ (edges \ after)) \cup after = g.edges \cup {op.edge}
    BY DEF edges
  <1> HIDE DEF new, after
  <1>12. Postgres!Persist(g, x, new) = [facts |-> g.facts, versions |-> g.versions, edges |-> (g.edges \ (edges \ after)) \cup after]
    <2>1. new.facts = x.facts /\ new.versions = x.versions /\ new.edges = after
      BY <1>9
    <2> QED BY <1>5, <2>1, PgEdgesStand
  <1>13. Postgres!Persist(g, x, Postgres!Engine(op, x)) = Postgres!Engine(op, g)
    BY <1>10, <1>11, <1>12, Zenon DEF new
  <1> QED BY <1>4, <1>8, <1>13 DEF s

LEMMA PgDeleteEdgeStands ==
  ASSUME NEW g \in PgGraph, NEW op, op.do = "deleteEdge"
  PROVE  /\ Postgres!Allowed(op, g)
         /\ Postgres!Persist(g, Postgres!Load(g, Postgres!Scope(op)), Postgres!Engine(op, Postgres!Load(g, Postgres!Scope(op))))
              = Postgres!Engine(op, g)
  <1> DEFINE s == Postgres!Scope(op)
             edges == {e \in g.edges : e.id = op.id}
             read == {} \cup UNION {Postgres!Ends(e) : e \in edges}
             x == PgPart(g, read, {}, edges)
  <1>1. s = [nodes |-> {}, dependents |-> FALSE, edges |-> {op.id}, edgesOf |-> FALSE]
    BY DEF Postgres!Scope
  <1> HIDE DEF s
  <1>2. Postgres!ActedOn(g, s) = {}
    BY <1>1 DEF Postgres!ActedOn
  <1>3. Postgres!EdgesRead(g, s, {}) = edges
    BY <1>1 DEF Postgres!EdgesRead
  <1> HIDE DEF edges
  <1>4. Postgres!Load(g, s) = x
    BY <1>2, <1>3, PgLoadIs
  <1>5. x.edges = edges /\ PgShape(x)
    BY DEF PgPart, PgShape
  <1>6. PgShape(g)
    BY PgGraphIs DEF PgShape
  <1> DEFINE new == Postgres!Engine(op, x)
  <1> HIDE DEF x, read
  <1>8. {e \in x.edges : e.id # op.id} = {}
    BY <1>5 DEF edges
  <1>9. new = [facts |-> x.facts, versions |-> x.versions, edges |-> {}]
    BY <1>5, <1>8, PgEngineLinks
  <1>10. Postgres!Engine(op, g) = [facts |-> g.facts, versions |-> g.versions, edges |-> {e \in g.edges : e.id # op.id}]
    BY <1>6, PgEngineLinks
  <1>11. (g.edges \ (edges \ {})) \cup {} = {e \in g.edges : e.id # op.id}
    BY DEF edges
  <1> HIDE DEF new
  <1>12. Postgres!Persist(g, x, new) = [facts |-> g.facts, versions |-> g.versions, edges |-> (g.edges \ (edges \ {})) \cup {}]
    <2>1. new.facts = x.facts /\ new.versions = x.versions /\ new.edges = {}
      BY <1>9
    <2> QED BY <1>5, <2>1, PgEdgesStand
  <1>13. Postgres!Persist(g, x, Postgres!Engine(op, x)) = Postgres!Engine(op, g)
    BY <1>10, <1>11, <1>12, Zenon DEF new
  <1> QED BY <1>4, <1>13 DEF Postgres!Allowed, s

LEMMA PgDeleteNodeStands ==
  ASSUME NEW g \in PgGraph, NEW op, op.do = "deleteNode"
  PROVE  /\ Postgres!Allowed(op, g)
         /\ Postgres!Persist(g, Postgres!Load(g, Postgres!Scope(op)), Postgres!Engine(op, Postgres!Load(g, Postgres!Scope(op))))
              = Postgres!Engine(op, g)
  <1> DEFINE s == Postgres!Scope(op)
             acted == {op.id} \cup Postgres!Resting(g, op.id)
             edges == {e \in g.edges : Postgres!Ends(e) \cap acted # {}}
             read == acted \cup UNION {Postgres!Ends(e) : e \in edges}
             x == PgPart(g, read, acted, edges)
             D == DOMAIN g.facts
  <1>1. s = [nodes |-> {op.id}, dependents |-> TRUE, edges |-> {}, edgesOf |-> TRUE]
    BY DEF Postgres!Scope
  <1> HIDE DEF s
  <1>2. Postgres!ActedOn(g, s) = acted
    BY <1>1 DEF Postgres!ActedOn
  <1>3. Postgres!EdgesRead(g, s, acted) = edges
    BY <1>1 DEF Postgres!EdgesRead
  <1>4. acted \subseteq read /\ Postgres!Resting(g, op.id) \subseteq read
    OBVIOUS
  <1> HIDE DEF edges
  <1>5. Postgres!Load(g, s) = x
    <2> HIDE DEF acted
    <2> QED BY <1>2, <1>3, PgLoadIs
  <1> HIDE DEF read
  <1>6. /\ PgShape(x) /\ DOMAIN x.facts = D \cap read /\ x.edges = edges
        /\ x.facts = [n \in D \cap read |-> g.facts[n]]
    BY DEF PgPart, PgShape
  <1> HIDE DEF x
  <1>7. {op.id} \cup Postgres!Resting(x, op.id) = acted
    BY <1>4, <1>6, PgCascadesOfPart
  <1> HIDE DEF acted
  <1>8. ASSUME NEW y
        PROVE  Postgres!Engine(op, y) =
                 LET gone == {op.id} \cup Postgres!Resting(y, op.id) IN
                 [facts |-> [n \in DOMAIN y.facts \ gone |-> y.facts[n]], versions |-> [n \in DOMAIN y.facts \ gone |-> y.versions[n]],
                  edges |-> {e \in y.edges : Postgres!Ends(e) \cap gone = {}}]
    BY DEF Postgres!Engine, Postgres!Without
  <1>9. Postgres!Engine(op, g) =
          [facts |-> [n \in D \ acted |-> g.facts[n]], versions |-> [n \in D \ acted |-> g.versions[n]],
           edges |-> {e \in g.edges : Postgres!Ends(e) \cap acted = {}}]
    BY <1>8 DEF acted
  <1> DEFINE new == Postgres!Engine(op, x)
             put == {n \in DOMAIN new.facts : n \notin DOMAIN x.facts \/ x.facts[n] # new.facts[n]}
             recorded == {n \in DOMAIN new.facts : n \notin DOMAIN x.facts \/ x.versions[n] # new.versions[n]}
  <1>10. /\ new.facts = [n \in (D \cap read) \ acted |-> x.facts[n]] /\ new.versions = [n \in (D \cap read) \ acted |-> x.versions[n]]
         /\ new.edges = {e \in edges : Postgres!Ends(e) \cap acted = {}}
    <2> DEFINE facts == [n \in (D \cap read) \ acted |-> x.facts[n]]
               versions == [n \in (D \cap read) \ acted |-> x.versions[n]]
               left == {e \in edges : Postgres!Ends(e) \cap acted = {}}
    <2>1. new = [facts |-> facts, versions |-> versions, edges |-> left]
      <3> DEFINE gone == {op.id} \cup Postgres!Resting(x, op.id)
      <3>1. new = [facts |-> [n \in DOMAIN x.facts \ gone |-> x.facts[n]], versions |-> [n \in DOMAIN x.facts \ gone |-> x.versions[n]],
                   edges |-> {e \in x.edges : Postgres!Ends(e) \cap gone = {}}]
        BY <1>8
      <3>2. gone = acted /\ DOMAIN x.facts = D \cap read /\ x.edges = edges
        BY <1>6, <1>7
      <3> HIDE DEF gone, new
      <3>3. [n \in DOMAIN x.facts \ gone |-> x.facts[n]] = facts /\ [n \in DOMAIN x.facts \ gone |-> x.versions[n]] = versions
        BY <3>2
      <3>4. {e \in x.edges : Postgres!Ends(e) \cap gone = {}} = left
        BY <3>2
      <3> QED BY <3>1, <3>3, <3>4, Zenon
    <2> HIDE DEF facts, versions, left, new
    <2>2. new.facts = facts /\ new.versions = versions /\ new.edges = left
      BY <2>1
    <2> QED BY <2>2, Zenon DEF facts, versions, left
  <1>11. new.edges = {}
    BY <1>10 DEF edges
  <1>12. Postgres!Persist(g, x, new) =
           LET gone == DOMAIN x.facts \ DOMAIN new.facts
               facts == (D \ gone) \cup put
           IN [facts |-> [n \in facts |-> IF n \in put THEN new.facts[n] ELSE g.facts[n]],
               versions |-> [n \in facts |-> IF n \in recorded THEN new.versions[n] ELSE g.versions[n]],
               edges |-> (g.edges \ (x.edges \ new.edges)) \cup new.edges]
    BY DEF Postgres!Persist
  <1> HIDE DEF new
  <1>13. put = {} /\ recorded = {} /\ (D \ (DOMAIN x.facts \ DOMAIN new.facts)) \cup {} = D \ acted
    BY <1>4, <1>6, <1>10
  <1>14. (g.edges \ (x.edges \ new.edges)) \cup new.edges = {e \in g.edges : Postgres!Ends(e) \cap acted = {}}
    BY <1>6, <1>11 DEF edges
  <1> HIDE DEF put, recorded, D
  <1>15. Postgres!Persist(g, x, new) =
           [facts |-> [n \in D \ acted |-> g.facts[n]], versions |-> [n \in D \ acted |-> g.versions[n]],
            edges |-> {e \in g.edges : Postgres!Ends(e) \cap acted = {}}]
    BY <1>12, <1>13, <1>14
  <1>16. Postgres!Persist(g, x, Postgres!Engine(op, x)) = Postgres!Engine(op, g)
    BY <1>9, <1>15 DEF new
  <1> QED BY <1>5, <1>16 DEF Postgres!Allowed, s

\* What is written back of a part is what the engine makes of the whole.
LEMMA PgPartStands ==
  ASSUME NEW g \in PgGraph, NEW op \in Postgres!Writes, Postgres!Allowed(op, Postgres!Load(g, Postgres!Scope(op)))
  PROVE  /\ Postgres!Allowed(op, g)
         /\ Postgres!Persist(g, Postgres!Load(g, Postgres!Scope(op)), Postgres!Engine(op, Postgres!Load(g, Postgres!Scope(op))))
              = Postgres!Engine(op, g)
  <1>1. op.do \in {"addNode", "invalidate", "reopen", "deleteNode", "addEdge", "deleteEdge"}
    BY DEF Postgres!Writes
  <1> QED BY <1>1, PgAddNodeStands, PgInvalidateStands, PgReopenStands, PgDeleteNodeStands, PgAddEdgeStands, PgDeleteEdgeStands

LEMMA PgEngineOK ==
  ASSUME NEW g \in PgGraph, NEW op \in Postgres!Writes, Postgres!Allowed(op, g)
  PROVE  Postgres!Engine(op, g) \in PgGraph
  <1> DEFINE D == DOMAIN g.facts
  <1>1. /\ PgShape(g) /\ D \in SUBSET PgIds /\ g.edges \in SUBSET PgLink
        /\ g.facts \in [D -> Postgres!PgFact] /\ g.versions \in [D -> Nat]
    BY PgGraphIs DEF PgShape
  <1>2. ASSUME op.do = "addNode" PROVE Postgres!Engine(op, g) \in PgGraph
    <2>1. op.id \in PgIds /\ op.from \in SUBSET PgIds
      BY <1>2 DEF Postgres!Writes
    <2>2. D \cup {op.id} \in SUBSET PgIds
      BY <1>1, <2>1
    <2>3. [n \in D \cup {op.id} |-> IF n = op.id THEN [open |-> TRUE, from |-> op.from] ELSE g.facts[n]] \in [D \cup {op.id} -> Postgres!PgFact]
      BY <1>1, <2>1 DEF Postgres!PgFact
    <2>4. [n \in D \cup {op.id} |-> IF n = op.id THEN 0 ELSE g.versions[n]] \in [D \cup {op.id} -> Nat]
      BY <1>1
    <2>5. Postgres!Engine(op, g) =
            [facts |-> [n \in D \cup {op.id} |-> IF n = op.id THEN [open |-> TRUE, from |-> op.from] ELSE g.facts[n]],
             versions |-> [n \in D \cup {op.id} |-> IF n = op.id THEN 0 ELSE g.versions[n]], edges |-> g.edges]
      BY <1>1, <1>2, PgEngineAdds
    <2> DEFINE facts == [n \in D \cup {op.id} |-> IF n = op.id THEN [open |-> TRUE, from |-> op.from] ELSE g.facts[n]]
               versions == [n \in D \cup {op.id} |-> IF n = op.id THEN 0 ELSE g.versions[n]]
    <2> HIDE DEF facts, versions
    <2>6. [facts |-> facts, versions |-> versions, edges |-> g.edges] \in PgGraph
      BY <1>1, <2>2, <2>3, <2>4, PgGraphHas DEF facts, versions
    <2> QED BY <2>5, <2>6, Zenon DEF facts, versions
  <1>3. ASSUME NEW S, NEW T, NEW changed \in [D -> Postgres!PgFact]
        PROVE  PgChanged(g, S, changed, T, PgCounted(g)) \in PgGraph
    <2>1. [n \in D |-> IF n \in S THEN changed[n] ELSE g.facts[n]] \in [D -> Postgres!PgFact]
      BY <1>1
    <2>2. [n \in D |-> IF n \in T THEN PgCounted(g)[n] ELSE g.versions[n]] \in [D -> Nat]
      BY <1>1 DEF PgCounted
    <2> QED BY <1>1, <2>1, <2>2, PgGraphHas DEF PgChanged
  <1>4. ASSUME op.do \in {"invalidate", "reopen"} PROVE Postgres!Engine(op, g) \in PgGraph
    <2>1. op.id \in D
      BY <1>4 DEF Postgres!Allowed
    <2>2. PgShut(g) \in [D -> Postgres!PgFact] /\ PgOpened(g) \in [D -> Postgres!PgFact]
      BY <1>1 DEF PgShut, PgOpened, Postgres!PgFact
    <2> DEFINE S == PgCascade(g, op.id)
    <2>3. /\ PgChanged(g, S, PgShut(g), S, PgCounted(g)) \in PgGraph
          /\ PgChanged(g, {}, PgShut(g), {op.id}, PgCounted(g)) \in PgGraph
          /\ PgChanged(g, {op.id}, PgOpened(g), {op.id}, PgCounted(g)) \in PgGraph
      BY <1>3, <2>2
    <2> QED BY <1>1, <1>4, <2>1, <2>3, PgEngineChanges
  <1>5. ASSUME op.do = "deleteNode" PROVE Postgres!Engine(op, g) \in PgGraph
    <2> DEFINE gone == {op.id} \cup Postgres!Resting(g, op.id)
    <2>1. Postgres!Engine(op, g) = Postgres!Without(g, gone)
      BY <1>5 DEF Postgres!Engine
    <2> HIDE DEF gone
    <2>2. Postgres!Without(g, gone) =
            [facts |-> [n \in D \ gone |-> g.facts[n]], versions |-> [n \in D \ gone |-> g.versions[n]],
             edges |-> {e \in g.edges : Postgres!Ends(e) \cap gone = {}}]
      BY DEF Postgres!Without
    <2>3. /\ D \ gone \in SUBSET PgIds /\ [n \in D \ gone |-> g.facts[n]] \in [D \ gone -> Postgres!PgFact]
          /\ [n \in D \ gone |-> g.versions[n]] \in [D \ gone -> Nat]
          /\ {e \in g.edges : Postgres!Ends(e) \cap gone = {}} \in SUBSET PgLink
      BY <1>1
    <2> QED BY <2>1, <2>2, <2>3, PgGraphHas
  <1>6. ASSUME op.do = "addEdge" PROVE Postgres!Engine(op, g) \in PgGraph
    <2>1. op.edge \in PgLink
      BY <1>6 DEF Postgres!Writes, PgLink
    <2>2. Postgres!Engine(op, g) = [facts |-> g.facts, versions |-> g.versions, edges |-> g.edges \cup {op.edge}]
      BY <1>1, <1>6, PgEngineLinks
    <2>3. g.edges \cup {op.edge} \in SUBSET PgLink
      BY <1>1, <2>1
    <2> QED BY <1>1, <2>2, <2>3, PgGraphHas
  <1>7. ASSUME op.do = "deleteEdge" PROVE Postgres!Engine(op, g) \in PgGraph
    <2>1. Postgres!Engine(op, g) = [facts |-> g.facts, versions |-> g.versions, edges |-> {e \in g.edges : e.id # op.id}]
      BY <1>1, <1>7, PgEngineLinks
    <2>2. {e \in g.edges : e.id # op.id} \in SUBSET PgLink
      BY <1>1
    <2> QED BY <1>1, <2>1, <2>2, PgGraphHas
  <1>8. op.do \in {"addNode", "invalidate", "reopen", "deleteNode", "addEdge", "deleteEdge"}
    BY DEF Postgres!Writes
  <1> QED BY <1>2, <1>4, <1>5, <1>6, <1>7, <1>8

\* The holder of the tenant's row alone has read a part, and it is still so.
PgAsking == [at : {"asking", "locked"}, op : Postgres!Writes, governed : BOOLEAN]
PgCallOK(graph, lock, c, call) ==
  /\ call.at \in {"asking", "locked"} => call \in PgAsking
  /\ call.at = "loaded" => call.op \in Postgres!Writes /\ call.part = Postgres!Load(graph, Postgres!Scope(call.op))
  /\ call.at \in {"locked", "loaded"} => lock = c

\* The tenant's row counts the events, and what was removed stays missing.
PgEvent == [prev : Seq(Postgres!Writes), hash : Seq(Postgres!Writes), event : Postgres!Writes]
PgTrailOK(trail, tenant, cuts) ==
  /\ trail \in Seq(PgEvent) /\ \A i \in DOMAIN trail : Len(trail[i].hash) = i
  /\ tenant.head \in Seq(Postgres!Writes) /\ tenant.count = Len(tenant.head)
  /\ cuts \in Nat /\ IF cuts = 0 THEN Len(trail) = tenant.count ELSE Len(trail) < tenant.count

PgInv ==
  /\ pgGraph \in PgGraph
  /\ DOMAIN pgCall = PgCallers /\ \A c \in PgCallers : PgCallOK(pgGraph, pgLock, c, pgCall[c])
  /\ PgTrailOK(pgTrail, pgTenant, pgCuts)

LEMMA PgInitInv == Postgres!PgInit => PgInv
  <1> SUFFICES ASSUME Postgres!PgInit PROVE PgInv
    OBVIOUS
  <1>1. pgGraph \in PgGraph
    <2>1. pgGraph \in PgGraphs
      BY DEF Postgres!PgInit
    <2> QED BY <2>1, ServicesTenants, PgGraphHas DEF PgLink
  <1>2. DOMAIN pgCall = PgCallers /\ \A c \in PgCallers : pgCall[c].at = "waiting"
    BY DEF Postgres!PgInit, Postgres!Waiting
  <1>3. PgTrailOK(pgTrail, pgTenant, pgCuts)
    BY DEF Postgres!PgInit, PgTrailOK
  <1> QED BY <1>1, <1>2, <1>3 DEF PgInv, PgCallOK

\* A call that asks for no write and holds no row does not disturb the rest.
LEMMA PgCallMoves ==
  ASSUME PgInv, NEW c \in PgCallers, NEW call, pgCall' = [pgCall EXCEPT ![c] = call],
         PgCallOK(pgGraph, pgLock', c, call), UNCHANGED <<pgGraph, pgTrail, pgTenant, pgCuts>>,
         \A d \in PgCallers \ {c} : pgLock = d => pgLock' = d
  PROVE  PgInv'
  <1>1. DOMAIN pgCall' = PgCallers /\ pgCall'[c] = call /\ \A d \in PgCallers \ {c} : pgCall'[d] = pgCall[d]
    BY DEF PgInv
  <1>2. ASSUME NEW d \in PgCallers PROVE PgCallOK(pgGraph, pgLock', d, pgCall'[d])
    <2>1. CASE d = c
      BY <1>1, <2>1
    <2>2. CASE d # c
      BY <1>1, <2>2 DEF PgInv, PgCallOK
    <2> QED BY <2>1, <2>2
  <1> QED BY <1>1, <1>2 DEF PgInv

LEMMA PgBeginInv ==
  ASSUME PgInv, NEW c \in PgCallers, NEW op \in Postgres!Writes, NEW governed \in BOOLEAN, Postgres!BeginWrite(c, op, governed)
  PROVE  PgInv'
  <1> DEFINE call == [at |-> "asking", op |-> op, governed |-> governed]
  <1>1. pgCall' = [pgCall EXCEPT ![c] = call] /\ UNCHANGED <<pgGraph, pgTrail, pgTenant, pgLock, pgCuts>>
    BY DEF Postgres!BeginWrite
  <1>2. PgCallOK(pgGraph, pgLock', c, call)
    BY DEF PgCallOK, PgAsking
  <1> HIDE DEF call
  <1> QED BY <1>1, <1>2, PgCallMoves

LEMMA PgLockInv == ASSUME PgInv, NEW c \in PgCallers, Postgres!LockTenant(c) PROVE PgInv'
  <1> DEFINE call == [pgCall[c] EXCEPT !.at = "locked"]
  <1>1. /\ pgCall[c].at = "asking" /\ pgLock = Postgres!NoCaller /\ pgLock' = c
        /\ UNCHANGED <<pgGraph, pgTrail, pgTenant, pgCuts>>
    BY DEF Postgres!LockTenant
  <1>2. pgCall' = [pgCall EXCEPT ![c] = call]
    BY DEF Postgres!LockTenant
  <1>3. pgCall[c] \in PgAsking
    BY <1>1 DEF PgInv, PgCallOK
  <1>4. call \in PgAsking /\ call.at = "locked"
    BY <1>3 DEF PgAsking
  <1> HIDE DEF call
  <1>5. PgCallOK(pgGraph, pgLock', c, call)
    BY <1>1, <1>4 DEF PgCallOK
  <1>6. \A d \in PgCallers : pgLock # d
    BY <1>1, ServicesNames
  <1> QED BY <1>1, <1>2, <1>5, <1>6, PgCallMoves

LEMMA PgLoadInv == ASSUME PgInv, NEW c \in PgCallers, Postgres!LoadPart(c) PROVE PgInv'
  <1> DEFINE load == Postgres!Load(pgGraph, Postgres!Scope(pgCall[c].op))
             call == [at |-> "loaded", op |-> pgCall[c].op, governed |-> pgCall[c].governed, part |-> load]
  <1>1. /\ pgCall[c].at = "locked" /\ pgCall' = [pgCall EXCEPT ![c] = call]
        /\ UNCHANGED <<pgGraph, pgTrail, pgTenant, pgLock, pgCuts>>
    BY DEF Postgres!LoadPart
  <1>2. pgCall[c] \in PgAsking /\ pgLock = c
    BY <1>1 DEF PgInv, PgCallOK
  <1>3. PgCallOK(pgGraph, pgLock', c, call)
    BY <1>1, <1>2 DEF PgCallOK, PgAsking
  <1> HIDE DEF call
  <1> QED BY <1>1, <1>3, PgCallMoves

LEMMA PgRollBackInv == ASSUME PgInv, NEW c \in PgCallers, Postgres!RollBack(c) PROVE PgInv'
  <1>1. /\ pgCall' = [pgCall EXCEPT ![c] = Postgres!Waiting] /\ pgLock' = (IF pgLock = c THEN Postgres!NoCaller ELSE pgLock)
        /\ UNCHANGED <<pgGraph, pgTrail, pgTenant, pgCuts>>
    BY DEF Postgres!RollBack
  <1>2. PgCallOK(pgGraph, pgLock', c, Postgres!Waiting)
    BY DEF PgCallOK, Postgres!Waiting
  <1> QED BY <1>1, <1>2, PgCallMoves

LEMMA PgReadInv ==
  ASSUME PgInv, NEW c \in PgCallers,
         \/ \E id \in PgIds, do \in {"getEdges", "history"} : Postgres!BeginRead(c, do, id)
         \/ Postgres!ReadFacts(c) \/ Postgres!EndRead(c)
  PROVE  PgInv'
  <1> DEFINE Reads(call) == /\ pgCall' = [pgCall EXCEPT ![c] = call] /\ call.at \in {"edges", "facts", "waiting"}
                            /\ UNCHANGED <<pgGraph, pgTrail, pgTenant, pgLock, pgCuts>>
  <1>1. \E call : Reads(call)
    <2>1. ASSUME NEW id, NEW do, Postgres!BeginRead(c, do, id) PROVE \E call : Reads(call)
      <3> DEFINE s == Postgres!Scope([do |-> do, id |-> id])
                 call == [at |-> "edges", op |-> [do |-> do, id |-> id], edges |-> Postgres!EdgesRead(pgGraph, s, s.nodes)]
      <3>1. Reads(call)
        BY <2>1 DEF Postgres!BeginRead
      <3> HIDE DEF call, Reads
      <3> QED BY <3>1
    <2>2. ASSUME Postgres!ReadFacts(c) PROVE \E call : Reads(call)
      <3> DEFINE call == [at |-> "facts", op |-> pgCall[c].op, edges |-> pgCall[c].edges,
                          facts |-> Postgres!FactsRead(pgGraph, {pgCall[c].op.id}, pgCall[c].edges)]
      <3>1. Reads(call)
        BY <2>2 DEF Postgres!ReadFacts
      <3> HIDE DEF call, Reads
      <3> QED BY <3>1
    <2>3. ASSUME Postgres!EndRead(c) PROVE \E call : Reads(call)
      <3>1. Reads(Postgres!Waiting)
        BY <2>3 DEF Postgres!EndRead, Postgres!Waiting
      <3> HIDE DEF Reads
      <3> QED BY <3>1
    <2> HIDE DEF Reads
    <2> QED BY <2>1, <2>2, <2>3
  <1>2. PICK call : Reads(call)
    BY <1>1
  <1>3. PgCallOK(pgGraph, pgLock', c, call)
    BY <1>2 DEF PgCallOK
  <1> QED BY <1>2, <1>3, PgCallMoves

LEMMA PgTailLen ==
  ASSUME PgInv
  PROVE  /\ Postgres!TrailHead \in Seq(Postgres!Writes) /\ Len(Postgres!TrailHead) = Len(pgTrail)
         /\ Postgres!TailRecorded => pgCuts = 0
  <1>1. PgTrailOK(pgTrail, pgTenant, pgCuts)
    BY DEF PgInv
  <1>2. Postgres!TrailHead \in Seq(Postgres!Writes) /\ Len(Postgres!TrailHead) = Len(pgTrail)
    <2>1. CASE pgTrail = <<>>
      BY <2>1 DEF Postgres!TrailHead
    <2>2. CASE pgTrail # <<>>
      <3>1. Len(pgTrail) \in DOMAIN pgTrail /\ pgTrail[Len(pgTrail)] \in PgEvent
        BY <1>1, <2>2 DEF PgTrailOK
      <3> QED BY <1>1, <2>2, <3>1 DEF PgTrailOK, PgEvent, Postgres!TrailHead
    <2> QED BY <2>1, <2>2
  <1>3. Postgres!TailRecorded => pgTenant.count = Len(pgTrail)
    BY <1>1, <1>2 DEF Postgres!TailRecorded, PgTrailOK
  <1>4. Len(pgTrail) \in Nat
    BY <1>1 DEF PgTrailOK
  <1> QED BY <1>1, <1>2, <1>3, <1>4 DEF PgTrailOK

\* A committed write is the engine's of the whole graph, and goes on the
\* trail, if at all, only while nothing was removed from it.
LEMMA PgCommits ==
  ASSUME PgInv, NEW c \in PgCallers, Postgres!CommitWrite(c)
  PROVE  /\ Postgres!Allowed(pgCall[c].op, pgGraph) /\ pgGraph' = Postgres!Engine(pgCall[c].op, pgGraph)
         /\ PgInv' /\ (pgCuts > 0 => pgTrail' = pgTrail)
  <1> DEFINE op == pgCall[c].op
             load == Postgres!Load(pgGraph, Postgres!Scope(op))
             event == [prev |-> Postgres!TrailHead, hash |-> Append(Postgres!TrailHead, op), event |-> op]
             tenant == [count |-> pgTenant.count + 1, head |-> Append(Postgres!TrailHead, op)]
  <1>1. /\ pgCall[c].at = "loaded" /\ pgCall' = [pgCall EXCEPT ![c] = Postgres!Waiting]
        /\ Postgres!Allowed(op, pgCall[c].part) /\ UNCHANGED pgCuts
        /\ pgGraph' = Postgres!Persist(pgGraph, pgCall[c].part, Postgres!Engine(op, pgCall[c].part))
        /\ \/ UNCHANGED <<pgTrail, pgTenant>>
           \/ Postgres!TailRecorded /\ pgTrail' = Append(pgTrail, event) /\ pgTenant' = tenant
    BY DEF Postgres!CommitWrite, Postgres!MayAppend, Postgres!EventHash
  <1>2. /\ op \in Postgres!Writes /\ pgCall[c].part = load /\ pgLock = c /\ pgGraph \in PgGraph
        /\ DOMAIN pgCall = PgCallers /\ \A d \in PgCallers : PgCallOK(pgGraph, pgLock, d, pgCall[d])
        /\ PgTrailOK(pgTrail, pgTenant, pgCuts)
    BY <1>1 DEF PgInv, PgCallOK
  <1>3. Postgres!Allowed(op, pgGraph) /\ pgGraph' = Postgres!Engine(op, pgGraph)
    <2> HIDE DEF op
    <2> QED BY <1>1, <1>2, PgPartStands
  <1>4. pgGraph' \in PgGraph
    BY <1>2, <1>3, PgEngineOK
  <1> HIDE DEF load
  <1>5. DOMAIN pgCall' = PgCallers /\ \A d \in PgCallers : PgCallOK(pgGraph', pgLock', d, pgCall'[d])
    <2>1. /\ DOMAIN pgCall' = PgCallers /\ pgCall'[c] = Postgres!Waiting
          /\ \A d \in PgCallers \ {c} : pgCall'[d] = pgCall[d]
      BY <1>1, <1>2
    <2>2. \A d \in PgCallers \ {c} : pgCall[d].at \notin {"locked", "loaded"}
      BY <1>2 DEF PgCallOK
    <2>3. ASSUME NEW d \in PgCallers PROVE PgCallOK(pgGraph', pgLock', d, pgCall'[d])
      <3>1. CASE d = c
        BY <2>1, <3>1 DEF PgCallOK, Postgres!Waiting
      <3>2. CASE d # c
        BY <1>2, <2>1, <2>2, <3>2 DEF PgCallOK
      <3> QED BY <3>1, <3>2
    <2> QED BY <2>1, <2>3
  <1>6. CASE UNCHANGED <<pgTrail, pgTenant>>
    BY <1>1, <1>2, <1>3, <1>4, <1>5, <1>6 DEF PgInv
  <1>7. CASE Postgres!TailRecorded /\ pgTrail' = Append(pgTrail, event) /\ pgTenant' = tenant
    <2>1. /\ pgCuts = 0 /\ Postgres!TrailHead \in Seq(Postgres!Writes) /\ Len(Postgres!TrailHead) = Len(pgTrail)
      BY <1>7, PgTailLen
    <2>2. Append(Postgres!TrailHead, op) \in Seq(Postgres!Writes) /\ Len(Append(Postgres!TrailHead, op)) = Len(pgTrail) + 1
      BY <1>2, <2>1
    <2>3. event \in PgEvent /\ Len(event.hash) = Len(pgTrail) + 1
      BY <1>2, <2>1, <2>2 DEF PgEvent
    <2>4. tenant.head \in Seq(Postgres!Writes) /\ tenant.count = Len(pgTrail) + 1 /\ Len(tenant.head) = tenant.count
      BY <1>2, <2>1, <2>2 DEF PgTrailOK
    <2> HIDE DEF event, tenant
    <2>5. pgTrail' \in Seq(PgEvent) /\ Len(pgTrail') = Len(pgTrail) + 1 /\ \A i \in DOMAIN pgTrail' : Len(pgTrail'[i].hash) = i
      BY <1>2, <1>7, <2>3 DEF PgTrailOK
    <2>6. PgTrailOK(pgTrail', pgTenant', pgCuts')
      BY <1>1, <1>7, <2>1, <2>4, <2>5 DEF PgTrailOK
    <2> QED BY <1>1, <1>3, <1>4, <1>5, <2>1, <2>6 DEF PgInv
  <1> QED BY <1>1, <1>6, <1>7

LEMMA PgCutInv ==
  ASSUME PgInv, Postgres!CutTrail PROVE PgInv' /\ Len(pgTrail') <= Len(pgTrail)
  <1>1. PICK n \in 0 .. Len(pgTrail) - 1 : pgTrail' = SubSeq(pgTrail, 1, n)
    BY DEF Postgres!CutTrail
  <1>2. pgCuts' = pgCuts + 1 /\ UNCHANGED <<pgGraph, pgTenant, pgLock, pgCall>>
    BY DEF Postgres!CutTrail
  <1>3. PgTrailOK(pgTrail, pgTenant, pgCuts)
    BY DEF PgInv
  <1>4. pgTrail \in Seq(PgEvent) /\ Len(pgTrail) \in Nat /\ n \in Nat /\ n < Len(pgTrail)
    BY <1>1, <1>3 DEF PgTrailOK
  <1>5. pgTrail' \in Seq(PgEvent) /\ Len(pgTrail') = n /\ \A i \in 1 .. n : pgTrail'[i] = pgTrail[i]
    BY <1>1, <1>4
  <1>6. PgTrailOK(pgTrail', pgTenant', pgCuts')
    BY <1>2, <1>3, <1>4, <1>5 DEF PgTrailOK
  <1> QED BY <1>2, <1>4, <1>5, <1>6 DEF PgInv

LEMMA PgNextInv ==
  ASSUME PgInv, [Postgres!PgNext]_PostgresVars PROVE PgInv'
  <1>1. CASE UNCHANGED PostgresVars
    BY <1>1 DEF PostgresVars, PgInv
  <1>2. CASE Postgres!PgNext
    BY <1>2, PgBeginInv, PgLockInv, PgLoadInv, PgCommits, PgRollBackInv, PgReadInv, PgCutInv DEF Postgres!PgNext
  <1> QED BY <1>1, <1>2

LEMMA PgGraphSteps ==
  ASSUME PgInv, Postgres!PgNext
  PROVE  /\ \A c \in PgCallers : pgGraph' # pgGraph /\ pgCall[c].at = "loaded" /\ pgCall'[c] = Postgres!Waiting =>
              Postgres!Allowed(pgCall[c].op, pgGraph) /\ pgGraph' = Postgres!Engine(pgCall[c].op, pgGraph)
         /\ pgCuts > 0 => Len(pgTrail') <= Len(pgTrail)
  <1>1. Len(pgTrail) \in Nat
    BY DEF PgInv, PgTrailOK
  <1>2. CASE pgGraph' = pgGraph /\ pgTrail' = pgTrail
    BY <1>1, <1>2
  <1>3. CASE Postgres!CutTrail
    BY <1>3, PgCutInv DEF Postgres!CutTrail
  <1>4. ASSUME NEW d \in PgCallers, Postgres!CommitWrite(d)
        PROVE  /\ \A c \in PgCallers : pgGraph' # pgGraph /\ pgCall[c].at = "loaded" /\ pgCall'[c] = Postgres!Waiting =>
                    Postgres!Allowed(pgCall[c].op, pgGraph) /\ pgGraph' = Postgres!Engine(pgCall[c].op, pgGraph)
               /\ pgCuts > 0 => Len(pgTrail') <= Len(pgTrail)
    <2>1. /\ Postgres!Allowed(pgCall[d].op, pgGraph) /\ pgGraph' = Postgres!Engine(pgCall[d].op, pgGraph)
          /\ pgCuts > 0 => pgTrail' = pgTrail
      BY <1>4, PgCommits
    <2>2. \A c \in PgCallers \ {d} : pgCall[c].at # "loaded"
      BY <1>4 DEF Postgres!CommitWrite, PgInv, PgCallOK
    <2> QED BY <1>1, <2>1, <2>2
  <1>5. \/ pgGraph' = pgGraph /\ pgTrail' = pgTrail
        \/ Postgres!CutTrail \/ \E d \in PgCallers : Postgres!CommitWrite(d)
    BY DEF Postgres!PgNext, Postgres!BeginWrite, Postgres!LockTenant, Postgres!LoadPart, Postgres!RollBack,
           Postgres!BeginRead, Postgres!ReadFacts, Postgres!EndRead
  <1> QED BY <1>2, <1>3, <1>4, <1>5

\* What a call leaves of a tenant's graph is what the engine would have made
\* of the whole, whoever else writes, although it read and wrote a part; and
\* a trail that lost events is never appended to (postgres-memory-store.ts).
THEOREM ServicesPartStandsForWhole == Spec => PartStandsForWhole
  <1> DEFINE Inv == part = "postgres" => PgInv
             Whole == \A c \in PgCallers : pgGraph' # pgGraph /\ pgCall[c].at = "loaded" /\ pgCall'[c] = Postgres!Waiting =>
                        Postgres!Allowed(pgCall[c].op, pgGraph) /\ pgGraph' = Postgres!Engine(pgCall[c].op, pgGraph)
             Shrinks == pgCuts > 0 => Len(pgTrail') <= Len(pgTrail)
  <1>1. Init => Inv
    BY PgInitInv DEF Init
  <1>2. Inv /\ [Next]_vars => Inv'
    BY OnePartMoves, PgNextInv
  <1>3. Inv /\ [Next]_vars => [Whole]_Postgres!pgVars /\ [Shrinks]_Postgres!pgVars
    <2> SUFFICES ASSUME Inv, [Next]_vars PROVE [Whole]_Postgres!pgVars /\ [Shrinks]_Postgres!pgVars
      OBVIOUS
    <2>1. CASE part # "postgres"
      <3>1. UNCHANGED PostgresVars
        BY <2>1 DEF Next, vars, Alone, TableMoves, OpeningMoves, PostgresMoves, SearchMoves, SignInMoves, TeamMoves, LangMoves,
                    ReleaseMoves, ImportMoves
      <3> QED BY <3>1 DEF PostgresVars, Postgres!pgVars
    <2>2. CASE part = "postgres"
      BY <2>2, OnePartMoves, PgGraphSteps DEF PostgresVars, Postgres!pgVars
    <2> QED BY <2>1, <2>2
  <1> HIDE DEF Inv, Whole, Shrinks
  <1>4. Spec => [][Whole]_Postgres!pgVars /\ [][Shrinks]_Postgres!pgVars
    BY <1>1, <1>2, <1>3, PTL DEF Spec
  <1> QED BY <1>4 DEF PartStandsForWhole, Postgres!PartStandsForWhole, Postgres!CutTrailStaysClosed, Whole, Shrinks

-----------------------------------------------------------------------------
(* The import of an artifact.                                              *)

PiStored == [PiStores -> [PiIds -> Seq(Import!Words)]]
PiSaid == [PiStores -> [PiLinks -> Import!Words]]
PiChecks == [at : {"preflight"}, item : Nat, skipped : SUBSET Nat, facts : PiStored, links : PiSaid]
PiWrites == [at : {"write"}, item : Nat, skipped : SUBSET Nat]

PiTypes ==
  /\ piArtifact \in PiArtifacts /\ piFacts \in PiStored /\ piLinks \in PiSaid
  /\ piRun \in {Import!PiIdle} \cup PiChecks \cup PiWrites
  /\ piRun # Import!PiIdle => piRun.item \in 1 .. Len(piArtifact) + 1 /\ piOutcome = "none"

\* Items of an artifact that bring this fact, or this link.
PiFactAt(a, n, s, i) == n \in DOMAIN a /\ a[n].kind = "fact" /\ a[n].store = s /\ a[n].id = i
PiLinkAt(a, n, s, l) == n \in DOMAIN a /\ a[n].kind # "fact" /\ a[n].store = s /\ a[n].id = l
PiComparable(t, u) == Import!IsPrefix(t, u) \/ Import!IsPrefix(u, t)

\* Of the copies of a fact before item k, the preflight has found: each is a
\* beginning of what will be there; what will be there is held already or is
\* one of those to be written; what is skipped is a beginning of what is held
\* or written before it; and what is written extends all before it.
PiFactChecked(a, s, i, k, skipped, held, pending) ==
  /\ \A n \in DOMAIN a : n < k /\ PiFactAt(a, n, s, i) => Import!IsPrefix(a[n].trail, pending)
  /\ pending # <<>> =>
       /\ Import!IsPrefix(held, pending)
       /\ \/ pending = held
          \/ \E n \in DOMAIN a : n < k /\ PiFactAt(a, n, s, i) /\ n \notin skipped /\ a[n].trail = pending
  /\ \A n \in DOMAIN a : n < k /\ PiFactAt(a, n, s, i) /\ n \in skipped =>
       \/ Import!IsPrefix(a[n].trail, held)
       \/ \E m \in DOMAIN a : m < n /\ PiFactAt(a, m, s, i) /\ m \notin skipped /\ Import!IsPrefix(a[n].trail, a[m].trail)
  /\ \A n \in DOMAIN a : n < k /\ PiFactAt(a, n, s, i) /\ n \notin skipped =>
       /\ Import!IsPrefix(held, a[n].trail)
       /\ \A m \in DOMAIN a : m < n /\ PiFactAt(a, m, s, i) /\ m \notin skipped => Import!IsPrefix(a[m].trail, a[n].trail)

\* Links before item k say what will be there, and what is there says the same.
PiLinkChecked(a, s, l, k, said, pending) ==
  /\ \A n \in DOMAIN a : n < k /\ PiLinkAt(a, n, s, l) => pending = a[n].says
  /\ pending # Import!NothingSaid =>
       /\ Import!Agrees(pending, said)
       /\ \E n \in DOMAIN a : n < k /\ PiLinkAt(a, n, s, l) /\ a[n].says = pending

\* The facts a link before item k names are held, or brought before it.
PiEnds(a, k, facts) ==
  \A n \in DOMAIN a : n < k /\ a[n].kind # "fact" => \A i \in a[n].ids :
    \/ facts[a[n].store][i] # <<>>
    \/ \E m \in DOMAIN a : m < n /\ PiFactAt(a, m, a[n].store, i)

\* Of the copies of a fact those before item k are written, or were skipped
\* and are there; and each that is still to be written extends what is there.
PiFactPlanned(a, s, i, k, skipped, held) ==
  /\ \A n \in DOMAIN a : n < k /\ PiFactAt(a, n, s, i) => Import!IsPrefix(a[n].trail, held)
  /\ \A n \in DOMAIN a : n >= k /\ PiFactAt(a, n, s, i) /\ n \notin skipped => Import!IsPrefix(held, a[n].trail)
  /\ \A m, n \in DOMAIN a : m < n /\ PiFactAt(a, m, s, i) /\ PiFactAt(a, n, s, i) /\ m \notin skipped /\ n \notin skipped =>
       Import!IsPrefix(a[m].trail, a[n].trail)
  /\ \A n \in DOMAIN a : PiFactAt(a, n, s, i) /\ n \in skipped =>
       \/ Import!IsPrefix(a[n].trail, held)
       \/ \E m \in DOMAIN a : m < n /\ PiFactAt(a, m, s, i) /\ m \notin skipped /\ Import!IsPrefix(a[n].trail, a[m].trail)

PiLinkPlanned(a, s, l, k, said) ==
  /\ \A n \in DOMAIN a : PiLinkAt(a, n, s, l) => Import!Agrees(a[n].says, said) /\ (n < k => said = a[n].says)
  /\ \A m, n \in DOMAIN a : PiLinkAt(a, m, s, l) /\ PiLinkAt(a, n, s, l) => a[m].says = a[n].says

\* The copies of a fact are points of one history, and so is what is held.
PiFactFits(a, s, i, held) ==
  /\ \A n \in DOMAIN a : PiFactAt(a, n, s, i) => PiComparable(a[n].trail, held)
  /\ \A m, n \in DOMAIN a : PiFactAt(a, m, s, i) /\ PiFactAt(a, n, s, i) => PiComparable(a[m].trail, a[n].trail)

\* What the preflight has found, what the writes rely on, and what a later
\* run will find, while nobody else writes.
PiChecked == piRun.at = "preflight" /\ ~piDisturbed =>
  /\ piRun.skipped \subseteq 1 .. piRun.item - 1
  /\ \A s \in PiStores, i \in PiIds :
       PiFactChecked(piArtifact, s, i, piRun.item, piRun.skipped, piFacts[s][i], piRun.facts[s][i])
  /\ \A s \in PiStores, l \in PiLinks :
       PiLinkChecked(piArtifact, s, l, piRun.item, piLinks[s][l], piRun.links[s][l])
  /\ PiEnds(piArtifact, piRun.item, piFacts)

PiPlanned == piRun.at = "write" /\ ~piDisturbed =>
  /\ \A s \in PiStores, i \in PiIds : PiFactPlanned(piArtifact, s, i, piRun.item, piRun.skipped, piFacts[s][i])
  /\ \A s \in PiStores, l \in PiLinks : PiLinkPlanned(piArtifact, s, l, piRun.item, piLinks[s][l])
  /\ PiEnds(piArtifact, Len(piArtifact) + 1, piFacts)

PiFits == piPassed =>
  /\ piRun # Import!PiIdle => ~piDisturbed
  /\ \A s \in PiStores, i \in PiIds : PiFactFits(piArtifact, s, i, piFacts[s][i])
  /\ \A s \in PiStores, l \in PiLinks : PiLinkPlanned(piArtifact, s, l, 1, piLinks[s][l])
  /\ PiEnds(piArtifact, Len(piArtifact) + 1, piFacts)

PiWhole == Import!PreflightFindsClashes /\ Import!DoneIsAllThere /\ Import!RerunGoesThrough

PiInv == PiTypes /\ PiChecked /\ PiPlanned /\ PiFits /\ PiWhole

LEMMA PiPrefixes ==
  /\ \A t \in Seq(Import!Words) : Import!IsPrefix(t, t) /\ Import!IsPrefix(<<>>, t)
  /\ \A t \in Seq(Import!Words) : Import!IsPrefix(t, <<>>) => t = <<>>
  /\ \A t, u, v \in Seq(Import!Words) : Import!IsPrefix(t, u) /\ Import!IsPrefix(u, v) => Import!IsPrefix(t, v)
  /\ \A t, u, v \in Seq(Import!Words) : Import!IsPrefix(t, v) /\ Import!IsPrefix(u, v) => PiComparable(t, u)
  <1>1. ASSUME NEW t \in Seq(Import!Words), NEW u \in Seq(Import!Words)
        PROVE  Import!IsPrefix(t, u) <=> Len(t) <= Len(u) /\ \A n \in 1 .. Len(t) : t[n] = u[n]
    <2>1. CASE Len(t) <= Len(u)
      <3>1. Len(t) \in Nat /\ Len(u) \in Nat /\ SubSeq(t, 1, Len(t)) \in Seq(Import!Words) /\ SubSeq(u, 1, Len(t)) \in Seq(Import!Words)
        BY <2>1
      <3>2. /\ Len(SubSeq(t, 1, Len(t))) = Len(t) /\ Len(SubSeq(u, 1, Len(t))) = Len(t)
            /\ \A n \in 1 .. Len(t) : SubSeq(t, 1, Len(t))[n] = t[n] /\ SubSeq(u, 1, Len(t))[n] = u[n]
        BY <2>1, <3>1
      <3>3. ASSUME \A n \in 1 .. Len(t) : t[n] = u[n]
            PROVE  SubSeq(t, 1, Len(t)) = SubSeq(u, 1, Len(t))
        BY <3>1, <3>2, <3>3, SeqEqual
      <3> QED BY <2>1, <3>2, <3>3 DEF Import!IsPrefix
    <2> QED BY <2>1 DEF Import!IsPrefix
  <1>2. \A t \in Seq(Import!Words) : Len(t) \in Nat /\ (Len(t) = 0 => t = <<>>)
    OBVIOUS
  <1>3. <<>> \in Seq(Import!Words) /\ Len(<<>>) = 0
    OBVIOUS
  <1>4. ASSUME NEW t \in Seq(Import!Words), NEW u \in Seq(Import!Words), NEW v \in Seq(Import!Words),
               Import!IsPrefix(t, u), Import!IsPrefix(u, v)
        PROVE  Import!IsPrefix(t, v)
    BY <1>1, <1>2, <1>4
  <1>5. ASSUME NEW t \in Seq(Import!Words), NEW u \in Seq(Import!Words), NEW v \in Seq(Import!Words),
               Import!IsPrefix(t, v), Import!IsPrefix(u, v)
        PROVE  PiComparable(t, u)
    BY <1>1, <1>2, <1>5 DEF PiComparable
  <1>6. ASSUME NEW t \in Seq(Import!Words)
        PROVE  /\ Import!IsPrefix(t, t) /\ Import!IsPrefix(<<>>, t)
               /\ Import!IsPrefix(t, <<>>) => t = <<>>
    <2>1. Import!IsPrefix(t, t)
      BY <1>1, <1>2
    <2>2. Import!IsPrefix(<<>>, t) <=> Len(<<>>) <= Len(t) /\ \A n \in 1 .. Len(<<>>) : <<>>[n] = t[n]
      BY <1>1, <1>3
    <2>3. Import!IsPrefix(t, <<>>) <=> Len(t) <= Len(<<>>) /\ \A n \in 1 .. Len(t) : t[n] = <<>>[n]
      BY <1>1, <1>3
    <2> QED BY <1>2, <1>3, <2>1, <2>2, <2>3
  <1> QED BY <1>4, <1>5, <1>6

LEMMA PiItems ==
  ASSUME NEW a \in PiArtifacts
  PROVE  /\ Len(a) \in Nat /\ DOMAIN a = 1 .. Len(a)
         /\ \A n \in DOMAIN a :
              /\ a[n].store \in PiStores /\ a[n].kind \in {"fact", "edge", "version"}
              /\ a[n].kind = "fact" => a[n].id \in PiIds /\ a[n].trail \in Seq(Import!Words) /\ a[n].trail # <<>>
              /\ a[n].kind # "fact" => /\ a[n].id \in PiLinks /\ a[n].ids \subseteq PiIds
                                       /\ a[n].says \in Import!Words /\ a[n].says # Import!NothingSaid
              /\ a[n].kind = "version" => \A i \in a[n].ids : \E m \in DOMAIN a : m < n /\ PiFactAt(a, m, a[n].store, i)
  <1>1. a \in Seq(Import!FactItem \cup Import!LinkItem)
    BY ServicesArtifacts
  <1>2. ASSUME NEW n \in DOMAIN a
        PROVE  /\ a[n].store \in PiStores /\ a[n].kind \in {"fact", "edge", "version"}
               /\ a[n].kind = "fact" => a[n].id \in PiIds /\ a[n].trail \in Seq(Import!Words) /\ a[n].trail # <<>>
               /\ a[n].kind # "fact" => /\ a[n].id \in PiLinks /\ a[n].ids \subseteq PiIds
                                        /\ a[n].says \in Import!Words /\ a[n].says # Import!NothingSaid
    <2>1. a[n] \in Import!FactItem \cup Import!LinkItem
      BY <1>1
    <2>2. CASE a[n] \in Import!FactItem
      BY <2>2 DEF Import!FactItem, Import!NoTrail
    <2>3. CASE a[n] \in Import!LinkItem
      BY <2>3 DEF Import!LinkItem
    <2> QED BY <2>1, <2>2, <2>3
  <1>3. ASSUME NEW n \in DOMAIN a, a[n].kind = "version", NEW i \in a[n].ids
        PROVE  \E m \in DOMAIN a : m < n /\ PiFactAt(a, m, a[n].store, i)
    <2>1. PICK m \in 1 .. n - 1 : a[m].kind = "fact" /\ a[m].store = a[n].store /\ a[m].id = i
      BY <1>3, ServicesArtifacts
    <2>2. m \in DOMAIN a /\ m < n
      BY <1>1, <2>1
    <2> QED BY <2>1, <2>2 DEF PiFactAt
  <1> QED BY <1>1, <1>2, <1>3

LEMMA PiPut ==
  ASSUME NEW A, NEW B, NEW C, NEW f \in [A -> [B -> C]], NEW s \in A, NEW i \in B, NEW c \in C,
         NEW g, g = [f EXCEPT ![s][i] = c]
  PROVE  /\ g \in [A -> [B -> C]] /\ g[s][i] = c
         /\ \A t \in A, j \in B : (t # s \/ j # i) => g[t][j] = f[t][j]
  OBVIOUS

\* An item of another fact changes nothing of what was found of this one.
LEMMA PiFactRests ==
  ASSUME NEW a \in PiArtifacts, NEW s, NEW i, NEW k \in Nat, ~PiFactAt(a, k, s, i), NEW skipped, NEW held, NEW pending,
         PiFactChecked(a, s, i, k, skipped, held, pending), NEW skips, skips \in {skipped, skipped \cup {k}}
  PROVE  PiFactChecked(a, s, i, k + 1, skips, held, pending)
  <1>1. \A n \in DOMAIN a : PiFactAt(a, n, s, i) => n # k /\ n \in Nat /\ (n < k + 1 <=> n < k) /\ (n \in skips <=> n \in skipped)
    BY PiItems
  <1> QED BY <1>1 DEF PiFactChecked

LEMMA PiFactFound ==
  ASSUME NEW a \in PiArtifacts, NEW s, NEW i, NEW k \in Nat, PiFactAt(a, k, s, i),
         NEW skipped, skipped \subseteq 1 .. k - 1, NEW held \in Seq(Import!Words), NEW pending \in Seq(Import!Words),
         PiFactChecked(a, s, i, k, skipped, held, pending),
         NEW now, now = IF pending # <<>> THEN pending ELSE held
  PROVE  /\ now # <<>> /\ Import!IsPrefix(a[k].trail, now) => PiFactChecked(a, s, i, k + 1, skipped \cup {k}, held, now)
         /\ Import!IsPrefix(now, a[k].trail) => PiFactChecked(a, s, i, k + 1, skipped, held, a[k].trail)
  <1> SUFFICES ASSUME NEW found, NEW skips,
                      \/ found = now /\ now # <<>> /\ Import!IsPrefix(a[k].trail, now) /\ skips = skipped \cup {k}
                      \/ found = a[k].trail /\ Import!IsPrefix(now, a[k].trail) /\ skips = skipped
               PROVE  PiFactChecked(a, s, i, k + 1, skips, held, found)
    OBVIOUS
  <1>1. /\ k \in DOMAIN a /\ k \notin skipped
        /\ \A n \in DOMAIN a : n \in Nat /\ (n < k + 1 <=> n < k \/ n = k) /\ (n # k => (n \in skips <=> n \in skipped))
    BY PiItems DEF PiFactAt
  <1>2. \A n \in DOMAIN a : PiFactAt(a, n, s, i) => a[n].trail \in Seq(Import!Words) /\ a[n].trail # <<>>
    BY PiItems DEF PiFactAt
  <1>3. now \in Seq(Import!Words) /\ a[k].trail \in Seq(Import!Words) /\ found \in Seq(Import!Words)
    BY <1>2, PiItems DEF PiFactAt
  <1>4. Import!IsPrefix(held, now) /\ Import!IsPrefix(now, found) /\ Import!IsPrefix(held, found)
    BY <1>3, PiPrefixes DEF PiFactChecked
  <1>5. \A n \in DOMAIN a : n < k /\ PiFactAt(a, n, s, i) => pending # <<>> /\ Import!IsPrefix(a[n].trail, pending) /\ Import!IsPrefix(a[n].trail, now)
    BY <1>2, PiPrefixes DEF PiFactChecked
  <1>6. \A n \in DOMAIN a : n < k + 1 /\ PiFactAt(a, n, s, i) => Import!IsPrefix(a[n].trail, found)
    BY <1>1, <1>2, <1>3, <1>4, <1>5, PiPrefixes
  <1>7. found # <<>> => \/ found = held
                        \/ \E n \in DOMAIN a : n < k + 1 /\ PiFactAt(a, n, s, i) /\ n \notin skips /\ a[n].trail = found
    <2>1. CASE skips = skipped
      BY <1>1, <2>1
    <2>2. CASE found = now /\ skips = skipped \cup {k}
      BY <1>1, <2>2 DEF PiFactChecked
    <2> QED BY <2>1, <2>2
  <1>8. ASSUME NEW n \in DOMAIN a, n < k + 1, PiFactAt(a, n, s, i), n \in skips
        PROVE  \/ Import!IsPrefix(a[n].trail, held)
               \/ \E m \in DOMAIN a : m < n /\ PiFactAt(a, m, s, i) /\ m \notin skips /\ Import!IsPrefix(a[n].trail, a[m].trail)
    <2>1. CASE n = k
      <3>1. Import!IsPrefix(a[n].trail, now)
        BY <1>1, <1>8, <2>1
      <3>2. CASE now = held
        BY <3>1, <3>2
      <3>3. CASE now = pending /\ pending # <<>> /\ pending # held
        <4>1. PICK m \in DOMAIN a : m < k /\ PiFactAt(a, m, s, i) /\ m \notin skipped /\ a[m].trail = pending
          BY <3>3 DEF PiFactChecked
        <4> QED BY <1>1, <2>1, <3>1, <3>3, <4>1
      <3> QED BY <3>2, <3>3
    <2>2. CASE n # k
      <3>1. n < k /\ n \in skipped
        BY <1>1, <1>8, <2>2
      <3>2. CASE Import!IsPrefix(a[n].trail, held)
        BY <3>2
      <3>3. CASE ~Import!IsPrefix(a[n].trail, held)
        <4>1. PICK m \in DOMAIN a : m < n /\ PiFactAt(a, m, s, i) /\ m \notin skipped /\ Import!IsPrefix(a[n].trail, a[m].trail)
          BY <1>8, <3>1, <3>3 DEF PiFactChecked
        <4>2. m # k
          BY <1>1, <3>1, <4>1
        <4> QED BY <1>1, <4>1, <4>2
      <3> QED BY <3>2, <3>3
    <2> QED BY <2>1, <2>2
  <1>9. ASSUME NEW n \in DOMAIN a, n < k + 1, PiFactAt(a, n, s, i), n \notin skips
        PROVE  /\ Import!IsPrefix(held, a[n].trail)
               /\ \A m \in DOMAIN a : m < n /\ PiFactAt(a, m, s, i) /\ m \notin skips => Import!IsPrefix(a[m].trail, a[n].trail)
    <2>1. CASE n = k
      <3>1. found = a[k].trail
        BY <1>1, <1>9, <2>1
      <3> QED BY <1>1, <1>4, <1>6, <2>1, <3>1
    <2>2. CASE n # k
      BY <1>1, <1>9, <2>2 DEF PiFactChecked
    <2> QED BY <2>1, <2>2
  <1> QED BY <1>4, <1>6, <1>7, <1>8, <1>9 DEF PiFactChecked

LEMMA PiLinkRests ==
  ASSUME NEW a \in PiArtifacts, NEW s, NEW l, NEW k \in Nat, ~PiLinkAt(a, k, s, l), NEW said, NEW pending,
         PiLinkChecked(a, s, l, k, said, pending)
  PROVE  PiLinkChecked(a, s, l, k + 1, said, pending)
  <1>1. \A n \in DOMAIN a : PiLinkAt(a, n, s, l) => n # k /\ n \in Nat /\ (n < k + 1 <=> n < k)
    BY PiItems
  <1> QED BY <1>1 DEF PiLinkChecked

LEMMA PiLinkFound ==
  ASSUME NEW a \in PiArtifacts, NEW s, NEW l, NEW k \in Nat, PiLinkAt(a, k, s, l), NEW said, NEW pending,
         PiLinkChecked(a, s, l, k, said, pending), Import!Agrees(a[k].says, pending), Import!Agrees(a[k].says, said)
  PROVE  PiLinkChecked(a, s, l, k + 1, said, a[k].says)
  <1>1. /\ k \in DOMAIN a /\ a[k].says # Import!NothingSaid
        /\ \A n \in DOMAIN a : n \in Nat /\ (n < k + 1 <=> n < k \/ n = k)
    BY PiItems DEF PiLinkAt
  <1>2. \A n \in DOMAIN a : PiLinkAt(a, n, s, l) => a[n].says # Import!NothingSaid
    BY PiItems DEF PiLinkAt
  <1>3. \A n \in DOMAIN a : n < k /\ PiLinkAt(a, n, s, l) => a[n].says = a[k].says
    BY <1>2 DEF PiLinkChecked, Import!Agrees
  <1> QED BY <1>1, <1>3 DEF PiLinkChecked

LEMMA PiEndsFound ==
  ASSUME NEW a \in PiArtifacts, NEW k \in Nat, NEW facts, PiEnds(a, k, facts),
         k \in DOMAIN a /\ a[k].kind # "fact" => \A i \in a[k].ids :
           \/ facts[a[k].store][i] # <<>>
           \/ \E m \in DOMAIN a : m < k /\ PiFactAt(a, m, a[k].store, i)
  PROVE  PiEnds(a, k + 1, facts)
  <1>1. \A n \in DOMAIN a : n \in Nat /\ (n < k + 1 <=> n < k \/ n = k)
    BY PiItems
  <1> QED BY <1>1 DEF PiEnds

LEMMA PiEndsGrow ==
  ASSUME NEW a \in PiArtifacts, NEW k, NEW facts, PiEnds(a, k, facts), NEW grown,
         \A s \in PiStores, i \in PiIds : facts[s][i] # <<>> => grown[s][i] # <<>>
  PROVE  PiEnds(a, k, grown)
  <1>1. \A n \in DOMAIN a : a[n].kind # "fact" => a[n].store \in PiStores /\ a[n].ids \subseteq PiIds
    BY PiItems
  <1> QED BY <1>1 DEF PiEnds

\* What has passed the preflight is fit to be written, and to be imported again.
LEMMA PiFactPasses ==
  ASSUME NEW a \in PiArtifacts, NEW s, NEW i, NEW k \in Nat, k = Len(a) + 1, NEW skipped,
         NEW held \in Seq(Import!Words), NEW pending \in Seq(Import!Words), PiFactChecked(a, s, i, k, skipped, held, pending)
  PROVE  PiFactPlanned(a, s, i, 1, skipped, held) /\ PiFactFits(a, s, i, held)
  <1>1. \A n \in DOMAIN a : n \in Nat /\ n < k /\ ~(n < 1)
    BY PiItems
  <1>2. \A n \in DOMAIN a : PiFactAt(a, n, s, i) => a[n].trail \in Seq(Import!Words) /\ a[n].trail # <<>> /\ Import!IsPrefix(a[n].trail, pending)
    BY <1>1, PiItems DEF PiFactAt, PiFactChecked
  <1>3. \A n \in DOMAIN a : PiFactAt(a, n, s, i) => Import!IsPrefix(held, pending)
    BY <1>2, PiPrefixes DEF PiFactChecked
  <1>4. PiFactPlanned(a, s, i, 1, skipped, held)
    BY <1>1 DEF PiFactPlanned, PiFactChecked
  <1>5. PiFactFits(a, s, i, held)
    BY <1>2, <1>3, PiPrefixes DEF PiFactFits
  <1> QED BY <1>4, <1>5

LEMMA PiLinkPasses ==
  ASSUME NEW a \in PiArtifacts, NEW s, NEW l, NEW k \in Nat, k = Len(a) + 1, NEW said, NEW pending,
         PiLinkChecked(a, s, l, k, said, pending)
  PROVE  PiLinkPlanned(a, s, l, 1, said)
  <1>1. \A n \in DOMAIN a : n \in Nat /\ n < k /\ ~(n < 1)
    BY PiItems
  <1>2. \A n \in DOMAIN a : PiLinkAt(a, n, s, l) => a[n].says # Import!NothingSaid
    BY PiItems DEF PiLinkAt
  <1> QED BY <1>1, <1>2 DEF PiLinkPlanned, PiLinkChecked

LEMMA PiFactWaits ==
  ASSUME NEW a \in PiArtifacts, NEW s, NEW i, NEW k \in Nat, ~PiFactAt(a, k, s, i), NEW skipped, NEW held,
         PiFactPlanned(a, s, i, k, skipped, held)
  PROVE  PiFactPlanned(a, s, i, k + 1, skipped, held)
  <1>1. \A n \in DOMAIN a : PiFactAt(a, n, s, i) => n # k /\ n \in Nat /\ (n < k + 1 <=> n < k) /\ (n >= k + 1 <=> n >= k)
    BY PiItems
  <1> QED BY <1>1 DEF PiFactPlanned

LEMMA PiFactWritten ==
  ASSUME NEW a \in PiArtifacts, NEW s, NEW i, NEW k \in Nat, PiFactAt(a, k, s, i), NEW skipped, NEW held \in Seq(Import!Words),
         PiFactPlanned(a, s, i, k, skipped, held),
         NEW now, (k \in skipped /\ now = held) \/ (k \notin skipped /\ now = a[k].trail)
  PROVE  /\ PiFactPlanned(a, s, i, k + 1, skipped, now)
         /\ k \notin skipped => Import!IsPrefix(held, a[k].trail)
  <1>1. /\ k \in DOMAIN a
        /\ \A n \in DOMAIN a : n \in Nat /\ (n < k + 1 <=> n < k \/ n = k) /\ (n >= k + 1 <=> n > k) /\ (n > k => n >= k /\ k < n)
    BY PiItems DEF PiFactAt
  <1>2. \A n \in DOMAIN a : PiFactAt(a, n, s, i) => a[n].trail \in Seq(Import!Words)
    BY PiItems DEF PiFactAt
  <1>3. k \notin skipped => Import!IsPrefix(held, a[k].trail)
    BY <1>1 DEF PiFactPlanned
  <1>4. now \in Seq(Import!Words) /\ Import!IsPrefix(held, now)
    BY <1>1, <1>2, <1>3, PiPrefixes
  <1>5. Import!IsPrefix(a[k].trail, now)
    <2>1. CASE k \in skipped
      <3>1. CASE Import!IsPrefix(a[k].trail, held)
        BY <2>1, <3>1
      <3>2. CASE ~Import!IsPrefix(a[k].trail, held)
        <4>1. PICK m \in DOMAIN a : m < k /\ PiFactAt(a, m, s, i) /\ Import!IsPrefix(a[k].trail, a[m].trail)
          BY <1>1, <2>1, <3>2 DEF PiFactPlanned
        <4>2. Import!IsPrefix(a[m].trail, held)
          BY <4>1 DEF PiFactPlanned
        <4> QED BY <1>1, <1>2, <3>2, <4>1, <4>2, PiPrefixes
      <3> QED BY <3>1, <3>2
    <2>2. CASE k \notin skipped
      BY <1>1, <1>2, <2>2, PiPrefixes
    <2> QED BY <2>1, <2>2
  <1>6. \A n \in DOMAIN a : n < k + 1 /\ PiFactAt(a, n, s, i) => Import!IsPrefix(a[n].trail, now)
    BY <1>1, <1>2, <1>4, <1>5, PiPrefixes DEF PiFactPlanned
  <1>7. \A n \in DOMAIN a : n >= k + 1 /\ PiFactAt(a, n, s, i) /\ n \notin skipped => Import!IsPrefix(now, a[n].trail)
    <2>1. CASE k \in skipped
      BY <1>1, <2>1 DEF PiFactPlanned
    <2>2. CASE k \notin skipped
      BY <1>1, <2>2 DEF PiFactPlanned
    <2> QED BY <2>1, <2>2
  <1>8. \A n \in DOMAIN a : PiFactAt(a, n, s, i) /\ n \in skipped =>
          \/ Import!IsPrefix(a[n].trail, now)
          \/ \E m \in DOMAIN a : m < n /\ PiFactAt(a, m, s, i) /\ m \notin skipped /\ Import!IsPrefix(a[n].trail, a[m].trail)
    BY <1>2, <1>4, PiPrefixes DEF PiFactPlanned
  <1>9. \A m, n \in DOMAIN a : m < n /\ PiFactAt(a, m, s, i) /\ PiFactAt(a, n, s, i) /\ m \notin skipped /\ n \notin skipped =>
          Import!IsPrefix(a[m].trail, a[n].trail)
    BY DEF PiFactPlanned
  <1> QED BY <1>3, <1>6, <1>7, <1>8, <1>9 DEF PiFactPlanned

LEMMA PiFactStaysFit ==
  ASSUME NEW a \in PiArtifacts, NEW s, NEW i, NEW k, PiFactAt(a, k, s, i), NEW held, PiFactFits(a, s, i, held)
  PROVE  PiFactFits(a, s, i, a[k].trail)
  BY DEF PiFactFits, PiFactAt

LEMMA PiLinkWaits ==
  ASSUME NEW a \in PiArtifacts, NEW s, NEW l, NEW k \in Nat, ~PiLinkAt(a, k, s, l), NEW said,
         PiLinkPlanned(a, s, l, k, said)
  PROVE  PiLinkPlanned(a, s, l, k + 1, said)
  <1>1. \A n \in DOMAIN a : PiLinkAt(a, n, s, l) => n # k /\ n \in Nat /\ (n < k + 1 <=> n < k)
    BY PiItems
  <1> QED BY <1>1 DEF PiLinkPlanned

LEMMA PiLinkWritten ==
  ASSUME NEW a \in PiArtifacts, NEW s, NEW l, NEW k, PiLinkAt(a, k, s, l), NEW said, NEW j,
         PiLinkPlanned(a, s, l, j, said), NEW next
  PROVE  PiLinkPlanned(a, s, l, next, a[k].says)
  BY DEF PiLinkPlanned, PiLinkAt, Import!Agrees

LEMMA PiInitInv == Import!PiInit => PiInv
  <1> SUFFICES ASSUME Import!PiInit PROVE PiInv
    OBVIOUS
  <1>1. piFacts \in PiStored
    BY ServicesArtifacts DEF Import!PiInit, PiStored
  <1>2. PiTypes
    <2>1. piLinks \in PiSaid
      <3>1. Import!NothingSaid \in Import!Words
        BY DEF Import!Words
      <3> QED BY <3>1 DEF Import!PiInit, PiSaid
    <2>2. piArtifact \in PiArtifacts /\ piRun = Import!PiIdle
      BY DEF Import!PiInit
    <2> QED BY <1>1, <2>1, <2>2 DEF PiTypes
  <1>3. PiChecked /\ PiPlanned
    BY DEF Import!PiInit, Import!PiIdle, PiChecked, PiPlanned
  <1>4. PiFits /\ PiWhole
    BY DEF Import!PiInit, PiFits, PiWhole, Import!PreflightFindsClashes, Import!DoneIsAllThere, Import!RerunGoesThrough
  <1> QED BY <1>2, <1>3, <1>4 DEF PiInv

\* An import ends, in one way or another.
LEMMA PiEnded ==
  ASSUME PiInv, NEW outcome, Import!Ends(outcome), UNCHANGED <<piFacts, piLinks>>,
         outcome = "clashed" => piDisturbed, outcome = "refused" => ~piPassed,
         outcome = "done" /\ ~piDisturbed =>
           /\ \A n \in DOMAIN piArtifact : piArtifact[n].kind = "fact" =>
                Import!IsPrefix(piArtifact[n].trail, piFacts[piArtifact[n].store][piArtifact[n].id])
           /\ \A n \in DOMAIN piArtifact : piArtifact[n].kind # "fact" =>
                piLinks[piArtifact[n].store][piArtifact[n].id] = piArtifact[n].says
  PROVE  PiInv'
  <1>1. /\ piRun' = Import!PiIdle /\ piOutcome' = outcome
        /\ piArtifact' = piArtifact /\ piFacts' = piFacts /\ piLinks' = piLinks
        /\ piDisturbed' = piDisturbed /\ piPassed' = piPassed
    BY DEF Import!Ends
  <1>2. PiTypes'
    BY <1>1 DEF PiInv, PiTypes
  <1>3. PiChecked' /\ PiPlanned'
    BY <1>1 DEF PiChecked, PiPlanned, Import!PiIdle
  <1>4. PiFits'
    BY <1>1 DEF PiInv, PiFits
  <1>5. PiWhole'
    BY <1>1 DEF PiWhole, Import!PreflightFindsClashes, Import!DoneIsAllThere, Import!RerunGoesThrough, Import!Items
  <1> QED BY <1>2, <1>3, <1>4, <1>5 DEF PiInv

LEMMA PiBeginInv == PiInv /\ Import!BeginImport => PiInv'
  <1> SUFFICES ASSUME PiInv, Import!BeginImport PROVE PiInv'
    OBVIOUS
  <1> DEFINE none == Import!NothingPending
  <1>1. /\ piRun' = [at |-> "preflight", item |-> 1, skipped |-> {}, facts |-> none.facts, links |-> none.links]
        /\ piDisturbed' = FALSE /\ piOutcome' = "none" /\ piPassed' = piPassed
        /\ piArtifact' = piArtifact /\ piFacts' = piFacts /\ piLinks' = piLinks
    BY DEF Import!BeginImport
  <1>2. /\ none.facts \in PiStored /\ none.links \in PiSaid
        /\ \A s \in PiStores, i \in PiIds : none.facts[s][i] = <<>>
        /\ \A s \in PiStores, l \in PiLinks : none.links[s][l] = Import!NothingSaid
    <2> DEFINE F == [s \in PiStores |-> [i \in PiIds |-> <<>>]]
               L == [s \in PiStores |-> [l \in PiLinks |-> Import!NothingSaid]]
    <2>1. none.facts = F /\ none.links = L
      BY DEF Import!NothingPending, Import!NoTrail
    <2>2. F \in PiStored /\ \A s \in PiStores, i \in PiIds : F[s][i] = <<>>
      BY DEF PiStored
    <2>3. L \in PiSaid /\ \A s \in PiStores, l \in PiLinks : L[s][l] = Import!NothingSaid
      <3>1. Import!NothingSaid \in Import!Words
        BY DEF Import!Words
      <3> QED BY <3>1 DEF PiSaid
    <2> HIDE DEF F, L, none
    <2> QED BY <2>1, <2>2, <2>3
  <1> HIDE DEF none
  <1>3. /\ piRun' \in PiChecks /\ piRun'.at = "preflight" /\ piRun'.item = 1 /\ piRun'.skipped = {}
        /\ piRun'.facts = none.facts /\ piRun'.links = none.links
    BY <1>1, <1>2 DEF PiChecks
  <1>4. /\ piArtifact \in PiArtifacts /\ Len(piArtifact) \in Nat
        /\ \A n \in DOMAIN piArtifact : n \in Nat /\ ~(n < 1)
    BY PiItems DEF PiInv, PiTypes
  <1>5. PiTypes'
    BY <1>1, <1>3, <1>4 DEF PiInv, PiTypes
  <1>6. PiChecked'
    <2>1. \A s \in PiStores, i \in PiIds : PiFactChecked(piArtifact, s, i, 1, {}, piFacts[s][i], none.facts[s][i])
      BY <1>2, <1>4 DEF PiFactChecked
    <2>2. \A s \in PiStores, l \in PiLinks : PiLinkChecked(piArtifact, s, l, 1, piLinks[s][l], none.links[s][l])
      BY <1>2, <1>4 DEF PiLinkChecked
    <2>3. PiEnds(piArtifact, 1, piFacts)
      BY <1>4 DEF PiEnds
    <2> QED BY <1>1, <1>3, <2>1, <2>2, <2>3 DEF PiChecked
  <1>7. PiPlanned'
    BY <1>3 DEF PiPlanned
  <1>8. PiFits'
    BY <1>1 DEF PiInv, PiFits
  <1>9. PiWhole'
    BY <1>1 DEF PiWhole, Import!PreflightFindsClashes, Import!DoneIsAllThere, Import!RerunGoesThrough
  <1> QED BY <1>5, <1>6, <1>7, <1>8, <1>9 DEF PiInv

\* The preflight passes an item.
LEMMA PiOneChecked ==
  ASSUME PiInv, piRun.item \in DOMAIN piArtifact,
         piRun' \in PiChecks, piRun'.item = piRun.item + 1,
         piRun # Import!PiIdle,
         UNCHANGED <<piArtifact, piFacts, piLinks, piOutcome, piDisturbed, piPassed>>,
         ~piDisturbed =>
           /\ piRun'.skipped \subseteq 1 .. piRun.item
           /\ \A s \in PiStores, i \in PiIds :
                PiFactChecked(piArtifact, s, i, piRun.item + 1, piRun'.skipped, piFacts[s][i], piRun'.facts[s][i])
           /\ \A s \in PiStores, l \in PiLinks :
                PiLinkChecked(piArtifact, s, l, piRun.item + 1, piLinks[s][l], piRun'.links[s][l])
           /\ PiEnds(piArtifact, piRun.item + 1, piFacts)
  PROVE  PiInv'
  <1>1. /\ piArtifact' = piArtifact /\ piFacts' = piFacts /\ piLinks' = piLinks
        /\ piOutcome' = piOutcome /\ piDisturbed' = piDisturbed /\ piPassed' = piPassed
    OBVIOUS
  <1>2. piRun'.at = "preflight" /\ piRun' # Import!PiIdle
    BY DEF PiChecks, Import!PiIdle
  <1>3. piOutcome = "none" /\ Len(piArtifact) \in Nat /\ piRun.item \in 1 .. Len(piArtifact)
    BY PiItems DEF PiInv, PiTypes
  <1>4. PiTypes'
    BY <1>1, <1>3 DEF PiInv, PiTypes
  <1>5. PiChecked'
    <2>1. piRun'.item - 1 = piRun.item /\ piRun'.item = piRun.item + 1
      BY <1>3
    <2>2. ASSUME ~piDisturbed
          PROVE  /\ piRun'.skipped \subseteq 1 .. piRun'.item - 1
                 /\ \A s \in PiStores, i \in PiIds :
                      PiFactChecked(piArtifact, s, i, piRun'.item, piRun'.skipped, piFacts[s][i], piRun'.facts[s][i])
                 /\ \A s \in PiStores, l \in PiLinks :
                      PiLinkChecked(piArtifact, s, l, piRun'.item, piLinks[s][l], piRun'.links[s][l])
                 /\ PiEnds(piArtifact, piRun'.item, piFacts)
      BY <2>1, <2>2
    <2> QED BY <1>1, <2>2 DEF PiChecked
  <1>6. PiPlanned'
    BY <1>2 DEF PiPlanned
  <1>7. PiFits'
    BY <1>1 DEF PiInv, PiFits
  <1>8. PiWhole'
    BY <1>1, <1>3 DEF PiWhole, Import!PreflightFindsClashes, Import!DoneIsAllThere, Import!RerunGoesThrough
  <1> QED BY <1>4, <1>5, <1>6, <1>7, <1>8 DEF PiInv

LEMMA PiCheckFactInv == PiInv /\ Import!CheckFact => PiInv'
  <1> SUFFICES ASSUME PiInv, Import!CheckFact,
                      NEW a, a = piArtifact, NEW k, k = piRun.item, NEW s, s = a[k].store, NEW i, i = a[k].id,
                      NEW t, t = a[k].trail, NEW pending, pending = piRun.facts[s][i], NEW held, held = piFacts[s][i],
                      NEW now, now = IF pending # <<>> THEN pending ELSE held
               PROVE  PiInv'
    OBVIOUS
  <1>0. /\ a \in PiArtifacts /\ piRun \in PiChecks /\ k \in Nat /\ PiFactAt(a, k, s, i)
        /\ s \in PiStores /\ i \in PiIds /\ t \in Seq(Import!Words) /\ pending \in Seq(Import!Words) /\ held \in Seq(Import!Words)
        /\ UNCHANGED <<piFacts, piLinks>>
        /\ \/ /\ Import!Ends("refused") /\ ~Import!IsPrefix(now, t)
              /\ ~(now # <<>> /\ Import!IsPrefix(t, now) /\ t # now)
           \/ /\ UNCHANGED <<piArtifact, piOutcome, piDisturbed, piPassed>>
              /\ piRun' \in PiChecks /\ piRun'.item = k + 1 /\ piRun'.links = piRun.links
              /\ \A r \in PiStores, j \in PiIds : (r # s \/ j # i) => piRun'.facts[r][j] = piRun.facts[r][j]
              /\ \/ /\ piRun'.facts[s][i] = now /\ now # <<>> /\ Import!IsPrefix(t, now)
                    /\ piRun'.skipped = piRun.skipped \cup {k}
                 \/ piRun'.facts[s][i] = t /\ Import!IsPrefix(now, t) /\ piRun'.skipped = piRun.skipped
    <2>0. PiTypes
      BY DEF PiInv
    <2>1. piRun.at = "preflight" /\ k \in DOMAIN a /\ a[k].kind = "fact"
      BY DEF Import!CheckFact, Import!AtItem, Import!Items
    <2>2. piRun \in PiChecks
      BY <2>0, <2>1 DEF PiTypes, PiWrites, Import!PiIdle
    <2>3. /\ a \in PiArtifacts /\ k \in Nat /\ PiFactAt(a, k, s, i)
          /\ s \in PiStores /\ i \in PiIds /\ t \in Seq(Import!Words)
      BY <2>0, <2>1, <2>2, PiItems DEF PiTypes, PiChecks, PiFactAt
    <2>4. piRun.facts \in PiStored /\ piFacts \in PiStored /\ piRun.skipped \in SUBSET Nat /\ piRun.links \in PiSaid
      BY <2>0, <2>2 DEF PiTypes, PiChecks
    <2>5. pending \in Seq(Import!Words) /\ held \in Seq(Import!Words) /\ now \in Seq(Import!Words)
      BY <2>3, <2>4 DEF PiStored
    <2>6. Import!PendingOr(s, i) = now
      BY DEF Import!PendingOr, Import!NoTrail
    <2>7. /\ UNCHANGED <<piFacts, piLinks>>
          /\ \/ /\ Import!Ends("refused") /\ ~Import!IsPrefix(now, t)
                /\ ~(now # <<>> /\ Import!IsPrefix(t, now) /\ t # now)
             \/ /\ UNCHANGED <<piArtifact, piOutcome, piDisturbed, piPassed>>
                /\ \/ /\ now # <<>> /\ Import!IsPrefix(t, now)
                      /\ piRun' = [piRun EXCEPT !.item = @ + 1, !.facts[s][i] = now, !.skipped = @ \cup {piRun.item}]
                   \/ /\ Import!IsPrefix(now, t)
                      /\ piRun' = [piRun EXCEPT !.item = @ + 1, !.facts[s][i] = t, !.skipped = @]
      BY ZenonT(30), <2>6 DEF Import!CheckFact, Import!OlderCopy, Import!Restorable, Import!IsStrictPrefix, Import!NoTrail
    <2>8. ASSUME NEW q \in Seq(Import!Words), NEW skips \in SUBSET Nat,
                 piRun' = [piRun EXCEPT !.item = @ + 1, !.facts[s][i] = q, !.skipped = skips]
          PROVE  /\ piRun' \in PiChecks /\ piRun'.item = k + 1 /\ piRun'.links = piRun.links
                 /\ piRun'.facts[s][i] = q /\ piRun'.skipped = skips
                 /\ \A r \in PiStores, j \in PiIds : (r # s \/ j # i) => piRun'.facts[r][j] = piRun.facts[r][j]
      <3> DEFINE F == [piRun.facts EXCEPT ![s][i] = q]
      <3>1. piRun' = [piRun EXCEPT !.item = @ + 1, !.facts = F, !.skipped = skips]
        BY <2>8
      <3>2. /\ F \in PiStored /\ F[s][i] = q
            /\ \A r \in PiStores, j \in PiIds : (r # s \/ j # i) => F[r][j] = piRun.facts[r][j]
        BY <2>3, <2>4 DEF PiStored
      <3> HIDE DEF F
      <3>3. piRun' = [at |-> "preflight", item |-> k + 1, skipped |-> skips, facts |-> F, links |-> piRun.links]
        BY <2>2, <3>1 DEF PiChecks
      <3>4. /\ piRun' \in PiChecks /\ piRun'.item = k + 1 /\ piRun'.links = piRun.links
            /\ piRun'.facts = F /\ piRun'.skipped = skips
        <4> DEFINE next == k + 1
                   links == piRun.links
        <4>1. next \in Nat /\ links \in PiSaid
          <5>1. k \in Nat
            BY <2>3
          <5>2. links \in PiSaid
            BY <2>4
          <5> HIDE DEF links
          <5> QED BY <5>1, <5>2
        <4>2. piRun' = [at |-> "preflight", item |-> next, skipped |-> skips, facts |-> F, links |-> links]
          BY <3>3
        <4> HIDE DEF next, links
        <4>3. piRun'.item = next /\ piRun'.links = links /\ piRun'.facts = F /\ piRun'.skipped = skips
          BY <4>2, Zenon
        <4>4. piRun' \in PiChecks
          BY <3>2, <4>1, <4>2 DEF PiChecks
        <4> QED BY <4>3, <4>4 DEF next, links
      <3> QED BY <3>2, <3>4
    <2>9. piRun.skipped \cup {k} \in SUBSET Nat
      BY <2>3, <2>4
    <2> DEFINE Refuses == Import!Ends("refused") /\ ~Import!IsPrefix(now, t) /\ ~(now # <<>> /\ Import!IsPrefix(t, now) /\ t # now)
               Finds == /\ UNCHANGED <<piArtifact, piOutcome, piDisturbed, piPassed>>
                        /\ piRun' \in PiChecks /\ piRun'.item = k + 1 /\ piRun'.links = piRun.links
                        /\ \A r \in PiStores, j \in PiIds : (r # s \/ j # i) => piRun'.facts[r][j] = piRun.facts[r][j]
                        /\ \/ /\ piRun'.facts[s][i] = now /\ now # <<>> /\ Import!IsPrefix(t, now)
                              /\ piRun'.skipped = piRun.skipped \cup {k}
                           \/ piRun'.facts[s][i] = t /\ Import!IsPrefix(now, t) /\ piRun'.skipped = piRun.skipped
    <2>10. ASSUME UNCHANGED <<piArtifact, piOutcome, piDisturbed, piPassed>>, now # <<>>, Import!IsPrefix(t, now),
                 piRun' = [piRun EXCEPT !.item = @ + 1, !.facts[s][i] = now, !.skipped = @ \cup {piRun.item}]
           PROVE  Finds
      <3>1. piRun' = [piRun EXCEPT !.item = @ + 1, !.facts[s][i] = now, !.skipped = piRun.skipped \cup {k}]
        BY ZenonT(30), <2>10
      <3>2. /\ piRun' \in PiChecks /\ piRun'.item = k + 1 /\ piRun'.links = piRun.links
            /\ piRun'.facts[s][i] = now /\ piRun'.skipped = piRun.skipped \cup {k}
            /\ \A r \in PiStores, j \in PiIds : (r # s \/ j # i) => piRun'.facts[r][j] = piRun.facts[r][j]
        BY ZenonT(30), <2>5, <2>8, <2>9, <3>1
      <3> QED BY ZenonT(30), <2>10, <3>2
    <2>11. ASSUME UNCHANGED <<piArtifact, piOutcome, piDisturbed, piPassed>>, Import!IsPrefix(now, t),
                 piRun' = [piRun EXCEPT !.item = @ + 1, !.facts[s][i] = t, !.skipped = @]
           PROVE  Finds
      <3>1. piRun' = [piRun EXCEPT !.item = @ + 1, !.facts[s][i] = t, !.skipped = piRun.skipped]
        BY ZenonT(30), <2>11
      <3>2. /\ piRun' \in PiChecks /\ piRun'.item = k + 1 /\ piRun'.links = piRun.links
            /\ piRun'.facts[s][i] = t /\ piRun'.skipped = piRun.skipped
            /\ \A r \in PiStores, j \in PiIds : (r # s \/ j # i) => piRun'.facts[r][j] = piRun.facts[r][j]
        BY ZenonT(30), <2>3, <2>4, <2>8, <3>1
      <3> QED BY ZenonT(30), <2>11, <3>2
    <2>12. Refuses \/ Finds
      BY ZenonT(30), <2>7, <2>10, <2>11
    <2> QED BY ZenonT(30), <2>2, <2>3, <2>5, <2>7, <2>12
  <1>1. /\ a \in PiArtifacts /\ piRun \in PiChecks /\ k \in Nat /\ PiFactAt(a, k, s, i)
        /\ s \in PiStores /\ i \in PiIds /\ t \in Seq(Import!Words) /\ pending \in Seq(Import!Words) /\ held \in Seq(Import!Words)
        /\ piFacts' = piFacts /\ piLinks' = piLinks
    BY ZenonT(30), <1>0
  <1>2. piRun.at = "preflight" /\ piRun # Import!PiIdle /\ k \in DOMAIN a /\ a[k].kind = "fact"
    <2>1. piRun.at = "preflight"
      BY <1>1 DEF PiChecks
    <2> QED BY <1>1, <2>1 DEF Import!PiIdle, PiFactAt
  <1>3. ~piDisturbed =>
          /\ piRun.skipped \subseteq 1 .. k - 1
          /\ \A r \in PiStores, j \in PiIds :
               PiFactChecked(a, r, j, k, piRun.skipped, piFacts[r][j], piRun.facts[r][j])
          /\ \A r \in PiStores, l \in PiLinks : PiLinkChecked(a, r, l, k, piLinks[r][l], piRun.links[r][l])
          /\ PiEnds(a, k, piFacts)
    BY <1>2 DEF PiInv, PiChecked
  <1>4. now = IF pending # <<>> THEN pending ELSE held
    OBVIOUS
  <1>5. CASE /\ Import!Ends("refused") /\ ~Import!IsPrefix(now, t)
             /\ ~(now # <<>> /\ Import!IsPrefix(t, now) /\ t # now)
    <2>1. ASSUME piPassed PROVE FALSE
      <3>1. ~piDisturbed /\ PiFactFits(a, s, i, held)
        BY <1>1, <1>2, <2>1 DEF PiInv, PiFits
      <3>2. PiFactChecked(a, s, i, k, piRun.skipped, held, pending)
        BY ZenonT(30), <1>1, <1>3, <3>1
      <3>3. now = held \/ \E n \in DOMAIN a : PiFactAt(a, n, s, i) /\ a[n].trail = now
        BY <1>4, <3>2 DEF PiFactChecked
      <3>4. PiComparable(t, now)
        BY ZenonT(30), <1>1, <1>2, <3>1, <3>3 DEF PiFactFits
      <3>5. Import!IsPrefix(t, now) /\ (now = <<>> \/ t = now)
        BY ZenonT(30), <1>5, <3>4 DEF PiComparable
      <3>6. now = <<>> => t = <<>>
        BY ZenonT(30), <1>1, <3>5, PiPrefixes
      <3>7. Import!IsPrefix(t, t)
        BY <1>1, PiPrefixes
      <3> QED BY ZenonT(30), <1>5, <3>5, <3>6, <3>7
    <2> QED BY ZenonT(30), <1>1, <1>5, <2>1, PiEnded
  <1>6. CASE /\ UNCHANGED <<piArtifact, piOutcome, piDisturbed, piPassed>>
             /\ piRun' \in PiChecks /\ piRun'.item = k + 1 /\ piRun'.links = piRun.links
             /\ \A r \in PiStores, j \in PiIds : (r # s \/ j # i) => piRun'.facts[r][j] = piRun.facts[r][j]
             /\ \/ /\ piRun'.facts[s][i] = now /\ now # <<>> /\ Import!IsPrefix(t, now)
                   /\ piRun'.skipped = piRun.skipped \cup {k}
                \/ piRun'.facts[s][i] = t /\ Import!IsPrefix(now, t) /\ piRun'.skipped = piRun.skipped
    <2>1. ASSUME ~piDisturbed
          PROVE  /\ piRun'.skipped \subseteq 1 .. k
                 /\ \A r \in PiStores, j \in PiIds :
                      PiFactChecked(a, r, j, k + 1, piRun'.skipped, piFacts[r][j], piRun'.facts[r][j])
                 /\ \A r \in PiStores, l \in PiLinks :
                      PiLinkChecked(a, r, l, k + 1, piLinks[r][l], piRun'.links[r][l])
                 /\ PiEnds(a, k + 1, piFacts)
      <3>1. piRun'.skipped \subseteq 1 .. k
        <4>1. k \in 1 .. k
          BY <1>1, <1>2, PiItems
        <4>2. piRun.skipped \subseteq 1 .. k
          <5>1. piRun.skipped \subseteq 1 .. k - 1 /\ k \in Nat
            BY <1>1, <1>3, <2>1
          <5> QED BY <5>1
        <4>3. piRun'.skipped = piRun.skipped \/ piRun'.skipped = piRun.skipped \cup {k}
          BY ZenonT(30), <1>6
        <4> QED BY <4>1, <4>2, <4>3
      <3>2. PiFactChecked(a, s, i, k + 1, piRun'.skipped, held, piRun'.facts[s][i])
        <4>1. PiFactChecked(a, s, i, k, piRun.skipped, held, pending) /\ piRun.skipped \subseteq 1 .. k - 1
          BY <1>1, <1>3, <2>1
        <4>2. piRun'.facts[s][i] \in Seq(Import!Words)
          BY ZenonT(30), <1>1, <1>4, <1>6
        <4> DEFINE skipped == piRun.skipped
        <4>3. PiFactChecked(a, s, i, k, skipped, held, pending) /\ skipped \subseteq 1 .. k - 1
          BY ZenonT(30), <4>1
        <4>4. /\ now # <<>> /\ Import!IsPrefix(a[k].trail, now) => PiFactChecked(a, s, i, k + 1, skipped \cup {k}, held, now)
              /\ Import!IsPrefix(now, a[k].trail) => PiFactChecked(a, s, i, k + 1, skipped, held, a[k].trail)
          <5>1. PiFactAt(a, k, s, i) /\ k \in Nat /\ a \in PiArtifacts /\ held \in Seq(Import!Words) /\ pending \in Seq(Import!Words)
            BY <1>1
          <5> HIDE DEF skipped
          <5> QED BY <1>4, <4>3, <5>1, PiFactFound, ZenonT(30)
        <4> QED BY ZenonT(30), <1>6, <4>4
      <3>3. ASSUME NEW r \in PiStores, NEW j \in PiIds, r # s \/ j # i
            PROVE  PiFactChecked(a, r, j, k + 1, piRun'.skipped, piFacts[r][j], piRun'.facts[r][j])
        <4>1. ~PiFactAt(a, k, r, j)
          BY <3>3 DEF PiFactAt
        <4>2. piRun'.facts[r][j] = piRun.facts[r][j] /\ piRun'.skipped \in {piRun.skipped, piRun.skipped \cup {k}}
          BY ZenonT(30), <1>6, <3>3
        <4>3. PiFactChecked(a, r, j, k, piRun.skipped, piFacts[r][j], piRun.facts[r][j])
          BY <1>3, <2>1
        <4> DEFINE before == piRun.skipped
                   after == piRun'.skipped
                   there == piFacts[r][j]
                   found == piRun.facts[r][j]
        <4>4. PiFactChecked(a, r, j, k + 1, after, there, found)
          <5>1. a \in PiArtifacts /\ k \in Nat /\ after \in {before, before \cup {k}} /\ PiFactChecked(a, r, j, k, before, there, found)
            BY <1>1, <4>2, <4>3
          <5> HIDE DEF before, after, there, found
          <5> QED BY <4>1, <5>1, PiFactRests
        <4> QED BY <4>2, <4>4
      <3>4. ASSUME NEW r \in PiStores, NEW l \in PiLinks
            PROVE  PiLinkChecked(a, r, l, k + 1, piLinks[r][l], piRun'.links[r][l])
        <4>1. ~PiLinkAt(a, k, r, l)
          BY <1>2 DEF PiLinkAt
        <4>2. PiLinkChecked(a, r, l, k, piLinks[r][l], piRun'.links[r][l])
          BY ZenonT(30), <1>3, <1>6, <2>1
        <4> QED BY <1>1, <4>1, <4>2, PiLinkRests
      <3>5. PiEnds(a, k + 1, piFacts)
        BY <1>1, <1>2, <1>3, <2>1, PiEndsFound
      <3> QED BY ZenonT(30), <3>1, <3>2, <3>3, <3>4, <3>5
    <2>2. UNCHANGED <<piArtifact, piFacts, piLinks, piOutcome, piDisturbed, piPassed>>
      BY ZenonT(30), <1>1, <1>6
    <2> QED BY ZenonT(30), <1>2, <1>6, <2>1, <2>2, PiOneChecked
  <1> QED BY ZenonT(30), <1>0, <1>5, <1>6

\* A link that fits what is found and held is one more the preflight passes.
LEMMA PiFoundLinkInv ==
  ASSUME PiInv, NEW k, k = piRun.item, piRun.at = "preflight", k \in DOMAIN piArtifact, piArtifact[k].kind # "fact",
         NEW sound \in BOOLEAN, Import!FoundLink(piArtifact[k], sound),
         ~sound => ~piPassed,
         NEW s, s = piArtifact[k].store, NEW l, l = piArtifact[k].id,
         sound /\ ~piDisturbed =>
           /\ Import!Agrees(piArtifact[k].says, piRun.links[s][l])
           /\ Import!Agrees(piArtifact[k].says, piLinks[s][l])
           /\ \A i \in piArtifact[k].ids :
                \/ piFacts[s][i] # <<>>
                \/ \E m \in DOMAIN piArtifact : m < k /\ PiFactAt(piArtifact, m, s, i)
  PROVE  PiInv'
  <1> DEFINE a == piArtifact
             says == a[k].says
  <1>1. piRun \in PiChecks /\ piRun # Import!PiIdle
    BY DEF PiInv, PiTypes, PiWrites, Import!PiIdle
  <1>2. /\ a \in PiArtifacts /\ k \in Nat /\ PiLinkAt(a, k, s, l) /\ s \in PiStores /\ l \in PiLinks
        /\ says \in Import!Words /\ piLinks \in PiSaid /\ piRun.links \in PiSaid /\ piRun.facts \in PiStored /\ piRun.skipped \in SUBSET Nat
    BY <1>1, PiItems DEF PiInv, PiTypes, PiChecks, PiLinkAt
  <1>3. UNCHANGED <<piFacts, piLinks>>
    BY DEF Import!FoundLink
  <1>4. CASE ~sound
    <2>1. Import!Ends("refused")
      BY <1>4 DEF Import!FoundLink
    <2> QED BY <1>3, <1>4, <2>1, PiEnded
  <1>5. CASE sound
    <2> DEFINE L == [piRun.links EXCEPT ![s][l] = says]
    <2>1. /\ piRun' = [piRun EXCEPT !.item = @ + 1, !.links = L]
          /\ UNCHANGED <<piArtifact, piOutcome, piDisturbed, piPassed>>
      BY <1>5 DEF Import!FoundLink
    <2>2. /\ L \in PiSaid /\ L[s][l] = says
          /\ \A r \in PiStores, m \in PiLinks : (r # s \/ m # l) => L[r][m] = piRun.links[r][m]
      BY <1>2, PiPut DEF PiSaid
    <2> HIDE DEF L
    <2>3. /\ piRun' \in PiChecks /\ piRun'.item = k + 1 /\ piRun'.links = L
          /\ piRun'.facts = piRun.facts /\ piRun'.skipped = piRun.skipped
      <3>1. piRun' = [at |-> "preflight", item |-> k + 1, skipped |-> piRun.skipped, facts |-> piRun.facts, links |-> L]
        BY <1>1, <2>1 DEF PiChecks
      <3> QED BY <1>2, <2>2, <3>1 DEF PiChecks
    <2>4. ASSUME ~piDisturbed
          PROVE  /\ piRun'.skipped \subseteq 1 .. k
                 /\ \A r \in PiStores, j \in PiIds :
                      PiFactChecked(a, r, j, k + 1, piRun'.skipped, piFacts[r][j], piRun'.facts[r][j])
                 /\ \A r \in PiStores, m \in PiLinks :
                      PiLinkChecked(a, r, m, k + 1, piLinks[r][m], piRun'.links[r][m])
                 /\ PiEnds(a, k + 1, piFacts)
      <3>1. /\ piRun.skipped \subseteq 1 .. k - 1
            /\ \A r \in PiStores, j \in PiIds :
                 PiFactChecked(a, r, j, k, piRun.skipped, piFacts[r][j], piRun.facts[r][j])
            /\ \A r \in PiStores, m \in PiLinks : PiLinkChecked(a, r, m, k, piLinks[r][m], piRun.links[r][m])
            /\ PiEnds(a, k, piFacts)
        BY <2>4 DEF PiInv, PiChecked
      <3>2. piRun'.skipped \subseteq 1 .. k
        BY <1>2, <2>3, <3>1
      <3>3. ASSUME NEW r \in PiStores, NEW j \in PiIds
            PROVE  PiFactChecked(a, r, j, k + 1, piRun'.skipped, piFacts[r][j], piRun'.facts[r][j])
        <4>1. ~PiFactAt(a, k, r, j)
          BY DEF PiFactAt
        <4>2. PiFactChecked(a, r, j, k, piRun'.skipped, piFacts[r][j], piRun'.facts[r][j])
          BY <2>3, <3>1
        <4> HIDE DEF a, says
        <4> QED BY <1>2, <4>1, <4>2, PiFactRests
      <3>4. PiLinkChecked(a, s, l, k + 1, piLinks[s][l], piRun'.links[s][l])
        <4>1. PiLinkChecked(a, s, l, k, piLinks[s][l], piRun.links[s][l])
          BY <1>2, <3>1
        <4>2. Import!Agrees(says, piRun.links[s][l]) /\ Import!Agrees(says, piLinks[s][l])
          BY <1>5, <2>4
        <4>3. piRun'.links[s][l] = says
          BY <2>2, <2>3
        <4>4. PiLinkChecked(a, s, l, k + 1, piLinks[s][l], says)
          <5> HIDE DEF a
          <5> QED BY ZenonT(30), <1>2, <4>1, <4>2, PiLinkFound
        <4> QED BY <4>3, <4>4
      <3>5. ASSUME NEW r \in PiStores, NEW m \in PiLinks, r # s \/ m # l
            PROVE  PiLinkChecked(a, r, m, k + 1, piLinks[r][m], piRun'.links[r][m])
        <4>1. ~PiLinkAt(a, k, r, m)
          BY <3>5 DEF PiLinkAt
        <4>2. PiLinkChecked(a, r, m, k, piLinks[r][m], piRun'.links[r][m])
          BY <2>2, <2>3, <3>1, <3>5
        <4> HIDE DEF a, says
        <4> QED BY <1>2, <4>1, <4>2, PiLinkRests
      <3>6. PiEnds(a, k + 1, piFacts)
        BY <1>2, <1>5, <2>4, <3>1, PiEndsFound
      <3> QED BY <3>2, <3>3, <3>4, <3>5, <3>6
    <2> QED BY <1>1, <1>3, <2>1, <2>3, <2>4, PiOneChecked
  <1> QED BY <1>4, <1>5

LEMMA PiCheckEdgeInv == PiInv /\ Import!CheckEdge => PiInv'
  <1> SUFFICES ASSUME PiInv, Import!CheckEdge PROVE PiInv'
    OBVIOUS
  <1> DEFINE a == piArtifact
             k == piRun.item
             s == a[k].store
             l == a[k].id
             sound == /\ \A i \in a[k].ids : Import!PendingOr(s, i) # <<>>
                      /\ Import!Agrees(a[k].says, piLinks[s][l])
                      /\ Import!Agrees(a[k].says, piRun.links[s][l])
  <1>1. piRun.at = "preflight" /\ k \in DOMAIN a /\ a[k].kind = "edge" /\ Import!FoundLink(a[k], sound)
    BY DEF Import!CheckEdge, Import!AtItem, Import!Items, Import!StoredLink, Import!NoTrail
  <1>2. piRun \in PiChecks /\ piRun # Import!PiIdle
    BY <1>1 DEF PiInv, PiTypes, PiWrites, Import!PiIdle
  <1>3. /\ a \in PiArtifacts /\ k \in Nat /\ k < Len(a) + 1 /\ PiLinkAt(a, k, s, l) /\ s \in PiStores /\ l \in PiLinks
        /\ a[k].ids \subseteq PiIds /\ a[k].says # Import!NothingSaid
        /\ \A n \in DOMAIN a : n \in Nat
    BY <1>1, PiItems DEF PiInv, PiTypes, PiLinkAt
  <1>4. \A i \in PiIds :
          /\ piRun.facts[s][i] \in Seq(Import!Words)
          /\ Import!PendingOr(s, i) = IF piRun.facts[s][i] # <<>> THEN piRun.facts[s][i] ELSE piFacts[s][i]
    BY <1>2, <1>3 DEF PiChecks, PiStored, Import!PendingOr, Import!NoTrail
  <1>5. ~piDisturbed =>
          /\ \A i \in PiIds : PiFactChecked(a, s, i, k, piRun.skipped, piFacts[s][i], piRun.facts[s][i])
          /\ PiLinkChecked(a, s, l, k, piLinks[s][l], piRun.links[s][l])
    BY <1>1, <1>3 DEF PiInv, PiChecked
  <1>6. ASSUME sound, ~piDisturbed, NEW i \in a[k].ids
        PROVE  piFacts[s][i] # <<>> \/ \E m \in DOMAIN a : m < k /\ PiFactAt(a, m, s, i)
    BY ZenonT(30), <1>3, <1>4, <1>5, <1>6 DEF PiFactChecked
  <1>7. ASSUME piPassed PROVE sound
    <2>1. ~piDisturbed /\ PiLinkPlanned(a, s, l, 1, piLinks[s][l]) /\ PiEnds(a, Len(a) + 1, piFacts)
      BY <1>2, <1>3, <1>7 DEF PiInv, PiFits
    <2>2. ASSUME NEW i \in a[k].ids PROVE Import!PendingOr(s, i) # <<>>
      <3>1. i \in PiIds /\ PiFactChecked(a, s, i, k, piRun.skipped, piFacts[s][i], piRun.facts[s][i])
        BY ZenonT(30), <1>3, <1>5, <2>1
      <3>2. CASE piFacts[s][i] # <<>>
        BY <1>4, <3>1, <3>2
      <3>3. CASE piFacts[s][i] = <<>>
        <4>1. PICK m \in DOMAIN a : m < k /\ PiFactAt(a, m, s, i)
          BY <1>1, <1>3, <2>1, <3>3 DEF PiEnds
        <4>2. Import!IsPrefix(a[m].trail, piRun.facts[s][i]) /\ a[m].trail \in Seq(Import!Words) /\ a[m].trail # <<>>
          BY <1>3, <3>1, <4>1, PiItems DEF PiFactChecked, PiFactAt
        <4>3. piRun.facts[s][i] # <<>>
          BY <4>2, PiPrefixes
        <4> QED BY <1>4, <3>1, <4>3
      <3> QED BY <3>2, <3>3
    <2>3. Import!Agrees(a[k].says, piLinks[s][l])
      BY <1>1, <1>3, <2>1 DEF PiLinkPlanned
    <2>4. Import!Agrees(a[k].says, piRun.links[s][l])
      BY ZenonT(30), <1>1, <1>3, <1>5, <2>1 DEF PiLinkPlanned, PiLinkChecked, Import!Agrees
    <2> QED BY <2>2, <2>3, <2>4
  <1>8. sound \in BOOLEAN /\ (sound => /\ Import!Agrees(a[k].says, piRun.links[s][l]) /\ Import!Agrees(a[k].says, piLinks[s][l]))
    OBVIOUS
  <1> HIDE DEF a, k, s, l, sound
  <1>9. a[k].kind # "fact" /\ (~sound => ~piPassed)
    BY <1>1, <1>7
  <1> QED BY <1>1, <1>6, <1>8, <1>9, PiFoundLinkInv DEF a, k, s, l

LEMMA PiCheckVersionInv == PiInv /\ Import!CheckVersion => PiInv'
  <1> SUFFICES ASSUME PiInv, Import!CheckVersion PROVE PiInv'
    OBVIOUS
  <1> DEFINE a == piArtifact
             k == piRun.item
             s == a[k].store
             l == a[k].id
             pending == piRun.links[s][l]
             sound == Import!Agrees(a[k].says, IF pending # Import!NothingSaid THEN pending ELSE piLinks[s][l])
  <1>1. piRun.at = "preflight" /\ k \in DOMAIN a /\ a[k].kind = "version" /\ Import!FoundLink(a[k], sound)
    BY DEF Import!CheckVersion, Import!AtItem, Import!Items, Import!StoredLink
  <1>2. piRun \in PiChecks /\ piRun # Import!PiIdle
    BY <1>1 DEF PiInv, PiTypes, PiWrites, Import!PiIdle
  <1>3. /\ a \in PiArtifacts /\ k \in Nat /\ PiLinkAt(a, k, s, l) /\ s \in PiStores /\ l \in PiLinks
        /\ a[k].says # Import!NothingSaid
        /\ \A i \in a[k].ids : \E m \in DOMAIN a : m < k /\ PiFactAt(a, m, s, i)
    <2>1. a \in PiArtifacts
      BY DEF PiInv, PiTypes
    <2> HIDE DEF a, k
    <2> QED BY <1>1, <2>1, PiItems DEF PiLinkAt
  <1>4. ~piDisturbed => PiLinkChecked(a, s, l, k, piLinks[s][l], pending)
    BY <1>1, <1>3 DEF PiInv, PiChecked
  <1>5. ASSUME sound, ~piDisturbed
        PROVE  Import!Agrees(a[k].says, pending) /\ Import!Agrees(a[k].says, piLinks[s][l])
    BY ZenonT(30), <1>3, <1>4, <1>5 DEF PiLinkChecked, Import!Agrees
  <1>6. ASSUME piPassed PROVE sound
    <2>1. ~piDisturbed /\ PiLinkPlanned(a, s, l, 1, piLinks[s][l])
      BY <1>2, <1>3, <1>6 DEF PiInv, PiFits
    <2> QED BY ZenonT(30), <1>1, <1>3, <1>4, <2>1 DEF PiLinkPlanned, PiLinkChecked, Import!Agrees
  <1>7. sound \in BOOLEAN
    BY DEF Import!Agrees
  <1> HIDE DEF a, k, s, l, sound, pending
  <1>8. a[k].kind # "fact" /\ (~sound => ~piPassed)
    BY <1>1, <1>6
  <1> QED BY <1>1, <1>3, <1>5, <1>7, <1>8, PiFoundLinkInv DEF a, k, s, l, pending

LEMMA PiPassInv == PiInv /\ Import!PassPreflight => PiInv'
  <1> SUFFICES ASSUME PiInv, Import!PassPreflight PROVE PiInv'
    OBVIOUS
  <1> DEFINE a == piArtifact
             k == piRun.item
  <1>1. /\ piRun.at = "preflight" /\ k \notin DOMAIN a
        /\ piRun' = [at |-> "write", item |-> 1, skipped |-> piRun.skipped]
        /\ piPassed' = ~piDisturbed
        /\ UNCHANGED <<piArtifact, piFacts, piLinks, piOutcome, piDisturbed>>
    BY DEF Import!PassPreflight, Import!Items
  <1>2. piRun \in PiChecks /\ piRun # Import!PiIdle
    BY <1>1 DEF PiInv, PiTypes, PiWrites, Import!PiIdle
  <1>3. /\ a \in PiArtifacts /\ Len(a) \in Nat /\ k = Len(a) + 1 /\ k \in Nat /\ piOutcome = "none"
        /\ piFacts \in PiStored /\ piRun.facts \in PiStored /\ piRun.skipped \in SUBSET Nat
    BY <1>1, <1>2, PiItems DEF PiInv, PiTypes, PiChecks
  <1>4. piRun' \in PiWrites /\ piRun'.at = "write" /\ piRun'.item = 1 /\ piRun'.skipped = piRun.skipped /\ piRun' # Import!PiIdle
    BY <1>1, <1>3 DEF PiWrites, Import!PiIdle
  <1>5. ASSUME ~piDisturbed
        PROVE  /\ \A s \in PiStores, i \in PiIds :
                    PiFactPlanned(a, s, i, 1, piRun.skipped, piFacts[s][i]) /\ PiFactFits(a, s, i, piFacts[s][i])
               /\ \A s \in PiStores, l \in PiLinks : PiLinkPlanned(a, s, l, 1, piLinks[s][l])
               /\ PiEnds(a, Len(a) + 1, piFacts)
    <2>1. /\ \A s \in PiStores, i \in PiIds : PiFactChecked(a, s, i, k, piRun.skipped, piFacts[s][i], piRun.facts[s][i])
          /\ \A s \in PiStores, l \in PiLinks : PiLinkChecked(a, s, l, k, piLinks[s][l], piRun.links[s][l])
          /\ PiEnds(a, k, piFacts)
      BY <1>1, <1>5 DEF PiInv, PiChecked
    <2>2. ASSUME NEW s \in PiStores, NEW i \in PiIds
          PROVE  PiFactPlanned(a, s, i, 1, piRun.skipped, piFacts[s][i]) /\ PiFactFits(a, s, i, piFacts[s][i])
      <3>1. piFacts[s][i] \in Seq(Import!Words) /\ piRun.facts[s][i] \in Seq(Import!Words)
        BY <1>3 DEF PiStored
      <3> HIDE DEF a, k
      <3> QED BY <1>3, <2>1, <3>1, PiFactPasses
    <2>3. ASSUME NEW s \in PiStores, NEW l \in PiLinks
          PROVE  PiLinkPlanned(a, s, l, 1, piLinks[s][l])
      <3> HIDE DEF a, k
      <3> QED BY <1>3, <2>1, PiLinkPasses
    <2> QED BY <1>3, <2>1, <2>2, <2>3
  <1>6. PiTypes'
    BY <1>1, <1>3, <1>4 DEF PiInv, PiTypes
  <1>7. PiChecked'
    BY <1>4 DEF PiChecked
  <1>8. PiPlanned'
    BY <1>1, <1>4, <1>5 DEF PiPlanned
  <1>9. PiFits'
    BY <1>1, <1>5 DEF PiFits
  <1>10. PiWhole'
    BY <1>1, <1>3 DEF PiWhole, Import!PreflightFindsClashes, Import!DoneIsAllThere, Import!RerunGoesThrough
  <1> QED BY <1>6, <1>7, <1>8, <1>9, <1>10 DEF PiInv

\* An item is written, or was skipped.
LEMMA PiOneWritten ==
  ASSUME PiInv, piRun.at = "write", piRun.item \in DOMAIN piArtifact, Import!NextItem,
         piFacts' \in PiStored, piLinks' \in PiSaid,
         ~piDisturbed =>
           /\ \A s \in PiStores, i \in PiIds :
                PiFactPlanned(piArtifact, s, i, piRun.item + 1, piRun.skipped, piFacts'[s][i])
           /\ \A s \in PiStores, l \in PiLinks : PiLinkPlanned(piArtifact, s, l, piRun.item + 1, piLinks'[s][l])
           /\ PiEnds(piArtifact, Len(piArtifact) + 1, piFacts'),
         piPassed =>
           /\ \A s \in PiStores, i \in PiIds : PiFactFits(piArtifact, s, i, piFacts'[s][i])
           /\ \A s \in PiStores, l \in PiLinks : PiLinkPlanned(piArtifact, s, l, 1, piLinks'[s][l])
  PROVE  PiInv'
  <1>1. /\ piRun' = [piRun EXCEPT !.item = @ + 1] /\ piArtifact' = piArtifact
        /\ piOutcome' = piOutcome /\ piDisturbed' = piDisturbed /\ piPassed' = piPassed
    BY DEF Import!NextItem
  <1>2. piRun \in PiWrites /\ piRun # Import!PiIdle
    BY DEF PiInv, PiTypes, PiChecks, Import!PiIdle
  <1>3. piArtifact \in PiArtifacts /\ Len(piArtifact) \in Nat /\ piRun.item \in 1 .. Len(piArtifact) /\ piOutcome = "none"
    BY <1>2, PiItems DEF PiInv, PiTypes
  <1>4. /\ piRun' \in PiWrites /\ piRun'.at = "write" /\ piRun' # Import!PiIdle
        /\ piRun'.item = piRun.item + 1 /\ piRun'.skipped = piRun.skipped
    BY <1>1, <1>2 DEF PiWrites, Import!PiIdle
  <1>5. PiTypes'
    BY <1>1, <1>3, <1>4 DEF PiInv, PiTypes
  <1>6. PiChecked'
    BY <1>4 DEF PiChecked
  <1>7. PiPlanned'
    BY <1>1, <1>4 DEF PiPlanned
  <1>8. PiFits'
    <2>1. piPassed => ~piDisturbed
      BY <1>2 DEF PiInv, PiFits
    <2> QED BY <1>1, <2>1 DEF PiFits
  <1>9. PiWhole'
    BY <1>1, <1>3 DEF PiWhole, Import!PreflightFindsClashes, Import!DoneIsAllThere, Import!RerunGoesThrough
  <1> QED BY <1>5, <1>6, <1>7, <1>8, <1>9 DEF PiInv

LEMMA PiWriteFactInv == PiInv /\ Import!WriteFact => PiInv'
  <1> SUFFICES ASSUME PiInv, Import!WriteFact PROVE PiInv'
    OBVIOUS
  <1> DEFINE a == piArtifact
             k == piRun.item
             s == a[k].store
             i == a[k].id
             t == a[k].trail
             skipped == piRun.skipped
  <1>1. /\ piRun.at = "write" /\ k \in DOMAIN a /\ a[k].kind = "fact" /\ piLinks' = piLinks
        /\ \/ k \in skipped /\ Import!NextItem /\ piFacts' = piFacts
           \/ k \notin skipped /\ Import!NextItem /\ piFacts' = [piFacts EXCEPT ![s][i] = t]
           \/ /\ k \notin skipped /\ ~Import!IsPrefix(piFacts[s][i], t)
              /\ Import!Ends("clashed") /\ piFacts' = piFacts
    BY DEF Import!WriteFact, Import!AtItem, Import!Items, Import!Restorable
  <1>2. piRun \in PiWrites /\ piRun # Import!PiIdle
    BY <1>1 DEF PiInv, PiTypes, PiChecks, Import!PiIdle
  <1>3. /\ a \in PiArtifacts /\ k \in Nat /\ PiFactAt(a, k, s, i) /\ s \in PiStores /\ i \in PiIds
        /\ t \in Seq(Import!Words) /\ t # <<>> /\ piFacts \in PiStored /\ piFacts[s][i] \in Seq(Import!Words) /\ piLinks \in PiSaid
    BY <1>1, PiItems DEF PiInv, PiTypes, PiFactAt, PiStored
  <1>4. ~piDisturbed =>
          /\ \A r \in PiStores, j \in PiIds : PiFactPlanned(a, r, j, k, skipped, piFacts[r][j])
          /\ \A r \in PiStores, l \in PiLinks : PiLinkPlanned(a, r, l, k, piLinks[r][l])
          /\ PiEnds(a, Len(a) + 1, piFacts)
    BY <1>1 DEF PiInv, PiPlanned
  <1>5. piPassed =>
          /\ ~piDisturbed
          /\ \A r \in PiStores, j \in PiIds : PiFactFits(a, r, j, piFacts[r][j])
          /\ \A r \in PiStores, l \in PiLinks : PiLinkPlanned(a, r, l, 1, piLinks[r][l])
    BY <1>2 DEF PiInv, PiFits
  <1>6. CASE k \notin skipped /\ ~Import!IsPrefix(piFacts[s][i], t) /\ Import!Ends("clashed") /\ piFacts' = piFacts
    <2>1. ASSUME ~piDisturbed PROVE FALSE
      <3>1. PiFactPlanned(a, s, i, k, skipped, piFacts[s][i])
        BY <1>3, <1>4, <2>1
      <3>2. k \in DOMAIN a /\ k \in Nat /\ PiFactAt(a, k, s, i) /\ k \notin skipped /\ ~Import!IsPrefix(piFacts[s][i], a[k].trail)
        BY <1>1, <1>3, <1>6
      <3> HIDE DEF a, k, s, i, t, skipped
      <3> QED BY <3>1, <3>2 DEF PiFactPlanned
    <2> HIDE DEF a, k, s, i, t, skipped
    <2> QED BY <1>1, <1>6, <2>1, PiEnded
  <1>7. CASE /\ Import!NextItem
             /\ \/ k \in skipped /\ piFacts' = piFacts
                \/ k \notin skipped /\ piFacts' = [piFacts EXCEPT ![s][i] = t]
    <2>1. /\ piFacts' \in PiStored
          /\ (k \in skipped /\ piFacts'[s][i] = piFacts[s][i]) \/ (k \notin skipped /\ piFacts'[s][i] = t)
          /\ \A r \in PiStores, j \in PiIds : (r # s \/ j # i) => piFacts'[r][j] = piFacts[r][j]
      <3>1. CASE k \in skipped /\ piFacts' = piFacts
        BY <1>3, <3>1
      <3>2. CASE k \notin skipped /\ piFacts' = [piFacts EXCEPT ![s][i] = t]
        <4>1. /\ piFacts \in [PiStores -> [PiIds -> Seq(Import!Words)]]
              /\ s \in PiStores /\ i \in PiIds /\ t \in Seq(Import!Words)
          BY <1>3 DEF PiStored
        <4> HIDE DEF a, k, s, i, t, skipped
        <4>2. /\ piFacts' \in [PiStores -> [PiIds -> Seq(Import!Words)]] /\ piFacts'[s][i] = t
              /\ \A r \in PiStores, j \in PiIds : (r # s \/ j # i) => piFacts'[r][j] = piFacts[r][j]
          BY <3>2, <4>1, PiPut
        <4> QED BY <3>2, <4>2 DEF PiStored
      <3> QED BY <1>7, <3>1, <3>2
    <2>2. \A r \in PiStores, j \in PiIds : piFacts[r][j] # <<>> => piFacts'[r][j] # <<>>
      BY <1>3, <2>1
    <2>3. ASSUME ~piDisturbed
          PROVE  /\ \A r \in PiStores, j \in PiIds : PiFactPlanned(a, r, j, k + 1, skipped, piFacts'[r][j])
                 /\ \A r \in PiStores, l \in PiLinks : PiLinkPlanned(a, r, l, k + 1, piLinks'[r][l])
                 /\ PiEnds(a, Len(a) + 1, piFacts')
      <3>1. PiFactPlanned(a, s, i, k + 1, skipped, piFacts'[s][i])
        <4>1. PiFactPlanned(a, s, i, k, skipped, piFacts[s][i])
          BY <1>3, <1>4, <2>3
        <4> HIDE DEF a, k, s, i, skipped
        <4> QED BY <1>3, <2>1, <4>1, PiFactWritten DEF t
      <3>2. ASSUME NEW r \in PiStores, NEW j \in PiIds, r # s \/ j # i
            PROVE  PiFactPlanned(a, r, j, k + 1, skipped, piFacts'[r][j])
        <4>1. ~PiFactAt(a, k, r, j)
          BY <3>2 DEF PiFactAt
        <4>2. PiFactPlanned(a, r, j, k, skipped, piFacts'[r][j])
          BY <1>4, <2>1, <2>3, <3>2
        <4> HIDE DEF a, k, skipped
        <4> QED BY <1>3, <4>1, <4>2, PiFactWaits
      <3>3. ASSUME NEW r \in PiStores, NEW l \in PiLinks
            PROVE  PiLinkPlanned(a, r, l, k + 1, piLinks'[r][l])
        <4>1. ~PiLinkAt(a, k, r, l)
          BY <1>1 DEF PiLinkAt
        <4>2. PiLinkPlanned(a, r, l, k, piLinks'[r][l])
          BY <1>1, <1>4, <2>3
        <4> HIDE DEF a, k
        <4> QED BY <1>3, <4>1, <4>2, PiLinkWaits
      <3>4. PiEnds(a, Len(a) + 1, piFacts')
        BY <1>3, <1>4, <2>2, <2>3, PiEndsGrow
      <3> QED BY <3>1, <3>2, <3>3, <3>4
    <2>4. ASSUME piPassed
          PROVE  /\ \A r \in PiStores, j \in PiIds : PiFactFits(a, r, j, piFacts'[r][j])
                 /\ \A r \in PiStores, l \in PiLinks : PiLinkPlanned(a, r, l, 1, piLinks'[r][l])
      <3>1. PiFactFits(a, s, i, t)
        BY <1>3, <1>5, <2>4, PiFactStaysFit
      <3>2. PiFactFits(a, s, i, piFacts'[s][i])
        BY <1>3, <1>5, <2>1, <2>4, <3>1
      <3> QED BY <1>1, <1>5, <2>1, <2>4, <3>2
    <2>5. piLinks' \in PiSaid
      BY <1>1, <1>3
    <2> QED BY <1>1, <1>7, <2>1, <2>3, <2>4, <2>5, PiOneWritten
  <1> QED BY <1>1, <1>6, <1>7

LEMMA PiWriteLinkInv == PiInv /\ Import!WriteLink => PiInv'
  <1> SUFFICES ASSUME PiInv, Import!WriteLink PROVE PiInv'
    OBVIOUS
  <1> DEFINE a == piArtifact
             k == piRun.item
             s == a[k].store
             l == a[k].id
             says == a[k].says
             fit == (\A i \in a[k].ids : piFacts[s][i] # <<>>) /\ Import!Agrees(says, piLinks[s][l])
  <1>1. /\ piRun.at = "write" /\ k \in DOMAIN a /\ a[k].kind # "fact" /\ piFacts' = piFacts
        /\ \/ Import!NextItem /\ piLinks' = [piLinks EXCEPT ![s][l] = says]
           \/ ~fit /\ Import!Ends("clashed") /\ piLinks' = piLinks
    BY DEF Import!WriteLink, Import!AtItem, Import!Items, Import!StoredLink, Import!NoTrail
  <1>2. piRun \in PiWrites /\ piRun # Import!PiIdle
    BY <1>1 DEF PiInv, PiTypes, PiChecks, Import!PiIdle
  <1>3. /\ a \in PiArtifacts /\ k \in Nat /\ k < Len(a) + 1 /\ PiLinkAt(a, k, s, l) /\ s \in PiStores /\ l \in PiLinks
        /\ says \in Import!Words /\ a[k].ids \subseteq PiIds /\ piFacts \in PiStored /\ piLinks \in PiSaid
    BY <1>1, PiItems DEF PiInv, PiTypes, PiLinkAt
  <1>4. ~piDisturbed =>
          /\ \A r \in PiStores, j \in PiIds : PiFactPlanned(a, r, j, k, piRun.skipped, piFacts[r][j])
          /\ \A r \in PiStores, m \in PiLinks : PiLinkPlanned(a, r, m, k, piLinks[r][m])
          /\ PiEnds(a, Len(a) + 1, piFacts)
    BY <1>1 DEF PiInv, PiPlanned
  <1>5. piPassed =>
          /\ ~piDisturbed
          /\ \A r \in PiStores, j \in PiIds : PiFactFits(a, r, j, piFacts[r][j])
          /\ \A r \in PiStores, m \in PiLinks : PiLinkPlanned(a, r, m, 1, piLinks[r][m])
    BY <1>2 DEF PiInv, PiFits
  <1>6. CASE ~fit /\ Import!Ends("clashed") /\ piLinks' = piLinks
    <2>1. ASSUME ~piDisturbed PROVE fit
      <3>1. ASSUME NEW i \in a[k].ids, piFacts[s][i] = <<>> PROVE FALSE
        <4>1. PICK m \in DOMAIN a : m < k /\ PiFactAt(a, m, s, i)
          BY <1>1, <1>3, <1>4, <2>1, <3>1 DEF PiEnds
        <4>2. Import!IsPrefix(a[m].trail, <<>>)
          BY <1>3, <1>4, <2>1, <3>1, <4>1 DEF PiFactPlanned
        <4>3. a[m].trail \in Seq(Import!Words) /\ a[m].trail # <<>>
          BY <1>3, <4>1, PiItems DEF PiFactAt
        <4> QED BY <4>2, <4>3, PiPrefixes
      <3>2. Import!Agrees(says, piLinks[s][l])
        BY <1>1, <1>3, <1>4, <2>1 DEF PiLinkPlanned
      <3> QED BY <3>1, <3>2
    <2>2. piDisturbed
      BY <1>6, <2>1
    <2> HIDE DEF a, k, s, l, says, fit
    <2> QED BY <1>1, <1>6, <2>2, PiEnded
  <1>7. CASE Import!NextItem /\ piLinks' = [piLinks EXCEPT ![s][l] = says]
    <2>1. /\ piLinks' \in PiSaid /\ piLinks'[s][l] = says
          /\ \A r \in PiStores, m \in PiLinks : (r # s \/ m # l) => piLinks'[r][m] = piLinks[r][m]
      <3>1. piLinks \in [PiStores -> [PiLinks -> Import!Words]] /\ s \in PiStores /\ l \in PiLinks /\ says \in Import!Words
        BY <1>3 DEF PiSaid
      <3> HIDE DEF a, k, s, l, says, fit
      <3> QED BY <1>7, <3>1, PiPut DEF PiSaid
    <2>2. ASSUME NEW j, NEW next, PiLinkPlanned(a, s, l, j, piLinks[s][l])
          PROVE  PiLinkPlanned(a, s, l, next, piLinks'[s][l])
      <3>1. PiLinkPlanned(a, s, l, next, a[k].says)
        <4> HIDE DEF a, k, s, l
        <4> QED BY <1>3, <2>2, PiLinkWritten
      <3> QED BY <2>1, <3>1
    <2>3. ASSUME ~piDisturbed
          PROVE  /\ \A r \in PiStores, j \in PiIds : PiFactPlanned(a, r, j, k + 1, piRun.skipped, piFacts'[r][j])
                 /\ \A r \in PiStores, m \in PiLinks : PiLinkPlanned(a, r, m, k + 1, piLinks'[r][m])
                 /\ PiEnds(a, Len(a) + 1, piFacts')
      <3>1. ASSUME NEW r \in PiStores, NEW j \in PiIds
            PROVE  PiFactPlanned(a, r, j, k + 1, piRun.skipped, piFacts'[r][j])
        <4>1. ~PiFactAt(a, k, r, j)
          BY <1>1 DEF PiFactAt
        <4>2. PiFactPlanned(a, r, j, k, piRun.skipped, piFacts'[r][j])
          BY <1>1, <1>4, <2>3
        <4> HIDE DEF a, k
        <4> QED BY <1>3, <4>1, <4>2, PiFactWaits
      <3>2. PiLinkPlanned(a, s, l, k + 1, piLinks'[s][l])
        BY <1>3, <1>4, <2>2, <2>3
      <3>3. ASSUME NEW r \in PiStores, NEW m \in PiLinks, r # s \/ m # l
            PROVE  PiLinkPlanned(a, r, m, k + 1, piLinks'[r][m])
        <4>1. ~PiLinkAt(a, k, r, m)
          BY <3>3 DEF PiLinkAt
        <4>2. PiLinkPlanned(a, r, m, k, piLinks'[r][m])
          BY <1>4, <2>1, <2>3, <3>3
        <4> HIDE DEF a, k
        <4> QED BY <1>3, <4>1, <4>2, PiLinkWaits
      <3> QED BY <1>1, <1>4, <2>3, <3>1, <3>2, <3>3
    <2>4. ASSUME piPassed
          PROVE  /\ \A r \in PiStores, j \in PiIds : PiFactFits(a, r, j, piFacts'[r][j])
                 /\ \A r \in PiStores, m \in PiLinks : PiLinkPlanned(a, r, m, 1, piLinks'[r][m])
      <3>1. PiLinkPlanned(a, s, l, 1, piLinks'[s][l])
        BY <1>3, <1>5, <2>2, <2>4
      <3> QED BY <1>1, <1>5, <2>1, <2>4, <3>1
    <2>5. piFacts' \in PiStored
      BY <1>1, <1>3
    <2> QED BY <1>1, <1>7, <2>1, <2>3, <2>4, <2>5, PiOneWritten
  <1> QED BY <1>1, <1>6, <1>7

LEMMA PiFinishInv == PiInv /\ Import!FinishImport => PiInv'
  <1> SUFFICES ASSUME PiInv, Import!FinishImport PROVE PiInv'
    OBVIOUS
  <1> DEFINE a == piArtifact
             k == piRun.item
  <1>1. piRun.at = "write" /\ k \notin DOMAIN a /\ Import!Ends("done") /\ UNCHANGED <<piFacts, piLinks>>
    BY DEF Import!FinishImport, Import!Items
  <1>2. piRun # Import!PiIdle
    BY <1>1 DEF Import!PiIdle
  <1>3. a \in PiArtifacts /\ k \in Nat /\ \A n \in DOMAIN a : n < k
    BY <1>1, <1>2, PiItems DEF PiInv, PiTypes
  <1>4. ASSUME ~piDisturbed
        PROVE  /\ \A n \in DOMAIN a : a[n].kind = "fact" => Import!IsPrefix(a[n].trail, piFacts[a[n].store][a[n].id])
               /\ \A n \in DOMAIN a : a[n].kind # "fact" => piLinks[a[n].store][a[n].id] = a[n].says
    <2>1. /\ \A s \in PiStores, i \in PiIds : PiFactPlanned(a, s, i, k, piRun.skipped, piFacts[s][i])
          /\ \A s \in PiStores, l \in PiLinks : PiLinkPlanned(a, s, l, k, piLinks[s][l])
      BY <1>1, <1>4 DEF PiInv, PiPlanned
    <2>2. ASSUME NEW n \in DOMAIN a, a[n].kind = "fact"
          PROVE  Import!IsPrefix(a[n].trail, piFacts[a[n].store][a[n].id])
      <3>1. PiFactAt(a, n, a[n].store, a[n].id) /\ a[n].store \in PiStores /\ a[n].id \in PiIds
        BY <1>3, <2>2, PiItems DEF PiFactAt
      <3> QED BY <1>3, <2>1, <3>1 DEF PiFactPlanned
    <2>3. ASSUME NEW n \in DOMAIN a, a[n].kind # "fact"
          PROVE  piLinks[a[n].store][a[n].id] = a[n].says
      <3>1. PiLinkAt(a, n, a[n].store, a[n].id) /\ a[n].store \in PiStores /\ a[n].id \in PiLinks
        BY <1>3, <2>3, PiItems DEF PiLinkAt
      <3> QED BY <1>3, <2>1, <3>1 DEF PiLinkPlanned
    <2> QED BY <2>2, <2>3
  <1> QED BY <1>1, <1>4, PiEnded

LEMMA PiOtherInv == PiInv /\ Import!OtherWriter => PiInv'
  <1> SUFFICES ASSUME PiInv, Import!OtherWriter PROVE PiInv'
    OBVIOUS
  <1>1. PICK s \in PiStores, i \in PiIds :
          \/ Import!OtherChange(s, i, Append(piFacts[s][i], "theirs"))
          \/ Import!OtherChange(s, i, <<>>)
    BY DEF Import!OtherWriter, Import!NoTrail
  <1>2. piFacts \in PiStored /\ piLinks \in PiSaid /\ piFacts[s][i] \in Seq(Import!Words)
    BY DEF PiInv, PiTypes, PiStored
  <1>3. PICK trail \in Seq(Import!Words) : Import!OtherChange(s, i, trail)
    <2>1. "theirs" \in Import!Words
      BY DEF Import!Words
    <2>2. Append(piFacts[s][i], "theirs") \in Seq(Import!Words) /\ <<>> \in Seq(Import!Words)
      BY <1>2, <2>1
    <2> QED BY <1>1, <2>2
  <1>4. /\ piDisturbed' = TRUE /\ piPassed' = FALSE
        /\ piArtifact' = piArtifact /\ piRun' = piRun /\ piOutcome' = piOutcome
        /\ piFacts' = [piFacts EXCEPT ![s][i] = trail]
    BY <1>3 DEF Import!OtherChange
  <1>5. piFacts' \in PiStored
    BY <1>2, <1>4, PiPut DEF PiStored
  <1>6. piLinks' \in PiSaid
    <2> DEFINE gone(l) == trail = Import!NoTrail /\ \E n \in Import!Items : piArtifact[n].kind # "fact" /\ piArtifact[n].id = l /\ i \in piArtifact[n].ids
               left == [l \in PiLinks |-> IF gone(l) THEN Import!NothingSaid ELSE piLinks[s][l]]
    <2>1. piLinks' = [piLinks EXCEPT ![s] = left]
      BY <1>3 DEF Import!OtherChange
    <2>2. left \in [PiLinks -> Import!Words]
      <3>1. Import!NothingSaid \in Import!Words
        BY DEF Import!Words
      <3> HIDE DEF gone
      <3> QED BY <1>2, <3>1 DEF PiSaid
    <2> HIDE DEF left
    <2> QED BY <1>2, <2>1, <2>2 DEF PiSaid
  <1>7. PiTypes'
    BY <1>4, <1>5, <1>6 DEF PiInv, PiTypes
  <1>8. PiChecked' /\ PiPlanned' /\ PiFits'
    BY <1>4 DEF PiChecked, PiPlanned, PiFits
  <1>9. PiWhole'
    BY <1>4 DEF PiWhole, Import!PreflightFindsClashes, Import!DoneIsAllThere, Import!RerunGoesThrough
  <1> QED BY <1>7, <1>8, <1>9 DEF PiInv

LEMMA PiNextInv == PiInv /\ [Import!PiNext]_ImportVars => PiInv'
  <1> SUFFICES ASSUME PiInv, [Import!PiNext]_ImportVars PROVE PiInv'
    OBVIOUS
  <1>1. CASE UNCHANGED ImportVars
    <2>1. /\ piArtifact' = piArtifact /\ piFacts' = piFacts /\ piLinks' = piLinks /\ piRun' = piRun
          /\ piOutcome' = piOutcome /\ piDisturbed' = piDisturbed /\ piPassed' = piPassed
      BY <1>1 DEF ImportVars
    <2> QED BY <2>1 DEF PiInv, PiTypes, PiChecked, PiPlanned, PiFits, PiWhole, Import!PreflightFindsClashes,
                        Import!DoneIsAllThere, Import!RerunGoesThrough, Import!Items
  <1>2. CASE Import!FailImport
    <2>1. Import!Ends("failed") /\ UNCHANGED <<piFacts, piLinks>>
      BY <1>2 DEF Import!FailImport
    <2> QED BY <2>1, PiEnded
  <1>3. CASE Import!PiNext
    BY <1>2, <1>3, PiBeginInv, PiCheckFactInv, PiCheckEdgeInv, PiCheckVersionInv, PiPassInv, PiWriteFactInv, PiWriteLinkInv,
       PiFinishInv, PiOtherInv DEF Import!PiNext
  <1> QED BY <1>1, <1>3

\* An import, of any artifact into any stores, is refused before its first
\* write or brings everything, unless others write meanwhile; and one that
\* was stopped goes through when it is run again (memory-portability.ts).
THEOREM ServicesImportsAreWhole == Spec => []ImportsAreWhole
  <1> DEFINE Inv == part = "import" => PiInv
  <1>1. Init => Inv
    BY PiInitInv DEF Init
  <1>2. Inv /\ [Next]_vars => Inv'
    BY OnePartMoves, PiNextInv
  <1>3. Inv => ImportsAreWhole
    BY DEF ImportsAreWhole, PiInv, PiWhole
  <1> QED BY <1>1, <1>2, <1>3, PTL DEF Spec

-----------------------------------------------------------------------------
(* The pages of a search.                                                  *)

\* Rows with numbers to compare, of which decay took some confidence away.
SrSound(rows) ==
  /\ IsFiniteSet(rows)
  /\ \A r \in rows : r.id \in Int /\ r.conf \in Int /\ r.eff \in Int /\ r.created \in Int /\ r.rank \in Int /\ r.eff <= r.conf
  /\ \A q, r \in rows : q.id = r.id => q = r

\* The rows of X before one, and the row in the n-th place.
SrBefore(by, words, X, r) == {q \in X : Search!ComesBefore(by, words, q, r)}
SrNth(by, words, X) ==
  [n \in 1 .. Cardinality(X) |-> CHOOSE r \in X : Cardinality(SrBefore(by, words, X, r)) = n - 1]

LEMMA SrInOrder == \A by, words, X : Search!InOrder(by, words, X) = SrNth(by, words, X)
  BY DEF Search!InOrder, SrNth, SrBefore, Search!Cardinality, Cardinality, Search!IsFiniteSet, IsFiniteSet

\* Rows are compared by numbers, the last of which no two share.
LEMMA SrOrder ==
  ASSUME NEW rows, SrSound(rows), NEW by, NEW words \in BOOLEAN
  PROVE  /\ \A a \in rows : ~Search!ComesBefore(by, words, a, a)
         /\ \A a, b, c \in rows :
              Search!ComesBefore(by, words, a, b) /\ Search!ComesBefore(by, words, b, c) => Search!ComesBefore(by, words, a, c)
         /\ \A a, b \in rows : a = b \/ Search!ComesBefore(by, words, a, b) \/ Search!ComesBefore(by, words, b, a)
  <1> DEFINE C(r) == Search!Confidence(by, r)
  <1>1. \A r \in rows : C(r) \in Int /\ r.id \in Int /\ r.created \in Int /\ r.rank \in Int
    BY DEF SrSound, Search!Confidence
  <1>2. \A a, b : Search!ComesBefore(by, words, a, b) <=>
          \/ words /\ a.rank < b.rank
          \/ /\ ~words \/ a.rank = b.rank
             /\ \/ C(a) > C(b)
                \/ C(a) = C(b) /\ (a.created > b.created \/ (a.created = b.created /\ a.id > b.id))
    BY DEF Search!ComesBefore, Search!MoreRecent
  <1>3. \A q, r \in rows : q.id = r.id => q = r
    BY DEF SrSound
  <1> HIDE DEF C
  <1> QED BY <1>1, <1>2, <1>3

\* Fewer rows come before a row than before one behind it.
LEMMA SrPlaces ==
  ASSUME NEW rows, SrSound(rows), NEW by, NEW words \in BOOLEAN, NEW X \in SUBSET rows
  PROVE  /\ IsFiniteSet(X) /\ Cardinality(X) \in Nat
         /\ \A r \in rows : /\ IsFiniteSet(SrBefore(by, words, X, r)) /\ Cardinality(SrBefore(by, words, X, r)) \in Nat
                            /\ Cardinality(SrBefore(by, words, X, r)) <= Cardinality(X)
         /\ \A a \in X : Cardinality(SrBefore(by, words, X, a)) < Cardinality(X)
         /\ \A a \in X, b \in rows : Search!ComesBefore(by, words, a, b) =>
              Cardinality(SrBefore(by, words, X, a)) < Cardinality(SrBefore(by, words, X, b))
  <1> DEFINE B(r) == SrBefore(by, words, X, r)
  <1>1. IsFiniteSet(X) /\ Cardinality(X) \in Nat
    BY FS_Subset, FS_CardinalityType DEF SrSound
  <1>2. ASSUME NEW r
        PROVE  IsFiniteSet(B(r)) /\ Cardinality(B(r)) \in Nat /\ Cardinality(B(r)) <= Cardinality(X)
    <2>1. B(r) \in SUBSET X
      BY DEF SrBefore
    <2> QED BY <1>1, <2>1, FS_Subset, FS_CardinalityType
  <1>3. ASSUME NEW a \in X PROVE Cardinality(B(a)) < Cardinality(X)
    <2>1. B(a) \in SUBSET X /\ a \notin B(a)
      BY SrOrder DEF SrBefore
    <2>2. B(a) # X
      BY <2>1
    <2>3. Cardinality(X) # Cardinality(B(a))
      BY <1>1, <2>1, <2>2, FS_Subset
    <2> HIDE DEF B
    <2> QED BY <1>1, <1>2, <2>3
  <1>4. ASSUME NEW a \in X, NEW b \in rows, Search!ComesBefore(by, words, a, b)
        PROVE  Cardinality(B(a)) < Cardinality(B(b))
    <2>1. \A q \in X : Search!ComesBefore(by, words, q, a) => Search!ComesBefore(by, words, q, b)
      BY <1>4, SrOrder
    <2>2. B(a) \in SUBSET B(b) /\ a \in B(b) /\ a \notin B(a)
      BY <1>4, <2>1, SrOrder DEF SrBefore
    <2>3. Cardinality(B(a)) <= Cardinality(B(b)) /\ Cardinality(B(b)) # Cardinality(B(a))
      BY <1>2, <2>2, FS_Subset
    <2>4. Cardinality(B(a)) \in Nat /\ Cardinality(B(b)) \in Nat
      BY <1>2
    <2> HIDE DEF B
    <2> QED BY <2>3, <2>4
  <1> QED BY <1>1, <1>2, <1>3, <1>4

\* s is X in order: each row stands behind as many as come before it.
SrIsOrder(by, words, X, s) ==
  /\ s \in Seq(X) /\ Len(s) = Cardinality(X)
  /\ \A n \in 1 .. Cardinality(X) : s[n] \in X /\ Cardinality(SrBefore(by, words, X, s[n])) = n - 1
  /\ \A r \in X : /\ Cardinality(SrBefore(by, words, X, r)) + 1 \in 1 .. Cardinality(X)
                  /\ s[Cardinality(SrBefore(by, words, X, r)) + 1] = r
  /\ \A m, n \in 1 .. Cardinality(X) : m < n => Search!ComesBefore(by, words, s[m], s[n])

LEMMA SrSorted ==
  ASSUME NEW rows, SrSound(rows), NEW by, NEW words \in BOOLEAN, NEW X \in SUBSET rows
  PROVE  SrIsOrder(by, words, X, SrNth(by, words, X))
  <1> DEFINE K == Cardinality(X)
             P(r) == Cardinality(SrBefore(by, words, X, r))
             f == [r \in X |-> P(r) + 1]
             s == SrNth(by, words, X)
  <1>1. IsFiniteSet(X) /\ K \in Nat
    BY SrPlaces
  <1>2. \A r \in X : P(r) \in Nat /\ P(r) < K
    BY SrPlaces
  <1>3. \A q, r \in X : Search!ComesBefore(by, words, q, r) => P(q) < P(r)
    BY SrPlaces
  <1>4. \A q, r \in X : P(q) = P(r) => q = r
    <2>1. SUFFICES ASSUME NEW q \in X, NEW r \in X, P(q) = P(r), q # r PROVE FALSE
      OBVIOUS
    <2>2. Search!ComesBefore(by, words, q, r) \/ Search!ComesBefore(by, words, r, q)
      BY <2>1, SrOrder
    <2>3. P(q) < P(r) \/ P(r) < P(q)
      BY <1>3, <2>2
    <2>4. P(q) \in Nat /\ P(r) \in Nat
      BY <1>2
    <2> HIDE DEF P
    <2> QED BY <2>1, <2>3, <2>4
  <1>5. \A n \in 1 .. K : \E r \in X : P(r) = n - 1
    <2> HIDE DEF P, K
    <2>1. f \in [X -> 1 .. K]
      BY <1>1, <1>2
    <2>2. \A q, r \in X : f[q] = f[r] => q = r
      BY <1>2, <1>4
    <2>3. f \in Injection(X, 1 .. K)
      BY <2>1, <2>2 DEF Injection, IsInjective
    <2>4. IsFiniteSet(1 .. K) /\ Cardinality(1 .. K) = K
      BY <1>1, FS_Interval
    <2>5. f \in Surjection(X, 1 .. K)
      BY <2>3, <2>4, FS_Injection DEF K
    <2>6. \A n \in 1 .. K : \E r \in X : f[r] = n
      BY <2>5 DEF Surjection
    <2>7. ASSUME NEW n \in 1 .. K PROVE \E r \in X : P(r) = n - 1
      <3>1. PICK r \in X : f[r] = n
        BY <2>6
      <3>2. P(r) \in Nat /\ f[r] = P(r) + 1
        BY <1>2
      <3>3. P(r) = n - 1
        BY <3>1, <3>2
      <3> QED BY <3>3
    <2> QED BY <2>7
  <1>6. \A n \in 1 .. K : s[n] \in X /\ P(s[n]) = n - 1
    <2>1. s = [n \in 1 .. K |-> CHOOSE r \in X : P(r) = n - 1]
      BY DEF SrNth
    <2> HIDE DEF P, K, s
    <2> QED BY <1>5, <2>1
  <1>7. s \in [1 .. K -> X]
    <2>1. s = [n \in 1 .. K |-> s[n]]
      BY DEF SrNth
    <2> HIDE DEF P, K, s
    <2> QED BY <1>6, <2>1
  <1> HIDE DEF s, K, P
  <1>8. s \in Seq(X) /\ Len(s) = K
    BY <1>1, <1>7
  <1>9. \A r \in X : P(r) + 1 \in 1 .. K /\ s[P(r) + 1] = r
    <2> SUFFICES ASSUME NEW r \in X PROVE P(r) + 1 \in 1 .. K /\ s[P(r) + 1] = r
      OBVIOUS
    <2>1. P(r) + 1 \in 1 .. K /\ (P(r) + 1) - 1 = P(r)
      BY <1>1, <1>2
    <2>2. s[P(r) + 1] \in X /\ P(s[P(r) + 1]) = P(r)
      BY <1>6, <2>1
    <2> QED BY <1>4, <2>1, <2>2
  <1>10. ASSUME NEW m \in 1 .. K, NEW n \in 1 .. K, m < n PROVE Search!ComesBefore(by, words, s[m], s[n])
    <2>1. s[m] \in X /\ s[n] \in X /\ P(s[m]) = m - 1 /\ P(s[n]) = n - 1
      BY <1>6
    <2>2. s[m] # s[n] /\ ~(P(s[n]) < P(s[m]))
      BY <1>1, <1>10, <2>1
    <2>3. s[m] \in rows /\ s[n] \in rows
      BY <2>1
    <2> QED BY <1>3, <2>1, <2>2, <2>3, SrOrder
  <1> QED BY <1>6, <1>8, <1>9, <1>10 DEF SrIsOrder, s, K, P

\* If S has a row b, and X has b and what comes before it in S, then behind b
\* as many rows of X come before.
LEMMA SrEnough ==
  ASSUME NEW rows, SrSound(rows), NEW by, NEW words \in BOOLEAN, NEW S \in SUBSET rows, NEW X \in SUBSET rows,
         NEW b \in S, NEW r \in rows, Search!ComesBefore(by, words, b, r),
         \A q \in S : q = b \/ Search!ComesBefore(by, words, q, b) => q \in X
  PROVE  Cardinality(SrBefore(by, words, S, b)) + 1 <= Cardinality(SrBefore(by, words, X, r))
  <1> DEFINE T == SrBefore(by, words, S, b)
             U == SrBefore(by, words, X, r)
  <1>1. b \in rows /\ T \subseteq rows
    BY DEF SrBefore
  <1>2. \A q \in T : Search!ComesBefore(by, words, q, r)
    BY <1>1, SrOrder DEF SrBefore
  <1>3. T \cup {b} \in SUBSET U
    BY <1>2 DEF SrBefore
  <1>4. IsFiniteSet(T) /\ IsFiniteSet(U) /\ b \notin T
    <2>1. b \notin T
      BY <1>1, SrOrder DEF SrBefore
    <2> QED BY <1>1, <2>1, SrPlaces
  <1> HIDE DEF T, U
  <1>5. Cardinality(T \cup {b}) = Cardinality(T) + 1
    BY <1>4, FS_AddElement
  <1>6. Cardinality(T \cup {b}) <= Cardinality(U)
    BY <1>3, <1>4, FS_Subset
  <1>7. Cardinality(T) + 1 <= Cardinality(U)
    BY <1>5, <1>6
  <1> QED BY <1>7 DEF T, U

\* Leaving out rows with a whole page before them changes nothing on the page.
LEMMA SrSamePage ==
  ASSUME NEW rows, SrSound(rows), NEW by, NEW words \in BOOLEAN, NEW M \in SUBSET rows, NEW X \in SUBSET M, NEW L \in Nat,
         \A r \in M \ X : L <= Cardinality(SrBefore(by, words, X, r))
  PROVE  Search!AtMost(SrNth(by, words, X), L) = Search!AtMost(SrNth(by, words, M), L)
  <1> DEFINE s == SrNth(by, words, X)
             t == SrNth(by, words, M)
  <1>1. X \in SUBSET rows
    OBVIOUS
  <1>2. SrIsOrder(by, words, X, s) /\ SrIsOrder(by, words, M, t)
    BY <1>1, SrSorted
  <1>3. Cardinality(X) \in Nat /\ Cardinality(M) \in Nat /\ IsFiniteSet(X) /\ IsFiniteSet(M)
    BY <1>1, SrPlaces
  <1>4. Cardinality(X) <= Cardinality(M)
    BY <1>3, FS_Subset
  <1>5. CASE Cardinality(X) < L
    <2>1. \A r \in rows : Cardinality(SrBefore(by, words, X, r)) \in Nat /\ Cardinality(SrBefore(by, words, X, r)) <= Cardinality(X)
      BY <1>1, SrPlaces
    <2>2. \A r \in M \ X : FALSE
      BY <1>3, <1>5, <2>1
    <2>3. X = M
      BY <2>2
    <2> QED BY <2>3
  <1>6. CASE L <= Cardinality(X)
    <2>1. ASSUME NEW n \in 1 .. L PROVE s[n] = t[n]
      <3> DEFINE x == s[n]
      <3>1. n \in 1 .. Cardinality(X)
        BY <1>3, <1>6
      <3>2. x \in X /\ Cardinality(SrBefore(by, words, X, x)) = n - 1
        BY <1>2, <3>1 DEF SrIsOrder
      <3>3. ASSUME NEW q \in M \ X, Search!ComesBefore(by, words, q, x) PROVE FALSE
        <4>1. SrBefore(by, words, X, q) \in SUBSET SrBefore(by, words, X, x)
          BY <3>2, <3>3, SrOrder DEF SrBefore
        <4>2. IsFiniteSet(SrBefore(by, words, X, x))
          BY <1>1, <3>2, SrPlaces
        <4>3. Cardinality(SrBefore(by, words, X, q)) <= Cardinality(SrBefore(by, words, X, x))
          BY <4>1, <4>2, FS_Subset
        <4>4. L <= Cardinality(SrBefore(by, words, X, q)) /\ Cardinality(SrBefore(by, words, X, q)) \in Nat
          BY <1>1, SrPlaces
        <4> HIDE DEF x
        <4> QED BY <3>2, <4>3, <4>4
      <3>4. SrBefore(by, words, M, x) = SrBefore(by, words, X, x)
        BY <3>3 DEF SrBefore
      <3>5. x \in M /\ Cardinality(SrBefore(by, words, M, x)) = n - 1
        BY <3>2, <3>4
      <3> HIDE DEF x
      <3>6. t[Cardinality(SrBefore(by, words, M, x)) + 1] = x
        BY <1>2, <3>5 DEF SrIsOrder
      <3>7. t[n] = x
        BY <3>5, <3>6
      <3> QED BY <3>7 DEF x
    <2>2. s \in Seq(X) /\ t \in Seq(M) /\ Len(s) = Cardinality(X) /\ Len(t) = Cardinality(M)
      BY <1>2 DEF SrIsOrder
    <2> HIDE DEF s, t
    <2>3. Search!AtMost(s, L) = [n \in 1 .. L |-> s[n]]
      <3>1. SubSeq(s, 1, L) = [n \in 1 .. L |-> s[n]]
        BY <1>3, <1>6, <2>2
      <3>2. L # Search!NoLimit
        BY DEF Search!NoLimit
      <3>3. (IF L < Len(s) THEN L ELSE Len(s)) = L
        BY <1>3, <1>6, <2>2
      <3> QED BY <3>1, <3>2, <3>3 DEF Search!AtMost
    <2>4. Search!AtMost(t, L) = [n \in 1 .. L |-> t[n]]
      <3>1. SubSeq(t, 1, L) = [n \in 1 .. L |-> t[n]]
        BY <1>3, <1>4, <1>6, <2>2
      <3>2. L # Search!NoLimit
        BY DEF Search!NoLimit
      <3>3. (IF L < Len(t) THEN L ELSE Len(t)) = L
        BY <1>3, <1>4, <1>6, <2>2
      <3> QED BY <3>1, <3>2, <3>3 DEF Search!AtMost
    <2>5. Search!AtMost(s, L) = Search!AtMost(t, L)
      BY <2>1, <2>3, <2>4
    <2> QED BY <2>5 DEF s, t
  <1> QED BY <1>3, <1>5, <1>6

\* What the widened read brings: all that comes before the page's last row, as
\* decay can only have lowered a row's confidence, and nothing else is before.
SrReaches(words, q, b) ==
  IF words THEN q.rank < b.rank \/ (q.rank = b.rank /\ Search!Beats(q, b)) ELSE Search!Beats(q, b)

LEMMA SrWider ==
  ASSUME NEW rows, SrSound(rows), NEW words \in BOOLEAN, NEW q \in rows, NEW b \in rows
  PROVE  /\ q = b \/ Search!ComesBefore("eff", words, q, b) => SrReaches(words, q, b)
         /\ ~SrReaches(words, q, b) => Search!ComesBefore("eff", words, b, q)
  <1>1. /\ q.id \in Int /\ q.conf \in Int /\ q.eff \in Int /\ q.created \in Int /\ q.rank \in Int /\ q.eff <= q.conf
        /\ b.id \in Int /\ b.conf \in Int /\ b.eff \in Int /\ b.created \in Int /\ b.rank \in Int /\ b.eff <= b.conf
        /\ q.id = b.id => q = b
    BY DEF SrSound
  <1> QED BY <1>1 DEF SrReaches, Search!Beats, Search!ComesBefore, Search!Confidence, Search!MoreRecent

\* If the pool's last row does not reach the page, no row behind it does.
LEMMA SrLeftOut ==
  ASSUME NEW rows, SrSound(rows), NEW words \in BOOLEAN, NEW last \in rows, NEW b \in rows, NEW r \in rows,
         Search!ComesBefore("conf", words, last, r), b = last \/ Search!ComesBefore("conf", words, b, last),
         ~(Search!Beats(last, b) /\ (words => last.rank <= b.rank))
  PROVE  Search!ComesBefore("eff", words, b, r)
  <1>1. /\ last.id \in Int /\ last.conf \in Int /\ last.eff \in Int /\ last.created \in Int /\ last.rank \in Int
        /\ b.id \in Int /\ b.conf \in Int /\ b.eff \in Int /\ b.created \in Int /\ b.rank \in Int
        /\ r.id \in Int /\ r.conf \in Int /\ r.eff \in Int /\ r.created \in Int /\ r.rank \in Int /\ r.eff <= r.conf
        /\ last.id = b.id => last = b
    BY DEF SrSound
  <1> QED BY <1>1 DEF Search!Beats, Search!ComesBefore, Search!Confidence, Search!MoreRecent

\* The first read of a limited search: the rows that SQL's order puts first.
SrIsPool(words, M, pool, P) == pool = Search!AtMost(SrNth("conf", words, M), P)

\* A pool holds as many rows as it is long, and one that leaves out a row is
\* full, its last row before what it leaves out and behind the rest.
LEMMA SrPool ==
  ASSUME NEW rows, SrSound(rows), NEW words \in BOOLEAN, NEW M \in SUBSET rows, NEW P \in Nat,
         NEW pool, SrIsPool(words, M, pool, P)
  PROVE  /\ Search!ToSet(pool) \in SUBSET M /\ Len(pool) \in Nat /\ Len(pool) <= Cardinality(Search!ToSet(pool))
         /\ \A r \in M \ Search!ToSet(pool) :
              /\ Len(pool) = P
              /\ P > 0 => /\ pool[Len(pool)] \in Search!ToSet(pool)
                          /\ Search!ComesBefore("conf", words, pool[Len(pool)], r)
                          /\ \A q \in Search!ToSet(pool) :
                               q = pool[Len(pool)] \/ Search!ComesBefore("conf", words, q, pool[Len(pool)])
  <1> DEFINE c == SrNth("conf", words, M)
             N == Cardinality(M)
             K == IF P < N THEN P ELSE N
             S == Search!ToSet(pool)
  <1>1. SrIsOrder("conf", words, M, c) /\ N \in Nat
    BY SrSorted, SrPlaces
  <1>2. c \in Seq(M) /\ Len(c) = N
    BY <1>1 DEF SrIsOrder
  <1>3. pool = SubSeq(c, 1, K)
    <2>1. P # Search!NoLimit
      BY DEF Search!NoLimit
    <2> QED BY <1>2, <2>1 DEF SrIsPool, Search!AtMost
  <1>4. K \in Nat /\ K <= N /\ K <= P
    BY <1>1
  <1>5. \A m \in 1 .. N : c[m] \in M
    BY <1>1 DEF SrIsOrder
  <1>6. \A m, n \in 1 .. N : m < n => Search!ComesBefore("conf", words, c[m], c[n])
    BY <1>1 DEF SrIsOrder
  <1>7. ASSUME NEW r \in M PROVE \E n \in 1 .. N : c[n] = r
    BY <1>1 DEF SrIsOrder
  <1> HIDE DEF c, N
  <1>8. pool = [n \in 1 .. K |-> c[n]]
    <2> HIDE DEF K
    <2> QED BY <1>2, <1>3, <1>4
  <1> HIDE DEF K
  <1>9. Len(pool) = K /\ DOMAIN pool = 1 .. K
    BY <1>4, <1>8
  <1>10. S = {c[n] : n \in 1 .. K}
    BY <1>8, <1>9 DEF Search!ToSet
  <1>11. S \in SUBSET M
    BY <1>1, <1>4, <1>5, <1>10
  <1>12. K <= Cardinality(S)
    <2> DEFINE f == [n \in 1 .. K |-> c[n]]
    <2>1. f \in [1 .. K -> S]
      BY <1>10
    <2>2. \A m, n \in 1 .. K : f[m] = f[n] => m = n
      <3> SUFFICES ASSUME NEW m \in 1 .. K, NEW n \in 1 .. K, c[m] = c[n], m # n PROVE FALSE
        OBVIOUS
      <3>1. m \in 1 .. N /\ n \in 1 .. N /\ (m < n \/ n < m)
        BY <1>1, <1>4
      <3>2. c[m] \in rows /\ Search!ComesBefore("conf", words, c[m], c[m])
        BY <1>5, <1>6, <3>1
      <3> QED BY <3>2, SrOrder
    <2>3. f \in Injection(1 .. K, S)
      BY <2>1, <2>2 DEF Injection, IsInjective
    <2>4. IsFiniteSet(S)
      <3>1. IsFiniteSet(M)
        BY SrPlaces
      <3> QED BY <1>11, <3>1, FS_Subset
    <2>5. Cardinality(1 .. K) <= Cardinality(S)
      BY <2>3, <2>4, FS_Injection
    <2>6. Cardinality(1 .. K) = K
      BY <1>4, FS_Interval
    <2> QED BY <2>5, <2>6
  <1>13. ASSUME NEW r \in M \ S
         PROVE  /\ K = P
                /\ P > 0 => /\ pool[K] \in S
                            /\ Search!ComesBefore("conf", words, pool[K], r)
                            /\ \A q \in S : q = pool[K] \/ Search!ComesBefore("conf", words, q, pool[K])
    <2>1. PICK n \in 1 .. N : c[n] = r
      BY <1>7
    <2>2. n \notin 1 .. K
      BY <1>10, <1>13, <2>1
    <2>3. K < n /\ n <= N
      BY <1>1, <1>4, <2>2
    <2>4. K = P
      BY <1>1, <2>3 DEF K
    <2>5. ASSUME P > 0
          PROVE  /\ pool[K] \in S
                 /\ Search!ComesBefore("conf", words, pool[K], r)
                 /\ \A q \in S : q = pool[K] \/ Search!ComesBefore("conf", words, q, pool[K])
      <3>1. K \in 1 .. K /\ K \in 1 .. N
        BY <1>1, <1>4, <2>4, <2>5
      <3>2. pool[K] = c[K]
        BY <1>8, <3>1
      <3>3. Search!ComesBefore("conf", words, c[K], r)
        BY <1>6, <2>1, <2>3, <3>1
      <3>4. ASSUME NEW m \in 1 .. K PROVE c[m] = c[K] \/ Search!ComesBefore("conf", words, c[m], c[K])
        <4>1. m \in 1 .. N /\ (m = K \/ m < K)
          BY <1>1, <1>4
        <4> QED BY <1>6, <3>1, <4>1
      <3> QED BY <1>10, <3>1, <3>2, <3>3, <3>4
    <2> QED BY <2>4, <2>5
  <1> QED BY <1>4, <1>9, <1>11, <1>12, <1>13

\* Everything, read in either order, is everything.
LEMMA SrWhole ==
  ASSUME NEW rows, SrSound(rows), NEW by, NEW words \in BOOLEAN, NEW M \in SUBSET rows
  PROVE  Search!ToSet(SrNth(by, words, M)) = M
  <1> DEFINE c == SrNth(by, words, M)
             N == Cardinality(M)
  <1>1. SrIsOrder(by, words, M, c) /\ N \in Nat
    BY SrSorted, SrPlaces
  <1>2. DOMAIN c = 1 .. N
    BY DEF SrNth
  <1>3. (\A n \in 1 .. N : c[n] \in M) /\ (\A r \in M : \E n \in 1 .. N : c[n] = r)
    BY <1>1 DEF SrIsOrder
  <1> HIDE DEF c, N
  <1>4. Search!ToSet(c) = M
    BY <1>2, <1>3 DEF Search!ToSet
  <1> QED BY <1>4 DEF c

\* A pool is no smaller than the page.
LEMMA SrPoolSize ==
  ASSUME srchAsk.limit \in Int, srchAsk.limit # Search!NoLimit
  PROVE  /\ Search!Limit(srchAsk.limit) \in Nat /\ Search!PoolSize \in Nat
         /\ Search!Limit(srchAsk.limit) <= Search!PoolSize
  <1> DEFINE L == Search!Limit(srchAsk.limit)
  <1>1. L \in Nat
    BY DEF Search!Limit
  <1> HIDE DEF L
  <1>2. SrchMultiplier \in Nat /\ SrchMultiplier >= 1 /\ SrchPoolMin \in Nat
    BY ServicesSearches
  <1>3. L * SrchMultiplier \in Nat /\ L <= L * SrchMultiplier
    BY <1>1, <1>2
  <1>4. Search!PoolSize = IF L * SrchMultiplier > SrchPoolMin THEN L * SrchMultiplier ELSE SrchPoolMin
    BY DEF Search!PoolSize, L
  <1>5. Search!PoolSize \in Nat /\ L <= Search!PoolSize
    BY <1>1, <1>2, <1>3, <1>4
  <1> QED BY <1>1, <1>5 DEF L

\* The page of the first read is the beginning of the whole list.
SrReady ==
  /\ SrSound(srchRows) /\ srchAsk.limit \in Int /\ srchAsk.words \in BOOLEAN
  /\ SrIsPool(srchAsk.words, Search!Matching, srchPool, Search!PoolSize)

LEMMA SrFirst == ASSUME SrReady PROVE Search!FirstPage = Search!AtMost(Search!WholeList, Search!Limit(srchAsk.limit))
  <1> DEFINE M == Search!Matching
             w == srchAsk.words
             S == Search!ToSet(srchPool)
             L == Search!Limit(srchAsk.limit)
             P == Search!PoolSize
             B == SrNth("eff", w, S)[L]
  <1>1. SrSound(srchRows) /\ w \in BOOLEAN /\ srchAsk.limit \in Int /\ SrIsPool(w, M, srchPool, P)
    BY DEF SrReady
  <1>2. M \in SUBSET srchRows
    BY DEF Search!Matching
  <1>3. \A X : Search!Ranked(w, X) = SrNth("eff", w, X)
    BY SrInOrder DEF Search!Ranked
  <1>4. Search!WholeList = SrNth("eff", w, M)
    BY <1>3 DEF Search!WholeList
  <1>5. Search!FirstPage =
          Search!AtMost(SrNth("eff", w, IF srchAsk.limit # Search!NoLimit /\ Search!MustWiden(L) THEN Search!Wider(L) ELSE S), L)
    BY <1>3 DEF Search!FirstPage
  <1>6. CASE srchAsk.limit = Search!NoLimit
    <2>1. P = Search!NoLimit
      BY <1>6 DEF Search!PoolSize
    <2>2. srchPool = SrNth("conf", w, M)
      BY <1>1, <2>1 DEF SrIsPool, Search!AtMost
    <2>3. S = M
      BY <1>1, <1>2, <2>2, SrWhole
    <2> QED BY <1>4, <1>5, <1>6, <2>3
  <1>7. CASE srchAsk.limit # Search!NoLimit
    <2>1. L \in Nat /\ P \in Nat /\ L <= P
      BY <1>1, <1>7, SrPoolSize
    <2> HIDE DEF M, w, L, P
    <2>2. S \in SUBSET M /\ Len(srchPool) \in Nat /\ Len(srchPool) <= Cardinality(S)
      BY <1>1, <1>2, <2>1, SrPool
    <2>3. \A r \in M \ S :
              /\ Len(srchPool) = P
              /\ P > 0 => /\ srchPool[Len(srchPool)] \in S
                          /\ Search!ComesBefore("conf", w, srchPool[Len(srchPool)], r)
                          /\ \A q \in S : q = srchPool[Len(srchPool)] \/ Search!ComesBefore("conf", w, q, srchPool[Len(srchPool)])
      BY <1>1, <1>2, <2>1, SrPool
    <2>4. S \in SUBSET srchRows
      BY <1>2, <2>2
    <2>5. SrIsOrder("eff", w, S, SrNth("eff", w, S)) /\ Cardinality(S) \in Nat
      BY <1>1, <2>4, SrSorted, SrPlaces
    <2>6. Len(SrNth("eff", w, S)) = Cardinality(S)
      BY <2>5 DEF SrIsOrder
    <2>7. L > 0 /\ L <= Cardinality(S) => B \in S /\ Cardinality(SrBefore("eff", w, S, B)) = L - 1
      <3>1. L > 0 /\ L <= Cardinality(S) => L \in 1 .. Cardinality(S)
        BY <2>1, <2>5
      <3> QED BY <2>5, <3>1 DEF SrIsOrder
    <2> HIDE DEF S, B
    <2>8. Search!MustWiden(L) <=>
            /\ L > 0 /\ Len(srchPool) = P /\ Cardinality(S) >= L
            /\ Search!Beats(srchPool[Len(srchPool)], B)
            /\ w => srchPool[Len(srchPool)].rank <= B.rank
      BY <1>3, <2>6 DEF Search!MustWiden, S, B, w, P
    <2>9. CASE Search!MustWiden(L)
      <3> DEFINE X == Search!Wider(L)
      <3>1. B \in S /\ Cardinality(SrBefore("eff", w, S, B)) = L - 1 /\ B \in srchRows
        BY <2>1, <2>4, <2>5, <2>7, <2>8, <2>9
      <3>2. X = {r \in M : SrReaches(w, r, B)}
        BY <1>3 DEF Search!Wider, SrReaches, w, M, B, S
      <3> HIDE DEF X
      <3>3. X \in SUBSET M /\ X \in SUBSET srchRows
        BY <1>2, <3>2
      <3>4. ASSUME NEW r \in M \ X PROVE L <= Cardinality(SrBefore("eff", w, X, r))
        <4>1. r \in srchRows /\ ~SrReaches(w, r, B)
          BY <1>2, <3>2, <3>4
        <4>2. Search!ComesBefore("eff", w, B, r)
          BY <1>1, <3>1, <4>1, SrWider
        <4>3. \A q \in S : q = B \/ Search!ComesBefore("eff", w, q, B) => q \in X
          BY <1>1, <2>2, <2>4, <3>1, <3>2, SrWider
        <4>4. Cardinality(SrBefore("eff", w, S, B)) + 1 <= Cardinality(SrBefore("eff", w, X, r))
          BY <1>1, <2>4, <3>1, <3>3, <4>1, <4>2, <4>3, SrEnough
        <4> QED BY <2>1, <3>1, <4>4
      <3>5. Search!AtMost(SrNth("eff", w, X), L) = Search!AtMost(SrNth("eff", w, M), L)
        BY <1>1, <1>2, <2>1, <3>3, <3>4, SrSamePage
      <3>6. Search!FirstPage = Search!AtMost(SrNth("eff", w, X), L)
        BY <1>5, <1>7, <2>9 DEF X
      <3> QED BY <1>4, <3>5, <3>6 DEF M, w, L
    <2>10. CASE ~Search!MustWiden(L)
      <3>1. ASSUME NEW r \in M \ S PROVE L <= Cardinality(SrBefore("eff", w, S, r))
        <4> DEFINE last == srchPool[Len(srchPool)]
        <4>1. r \in srchRows /\ Cardinality(SrBefore("eff", w, S, r)) \in Nat
          BY <1>1, <1>2, <2>4, SrPlaces
        <4>2. CASE L = 0
          BY <4>1, <4>2
        <4>3. CASE L > 0
          <5>1. P > 0 /\ Len(srchPool) = P /\ L <= Cardinality(S)
            BY <2>1, <2>2, <2>3, <2>5, <3>1, <4>3
          <5>2. B \in S /\ Cardinality(SrBefore("eff", w, S, B)) = L - 1
            BY <2>7, <4>3, <5>1
          <5>3. /\ last \in S /\ Search!ComesBefore("conf", w, last, r)
                /\ B = last \/ Search!ComesBefore("conf", w, B, last)
            BY <2>3, <3>1, <5>1, <5>2
          <5>4. ~(Search!Beats(last, B) /\ (w => last.rank <= B.rank))
            BY <2>1, <2>5, <2>8, <2>10, <4>3, <5>1
          <5> HIDE DEF last
          <5>5. Search!ComesBefore("eff", w, B, r)
            BY <1>1, <2>4, <4>1, <5>2, <5>3, <5>4, SrLeftOut
          <5>6. Cardinality(SrBefore("eff", w, S, B)) + 1 <= Cardinality(SrBefore("eff", w, S, r))
            BY <1>1, <2>4, <4>1, <5>2, <5>5, SrEnough
          <5> QED BY <2>1, <4>1, <5>2, <5>6
        <4> QED BY <2>1, <4>2, <4>3
      <3>2. Search!AtMost(SrNth("eff", w, S), L) = Search!AtMost(SrNth("eff", w, M), L)
        BY <1>1, <1>2, <2>1, <2>2, <3>1, SrSamePage
      <3>3. Search!FirstPage = Search!AtMost(SrNth("eff", w, S), L)
        BY <1>5, <2>10 DEF S, w, L
      <3> QED BY <1>4, <3>2, <3>3 DEF M, w, L
    <2> QED BY <2>9, <2>10
  <1> QED BY <1>6, <1>7

SrInv ==
  /\ SrSound(srchRows) /\ srchAsk.limit \in Int /\ srchAsk.words \in BOOLEAN
  /\ srchSeen \in Seq(srchRows)
  /\ srchAt = "read" => SrIsPool(srchAsk.words, Search!Matching, srchPool, Search!PoolSize)
  /\ Search!PagesAreTheList

\* No two places of the list have one id.
LEMMA SrList ==
  ASSUME SrSound(srchRows), srchAsk.words \in BOOLEAN
  PROVE  /\ Search!WholeList \in Seq(srchRows)
         /\ \A m, n \in 1 .. Len(Search!WholeList) : Search!WholeList[m].id = Search!WholeList[n].id => m = n
  <1> DEFINE M == Search!Matching
             W == Search!WholeList
  <1>1. M \in SUBSET srchRows
    BY DEF Search!Matching
  <1>2. W = SrNth("eff", srchAsk.words, M)
    BY SrInOrder DEF Search!Ranked, Search!WholeList
  <1>3. SrIsOrder("eff", srchAsk.words, M, W)
    BY <1>1, <1>2, SrSorted
  <1> HIDE DEF M, W
  <1>4. W \in Seq(M) /\ Len(W) = Cardinality(M)
    BY <1>3 DEF SrIsOrder
  <1>5. \A n \in 1 .. Len(W) : W[n] \in srchRows
    BY <1>1, <1>4
  <1>6. W \in Seq(srchRows)
    BY <1>4, <1>5
  <1>7. \A m, n \in 1 .. Len(W) : m < n => Search!ComesBefore("eff", srchAsk.words, W[m], W[n])
    BY <1>3, <1>4 DEF SrIsOrder
  <1>8. ASSUME NEW m \in 1 .. Len(W), NEW n \in 1 .. Len(W), W[m].id = W[n].id, m # n PROVE FALSE
    <2>1. W[m] = W[n]
      BY <1>5, <1>8 DEF SrSound
    <2>2. m < n \/ n < m
      BY <1>8, <1>6
    <2>3. Search!ComesBefore("eff", srchAsk.words, W[m], W[m])
      BY <1>7, <1>8, <2>1, <2>2
    <2> QED BY <1>5, <1>8, <2>3, SrOrder
  <1>9. \A m, n \in 1 .. Len(W) : W[m].id = W[n].id => m = n
    BY <1>8
  <1> QED BY <1>6, <1>9 DEF W

LEMMA SrPrefix ==
  ASSUME NEW R, NEW s \in Seq(R), NEW t \in Seq(R)
  PROVE  Search!IsPrefix(s, t) <=> Len(s) <= Len(t) /\ \A n \in 1 .. Len(s) : s[n] = t[n]
  <1>1. Len(s) \in Nat /\ Len(t) \in Nat
    OBVIOUS
  <1>2. CASE Len(s) <= Len(t)
    <2>1. SubSeq(s, 1, Len(s)) = [n \in 1 .. Len(s) |-> s[n]]
      BY <1>1
    <2>2. SubSeq(t, 1, Len(s)) = [n \in 1 .. Len(s) |-> t[n]]
      BY <1>1, <1>2
    <2> QED BY <1>2, <2>1, <2>2 DEF Search!IsPrefix
  <1>3. CASE ~(Len(s) <= Len(t))
    BY <1>3 DEF Search!IsPrefix
  <1> QED BY <1>2, <1>3

\* What a limit leaves of a list: its beginning, and nothing only of nothing.
LEMMA SrCut ==
  ASSUME NEW R, NEW s \in Seq(R), NEW n \in Int
  PROVE  LET t == Search!AtMost(s, Search!Limit(n)) IN
         /\ t \in Seq(R) /\ Len(t) <= Len(s) /\ \A i \in 1 .. Len(t) : t[i] = s[i]
         /\ t = <<>> /\ Search!Limit(n) # 0 => Len(s) = 0
         /\ n = Search!NoLimit => t = s
  <1> DEFINE L == Search!Limit(n)
             K == IF L < Len(s) THEN L ELSE Len(s)
             t == Search!AtMost(s, L)
  <1>1. L = Search!NoLimit \/ L \in Nat
    BY DEF Search!Limit
  <1>2. n = Search!NoLimit => L = Search!NoLimit
    BY DEF Search!Limit
  <1>3. Len(s) \in Nat
    OBVIOUS
  <1> HIDE DEF L
  <1>4. CASE L = Search!NoLimit
    <2>1. t = s
      BY <1>4 DEF Search!AtMost
    <2> HIDE DEF t
    <2> QED BY <1>3, <2>1 DEF t, L
  <1>5. CASE L # Search!NoLimit
    <2>1. L \in Nat
      BY <1>1, <1>5
    <2>2. t = SubSeq(s, 1, K)
      BY <1>5 DEF Search!AtMost
    <2>3. K \in Nat /\ K <= Len(s) /\ (K = 0 /\ L # 0 => Len(s) = 0)
      BY <1>3, <2>1
    <2> HIDE DEF t, K
    <2>4. t = [i \in 1 .. K |-> s[i]]
      BY <1>3, <2>2, <2>3
    <2>5. \A i \in 1 .. K : s[i] \in R
      BY <1>3, <2>3
    <2>6. t \in Seq(R) /\ Len(t) = K
      BY <2>3, <2>4, <2>5
    <2>7. t = <<>> => K = 0
      BY <2>6
    <2> QED BY <1>2, <1>5, <2>3, <2>4, <2>6, <2>7 DEF t, L
  <1> QED BY <1>4, <1>5

LEMMA SrSame ==
  ASSUME srchRows' = srchRows, srchAsk' = srchAsk
  PROVE  Search!Matching' = Search!Matching /\ Search!WholeList' = Search!WholeList /\ Search!PoolSize' = Search!PoolSize
  <1>1. Search!Matching' = Search!Matching
    BY DEF Search!Matching
  <1>2. Search!WholeList' = Search!WholeList
    BY <1>1 DEF Search!WholeList
  <1>3. Search!PoolSize' = Search!PoolSize
    BY DEF Search!PoolSize
  <1> QED BY <1>1, <1>2, <1>3

LEMMA SrInitInv == Search!SearchInit => SrInv
  <1> SUFFICES ASSUME Search!SearchInit PROVE SrInv
    OBVIOUS
  <1>1. PICK c \in SrchCases :
          /\ \E kind \in [SrchIds -> c.kinds] : srchRows = {[kind[i] EXCEPT !.id = i] : i \in SrchIds}
          /\ srchAsk = c.ask /\ srchAt = "asking" /\ srchSeen = <<>>
    BY DEF Search!SearchInit
  <1>2. PICK kind \in [SrchIds -> c.kinds] : srchRows = {[kind[i] EXCEPT !.id = i] : i \in SrchIds}
    BY <1>1
  <1> DEFINE row(i) == [kind[i] EXCEPT !.id = i]
             f == [i \in SrchIds |-> row(i)]
  <1>3. ASSUME NEW i \in SrchIds
        PROVE  /\ row(i).id = i /\ row(i).conf = kind[i].conf /\ row(i).eff = kind[i].eff
               /\ row(i).created = kind[i].created /\ row(i).rank = kind[i].rank
    <2> DEFINE k == kind[i]
    <2>1. k \in c.kinds
      BY <1>2
    <2>2. k = [id |-> k.id, conf |-> k.conf, eff |-> k.eff, created |-> k.created, rank |-> k.rank,
               privacy |-> k.privacy, tier |-> k.tier, labels |-> k.labels, from |-> k.from, to |-> k.to]
      BY <2>1, ServicesSearches
    <2> HIDE DEF k
    <2>3. [k EXCEPT !.id = i] =
            [id |-> i, conf |-> k.conf, eff |-> k.eff, created |-> k.created, rank |-> k.rank,
             privacy |-> k.privacy, tier |-> k.tier, labels |-> k.labels, from |-> k.from, to |-> k.to]
      BY <2>2
    <2>4. /\ [k EXCEPT !.id = i].id = i /\ [k EXCEPT !.id = i].conf = k.conf /\ [k EXCEPT !.id = i].eff = k.eff
          /\ [k EXCEPT !.id = i].created = k.created /\ [k EXCEPT !.id = i].rank = k.rank
      BY <2>3
    <2> QED BY <2>4 DEF k
  <1>4. ASSUME NEW i \in SrchIds
        PROVE  /\ kind[i].conf \in Int /\ kind[i].eff \in Int /\ kind[i].created \in Int /\ kind[i].rank \in Int
               /\ kind[i].eff <= kind[i].conf /\ i \in Int
    <2>1. kind[i] \in c.kinds
      BY <1>2
    <2> QED BY <2>1, ServicesSearches
  <1>5. srchRows = {row(i) : i \in SrchIds}
    BY <1>2
  <1> HIDE DEF row
  <1>6. IsFiniteSet(srchRows)
    <2>1. f \in Surjection(SrchIds, srchRows)
      BY <1>5 DEF Surjection
    <2>2. IsFiniteSet(SrchIds)
      BY ServicesSearches
    <2> QED BY <2>1, <2>2, FS_Surjection
  <1>7. SrSound(srchRows)
    <2>1. ASSUME NEW r \in srchRows
          PROVE  r.id \in Int /\ r.conf \in Int /\ r.eff \in Int /\ r.created \in Int /\ r.rank \in Int /\ r.eff <= r.conf
      <3>1. PICK i \in SrchIds : r = row(i)
        BY <1>5
      <3> QED BY <1>3, <1>4, <3>1
    <2>2. ASSUME NEW q \in srchRows, NEW r \in srchRows, q.id = r.id PROVE q = r
      <3>1. PICK i \in SrchIds : q = row(i)
        BY <1>5
      <3>2. PICK j \in SrchIds : r = row(j)
        BY <1>5
      <3> QED BY <1>3, <2>2, <3>1, <3>2
    <2> QED BY <1>6, <2>1, <2>2 DEF SrSound
  <1>8. srchAsk.limit \in Int /\ srchAsk.words \in BOOLEAN
    BY <1>1, ServicesSearches
  <1>9. Search!IsPrefix(<<>>, Search!WholeList)
    <2>1. <<>> \in Seq(srchRows) /\ Len(<<>>) = 0 /\ Search!WholeList \in Seq(srchRows)
      BY <1>7, <1>8, SrList
    <2>2. Len(Search!WholeList) \in Nat
      BY <2>1
    <2>3. Len(<<>>) <= Len(Search!WholeList) /\ \A n \in 1 .. Len(<<>>) : <<>>[n] = Search!WholeList[n]
      BY <2>1, <2>2
    <2> QED BY <2>1, <2>3, SrPrefix
  <1> QED BY <1>1, <1>7, <1>8, <1>9 DEF SrInv, Search!PagesAreTheList

LEMMA SrReadInv == ASSUME SrInv, Search!ReadPool PROVE SrInv'
  <1>1. srchRows' = srchRows /\ srchAsk' = srchAsk /\ srchSeen' = srchSeen /\ srchAt' = "read"
    BY DEF Search!ReadPool
  <1>2. SrIsPool(srchAsk.words, Search!Matching, srchPool', Search!PoolSize)
    BY SrInOrder DEF Search!ReadPool, Search!ReadInOrder, SrIsPool
  <1>3. SrIsPool(srchAsk'.words, Search!Matching', srchPool', Search!PoolSize')
    BY <1>1, <1>2, SrSame
  <1>4. Search!PagesAreTheList'
    BY <1>1, SrSame DEF SrInv, Search!PagesAreTheList
  <1>5. SrSound(srchRows') /\ srchAsk'.limit \in Int /\ srchAsk'.words \in BOOLEAN /\ srchSeen' \in Seq(srchRows')
    BY <1>1 DEF SrInv
  <1> QED BY <1>3, <1>4, <1>5 DEF SrInv

LEMMA SrGiveInv == ASSUME SrInv, Search!GivePage PROVE SrInv'
  <1> DEFINE W == Search!WholeList
             L == Search!Limit(srchAsk.limit)
             page == Search!AtMost(W, L)
  <1>1. /\ srchRows' = srchRows /\ srchAsk' = srchAsk /\ srchSeen' = Search!FirstPage
        /\ srchAt' = IF Search!FirstPage = <<>> \/ srchAsk.limit = Search!NoLimit THEN "done" ELSE "asking"
    BY DEF Search!GivePage
  <1>2. Search!FirstPage = page
    BY SrFirst DEF SrInv, SrReady, Search!GivePage
  <1>3. W \in Seq(srchRows) /\ srchAsk.limit \in Int
    BY SrList DEF SrInv
  <1>4. /\ page \in Seq(srchRows) /\ Len(page) <= Len(W) /\ \A i \in 1 .. Len(page) : page[i] = W[i]
        /\ page = <<>> /\ L # 0 => Len(W) = 0
        /\ srchAsk.limit = Search!NoLimit => page = W
    BY <1>3, SrCut
  <1> HIDE DEF page
  <1>5. Search!IsPrefix(page, W)
    BY <1>3, <1>4, SrPrefix
  <1>6. srchAt' = "done" /\ L # 0 => page = W
    <2>1. Len(W) = 0 => W = <<>>
      BY <1>3
    <2> QED BY <1>1, <1>2, <1>4, <2>1
  <1>7. Search!PagesAreTheList'
    BY <1>1, <1>2, <1>5, <1>6, SrSame DEF Search!PagesAreTheList
  <1>8. srchAt' # "read"
    BY <1>1
  <1>9. SrSound(srchRows') /\ srchAsk'.limit \in Int /\ srchAsk'.words \in BOOLEAN /\ srchSeen' \in Seq(srchRows')
    BY <1>1, <1>2, <1>4 DEF SrInv
  <1> QED BY <1>7, <1>8, <1>9 DEF SrInv

\* Behind the last fact a caller was given comes what it was not given.
LEMMA SrBehind ==
  ASSUME SrInv, srchSeen # <<>>
  PROVE  /\ Len(srchSeen) \in 1 .. Len(Search!WholeList)
         /\ Search!Behind(Search!WholeList, srchSeen[Len(srchSeen)].id) =
              SubSeq(Search!WholeList, Len(srchSeen) + 1, Len(Search!WholeList))
  <1> DEFINE W == Search!WholeList
             k == Len(srchSeen)
             at == {i \in DOMAIN W : W[i].id = srchSeen[k].id}
  <1>1. W \in Seq(srchRows) /\ srchSeen \in Seq(srchRows) /\ \A m, n \in 1 .. Len(W) : W[m].id = W[n].id => m = n
    BY SrList DEF SrInv
  <1>2. Len(srchSeen) <= Len(W) /\ \A n \in 1 .. Len(srchSeen) : srchSeen[n] = W[n]
    BY <1>1, SrPrefix DEF SrInv, Search!PagesAreTheList
  <1>3. k \in 1 .. Len(W) /\ k \in 1 .. Len(srchSeen)
    BY <1>1, <1>2
  <1>4. srchSeen[k] = W[k]
    BY <1>2, <1>3
  <1>5. DOMAIN W = 1 .. Len(W)
    BY <1>1
  <1> HIDE DEF W, k
  <1>6. at = {k}
    BY <1>1, <1>3, <1>4, <1>5
  <1> HIDE DEF at
  <1>7. (CHOOSE i \in at : TRUE) = k /\ at # {}
    BY <1>6
  <1>8. Search!Behind(W, srchSeen[k].id) = IF at = {} THEN <<>> ELSE SubSeq(W, (CHOOSE i \in at : TRUE) + 1, Len(W))
    BY DEF Search!Behind, at
  <1>9. Search!Behind(W, srchSeen[k].id) = SubSeq(W, k + 1, Len(W))
    BY <1>7, <1>8
  <1> QED BY <1>3, <1>9 DEF W, k

LEMMA SrNextPageInv == ASSUME SrInv, Search!NextPage PROVE SrInv'
  <1> DEFINE W == Search!WholeList
             k == Len(srchSeen)
             rest == SubSeq(W, k + 1, Len(W))
             L == Search!Limit(srchAsk.limit)
             page == Search!AtMost(rest, L)
  <1>1. srchSeen # <<>>
    BY DEF Search!NextPage
  <1>2. k \in 1 .. Len(W) /\ Search!Behind(W, srchSeen[k].id) = rest
    BY <1>1, SrBehind
  <1>3. /\ srchRows' = srchRows /\ srchAsk' = srchAsk /\ srchSeen' = srchSeen \o page
        /\ srchAt' = IF page = <<>> THEN "done" ELSE "asking"
    BY <1>2 DEF Search!NextPage
  <1>4. W \in Seq(srchRows) /\ srchSeen \in Seq(srchRows) /\ srchAsk.limit \in Int
    BY SrList DEF SrInv
  <1>5. \A n \in 1 .. k : srchSeen[n] = W[n]
    BY <1>4, SrPrefix DEF SrInv, Search!PagesAreTheList
  <1> HIDE DEF W
  <1>6. rest \in Seq(srchRows) /\ Len(rest) = Len(W) - k /\ \A i \in 1 .. Len(W) - k : rest[i] = W[k + i]
    BY <1>2, <1>4
  <1> HIDE DEF rest
  <1>7. /\ page \in Seq(srchRows) /\ Len(page) <= Len(rest) /\ \A i \in 1 .. Len(page) : page[i] = rest[i]
        /\ page = <<>> /\ L # 0 => Len(rest) = 0
    BY <1>4, <1>6, SrCut
  <1> HIDE DEF page, L
  <1> DEFINE s == srchSeen \o page
  <1>8. s \in Seq(srchRows) /\ Len(s) = k + Len(page) /\ Len(page) \in Nat /\ k \in Nat /\ Len(W) \in Nat
    BY <1>4, <1>7
  <1>9. ASSUME NEW n \in 1 .. k + Len(page) PROVE s[n] = W[n]
    <2>1. CASE n <= k
      <3>1. n \in 1 .. k
        BY <1>8, <2>1
      <3>2. s[n] = srchSeen[n]
        BY <1>4, <1>7, <3>1
      <3> QED BY <1>5, <3>1, <3>2
    <2>2. CASE n > k
      <3>1. n - k \in 1 .. Len(page) /\ n - k \in 1 .. Len(W) - k /\ k + (n - k) = n
        BY <1>6, <1>7, <1>8, <2>2
      <3>2. s[n] = page[n - k]
        BY <1>4, <1>7, <1>8, <2>2
      <3>3. page[n - k] = rest[n - k] /\ rest[n - k] = W[n]
        BY <1>6, <1>7, <3>1
      <3> QED BY <3>2, <3>3
    <2> QED BY <1>8, <2>1, <2>2
  <1> HIDE DEF s
  <1>10. Search!IsPrefix(s, W)
    <2>1. Len(s) <= Len(W)
      BY <1>6, <1>7, <1>8
    <2>2. \A n \in 1 .. Len(s) : s[n] = W[n]
      BY <1>8, <1>9
    <2> QED BY <1>4, <1>8, <2>1, <2>2, SrPrefix
  <1>11. srchAt' = "done" /\ L # 0 => s = W
    <2>1. SUFFICES ASSUME srchAt' = "done", L # 0 PROVE s = W
      OBVIOUS
    <2>2. page = <<>> /\ Len(rest) = 0
      BY <1>3, <1>7, <2>1
    <2>3. Len(s) = Len(W) /\ Len(s) = k + Len(page)
      BY <1>6, <1>8, <2>2
    <2>4. \A n \in 1 .. Len(s) : s[n] = W[n]
      BY <1>8, <1>9
    <2>5. s = [n \in 1 .. Len(s) |-> s[n]] /\ W = [n \in 1 .. Len(W) |-> W[n]]
      BY <1>4, <1>8
    <2>6. Len(s) = Len(W)
      BY <1>8, <2>3
    <2> QED BY <2>4, <2>5, <2>6
  <1>12. srchSeen' = s
    BY <1>3 DEF s
  <1>13. Search!WholeList' = W
    BY <1>3, SrSame DEF W
  <1>14. Search!Limit(srchAsk'.limit) = L
    BY <1>3 DEF L
  <1>15. Search!PagesAreTheList'
    BY <1>10, <1>11, <1>12, <1>13, <1>14 DEF Search!PagesAreTheList
  <1>16. srchAt' # "read"
    BY <1>3
  <1>17. SrSound(srchRows') /\ srchAsk'.limit \in Int /\ srchAsk'.words \in BOOLEAN /\ srchSeen' \in Seq(srchRows')
    BY <1>3, <1>8, <1>12 DEF SrInv
  <1> QED BY <1>15, <1>16, <1>17 DEF SrInv

LEMMA SrNextInv == SrInv /\ [Search!SearchNext]_SearchVars => SrInv'
  <1> SUFFICES ASSUME SrInv, [Search!SearchNext]_SearchVars PROVE SrInv'
    OBVIOUS
  <1>1. CASE Search!ReadPool
    BY <1>1, SrReadInv
  <1>2. CASE Search!GivePage
    BY <1>2, SrGiveInv
  <1>3. CASE Search!NextPage
    BY <1>3, SrNextPageInv
  <1>4. CASE UNCHANGED SearchVars
    <2>1. /\ srchRows' = srchRows /\ srchAsk' = srchAsk /\ srchSeen' = srchSeen /\ srchAt' = srchAt /\ srchPool' = srchPool
      BY <1>4 DEF SearchVars
    <2>2. Search!PagesAreTheList'
      BY <2>1, SrSame DEF SrInv, Search!PagesAreTheList
    <2> QED BY <2>1, <2>2, SrSame DEF SrInv
  <1> QED BY <1>1, <1>2, <1>3, <1>4 DEF Search!SearchNext

\* The pages of a search, one behind the other, are the list the in-memory
\* store ranks, for any rows, pools and pages (sqlite-memory-store.ts:1091-1207):
\* what the first read leaves out has a whole page before it, since decay only
\* takes confidence away.
THEOREM ServicesPagesAreTheList == Spec => []PagesAreTheList
  <1> DEFINE Inv == part = "search" => SrInv
  <1>1. Init => Inv
    BY SrInitInv DEF Init
  <1>2. Inv /\ [Next]_vars => Inv'
    BY OnePartMoves, SrNextInv
  <1>3. Inv => PagesAreTheList
    BY DEF PagesAreTheList, SrInv
  <1> HIDE DEF Inv
  <1> QED BY <1>1, <1>2, <1>3, PTL DEF Spec

=============================================================================
