---------------------------- MODULE AuditTable ----------------------------
(* The audit trail as a table: src/governance/audit-table.ts and the        *)
(* transactions of src/sqlite-memory-store.ts that write it.                *)
(*                                                                          *)
(* Any number of processes share one chain: the tail is read and extended   *)
(* inside the write transaction that changes the fact.  A process verifies  *)
(* the chain once, before its first write.  The table also knows the        *)
(* highest number it ever gave out (AUTOINCREMENT's row in                  *)
(* sqlite_sequence), which a DELETE leaves alone.                           *)
(*                                                                          *)
(* As in AuditLog a digest is the sequence of events it was computed from.  *)
EXTENDS Naturals, Sequences, FiniteSets

CONSTANTS TabProcs,      \* processes that have the database open
          TabMaxEvents,  \* bound: governed calls
          TabMaxHarm,    \* bound: times somebody alters the table by hand
          TabMaxReads    \* bound: times verify-audit is asked

VARIABLES tabRows,    \* audit_events, in order of seq
          tabMark,    \* the mark in sqlite_sequence; 0 when there is no row
          tabChecked, \* the processes whose AuditEventTable has verified the chain
          tabCall,    \* what each process is at, and what it has read so far
          tabCalls,   \* how many governed calls were made
          tabReads,   \* how many verifications were asked for
          tabHarm,    \* how many times the table was altered by hand
          tabMissing, \* committed events no longer in the table as they were written
          tabRegrown, \* whether a row was appended behind a newest one cut off
          tabVerdict  \* of each process, the last verification and what it should have named

tabVars == <<tabRows, tabMark, tabChecked, tabCall, tabCalls, tabReads, tabHarm, tabMissing, tabRegrown, tabVerdict>>

Idle == [at |-> "idle"]
NoVerdict == [said |-> "none"]

----------------------------------------------------------------------------
(* The table *)

RowHash(prev, event) == Append(prev, event)
AuditRow(seq, prev, event) == [seq |-> seq, prev |-> prev, hash |-> RowHash(prev, event), event |-> event]

TailHash(rows) == IF rows = <<>> THEN <<>> ELSE rows[Len(rows)].hash

\* walk(): every row follows the one before it and hashes to what it says.
WalkSound(rows) ==
  \A i \in DOMAIN rows :
    /\ rows[i].prev = (IF i = 1 THEN <<>> ELSE rows[i - 1].hash)
    /\ rows[i].hash = RowHash(rows[i].prev, rows[i].event)

\* A variant that takes the rows there are for all there were.
TailSoundAsFound(rows, mark) == mark = 0 \/ (rows # <<>> /\ rows[1].seq = 1)

\* tailFault(): what the mark says of rows that are no longer there.
TailSound(rows, mark) ==
  \/ mark = 0
  \/ /\ rows # <<>>
     /\ rows[Len(rows)].seq >= mark
     /\ rows[1].seq = 1

TableSound(read) == WalkSound(read.rows) /\ TailSound(read.rows, read.mark)

\* verifyOpenTable(): the count, the rows and the mark, in one read snapshot.
Snapshot == [rows |-> tabRows, mark |-> tabMark, missing |-> tabMissing, regrown |-> tabRegrown, harm |-> tabHarm]

\* The mark a snapshot is judged with is the one it was taken with.
MarkOf(read) == read.mark

Judgement(read) ==
  [said |-> IF TableSound([read EXCEPT !.mark = MarkOf(read)]) THEN "ok" ELSE "fault",
   missing |-> read.missing, regrown |-> read.regrown, harm |-> read.harm]

----------------------------------------------------------------------------
(* The operations *)

TabInit ==
  /\ tabRows = <<>>
  /\ tabMark = 0
  /\ tabChecked = {}
  /\ tabCall = [p \in TabProcs |-> Idle]
  /\ tabCalls = 0
  /\ tabReads = 0
  /\ tabHarm = 0
  /\ tabMissing = {}
  /\ tabRegrown = FALSE
  /\ tabVerdict = [p \in TabProcs |-> NoVerdict]

At(p, s) == tabCall[p].at = s
Goes(p, c) == tabCall' = [tabCall EXCEPT ![p] = c]

\* A write transaction is open, with or without its row.
InWrite(p) == At(p, "changed") \/ At(p, "tailed")
Locked == \E p \in TabProcs : InWrite(p)

\* auditedMutation(), recordAuditEvent(): ensureChecked() runs before the
\* transaction, and reads the table unless this process has verified it.
BeginCall(p) ==
  /\ At(p, "idle")
  /\ tabCalls < TabMaxEvents
  /\ tabCalls' = tabCalls + 1
  /\ Goes(p, IF p \in tabChecked THEN [at |-> "checked", event |-> tabCalls + 1]
             ELSE [at |-> "reading", event |-> tabCalls + 1, read |-> Snapshot])
  /\ UNCHANGED <<tabRows, tabMark, tabChecked, tabReads, tabHarm, tabMissing, tabRegrown, tabVerdict>>

\* verifyAudit(), verify-audit: the same reading, on its own.
AskVerdict(p) ==
  /\ At(p, "idle")
  /\ tabReads < TabMaxReads
  /\ tabReads' = tabReads + 1
  /\ Goes(p, [at |-> "reading", event |-> 0, read |-> Snapshot])
  /\ UNCHANGED <<tabRows, tabMark, tabChecked, tabCalls, tabHarm, tabMissing, tabRegrown, tabVerdict>>

\* The reading ends.  A call goes on only over a sound chain, and then this
\* process never checks it again.
EndReading(p) ==
  LET verdict == Judgement(tabCall[p].read) IN
  /\ At(p, "reading")
  /\ tabVerdict' = [tabVerdict EXCEPT ![p] = verdict]
  /\ IF tabCall[p].event # 0 /\ verdict.said = "ok"
       THEN /\ tabChecked' = tabChecked \cup {p}
            /\ Goes(p, [at |-> "checked", event |-> tabCall[p].event])
       ELSE Goes(p, Idle) /\ UNCHANGED tabChecked
  /\ UNCHANGED <<tabRows, tabMark, tabCalls, tabReads, tabHarm, tabMissing, tabRegrown>>

\* BEGIN IMMEDIATE takes the write lock; the body makes its change in it.
TakeLock(p) ==
  /\ At(p, "checked")
  /\ ~Locked
  /\ Goes(p, [at |-> "changed", event |-> tabCall[p].event])
  /\ UNCHANGED <<tabRows, tabMark, tabChecked, tabCalls, tabReads, tabHarm, tabMissing, tabRegrown, tabVerdict>>

\* append(): the newest hash, read under the lock.
ReadTail(p) ==
  /\ At(p, "changed")
  /\ Goes(p, [at |-> "tailed", event |-> tabCall[p].event, prev |-> TailHash(tabRows)])
  /\ UNCHANGED <<tabRows, tabMark, tabChecked, tabCalls, tabReads, tabHarm, tabMissing, tabRegrown, tabVerdict>>

\* A variant that inserts a row and leaves the high-water mark.
CommitUnmarked(p) ==
  /\ At(p, "tailed")
  /\ tabRows' = Append(tabRows, AuditRow(tabMark + 1, tabCall[p].prev, tabCall[p].event))
  /\ Goes(p, Idle)
  /\ UNCHANGED <<tabMark, tabChecked, tabCalls, tabReads, tabHarm, tabMissing, tabRegrown, tabVerdict>>

\* The row is inserted under the next number and the transaction commits.
CommitRow(p) ==
  /\ At(p, "tailed")
  /\ tabRows' = Append(tabRows, AuditRow(tabMark + 1, tabCall[p].prev, tabCall[p].event))
  /\ tabMark' = tabMark + 1
  /\ tabRegrown' = (tabRegrown \/ (tabRows # <<>> /\ tabRows[Len(tabRows)].seq < tabMark))
  /\ Goes(p, Idle)
  /\ UNCHANGED <<tabChecked, tabCalls, tabReads, tabHarm, tabMissing, tabVerdict>>

\* The lock stays busy too long, or the change or the insert fails: the
\* transaction leaves neither the fact nor the event, nor a number used up.
Abandon(p) ==
  /\ At(p, "checked") \/ InWrite(p)
  /\ Goes(p, Idle)
  /\ UNCHANGED <<tabRows, tabMark, tabChecked, tabCalls, tabReads, tabHarm, tabMissing, tabRegrown, tabVerdict>>

\* The process ends and another opens the database: it has checked nothing.
Reopen(p) ==
  /\ p \in tabChecked
  /\ tabChecked' = tabChecked \ {p}
  /\ Goes(p, Idle)
  /\ UNCHANGED <<tabRows, tabMark, tabCalls, tabReads, tabHarm, tabMissing, tabRegrown, tabVerdict>>

\* Somebody deletes rows by hand: the newest, the oldest or all of them.
DeleteRows ==
  LET n == Len(tabRows) IN
  /\ ~Locked
  /\ n > 0
  /\ tabHarm < TabMaxHarm
  /\ \E kept \in {SubSeq(tabRows, 1, n - 1), SubSeq(tabRows, 2, n), <<>>} :
       /\ tabRows' = kept
       /\ tabMissing' = tabMissing \cup ({tabRows[i].event : i \in 1 .. n} \ {kept[i].event : i \in DOMAIN kept})
  /\ tabHarm' = tabHarm + 1
  /\ UNCHANGED <<tabMark, tabChecked, tabCall, tabCalls, tabReads, tabRegrown, tabVerdict>>

\* ... or edits what a row says.
EditRow ==
  /\ ~Locked
  /\ tabHarm < TabMaxHarm
  /\ \E i \in DOMAIN tabRows :
       /\ tabRows[i].event # 0
       /\ tabRows' = [tabRows EXCEPT ![i].event = 0]
       /\ tabMissing' = tabMissing \cup {tabRows[i].event}
  /\ tabHarm' = tabHarm + 1
  /\ UNCHANGED <<tabMark, tabChecked, tabCall, tabCalls, tabReads, tabRegrown, tabVerdict>>

TabNext ==
  \/ \E p \in TabProcs :
       \/ BeginCall(p)
       \/ AskVerdict(p)
       \/ EndReading(p)
       \/ TakeLock(p)
       \/ ReadTail(p)
       \/ CommitRow(p)
       \/ Abandon(p)
       \/ Reopen(p)
  \/ DeleteRows
  \/ EditRow

TabSpec == TabInit /\ [][TabNext]_tabVars

----------------------------------------------------------------------------
(* Properties *)

\* The type of the table's state; the lock has at most one holder.
TabTypeOK ==
  /\ \A i \in DOMAIN tabRows : tabRows[i].seq \in 1 .. tabMark /\ tabRows[i].event \in 0 .. TabMaxEvents
  /\ tabMark \in 0 .. TabMaxEvents
  /\ tabChecked \subseteq TabProcs
  /\ \A p \in TabProcs : tabCall[p].at \in {"idle", "reading", "checked", "changed", "tailed"}
  /\ \A p, q \in TabProcs : InWrite(p) /\ InWrite(q) => p = q

\* However many processes write, the table is one chain, numbered without a
\* gap, as long as nobody altered it by hand.
ProcessesShareOneChain ==
  tabHarm = 0 => WalkSound(tabRows) /\ \A i \in DOMAIN tabRows : tabRows[i].seq = i

\* A table nobody altered is never reported as altered, whatever other
\* processes appended while it was being read (verifyOpenTable's comment).
NoFalseAlarm == \A p \in TabProcs : tabVerdict[p].said = "fault" => tabVerdict[p].harm > 0

\* A table in which an event is missing or changed is never called intact,
\* unless the newest row was cut off and another was appended since.
AlteredIsNamed ==
  \A p \in TabProcs : tabVerdict[p].said = "ok" => tabVerdict[p].missing = {} \/ tabVerdict[p].regrown

\* What audit-table.ts:23-27 and 218-220 say of the table: a cut-off tail is
\* caught, and a chain corrupted under a process that had checked it is still
\* named when it is verified.
CutTailIsNamed == \A p \in TabProcs : tabVerdict[p].said = "ok" => tabVerdict[p].missing = {}
============================================================================
