----------------------------- MODULE AuditLog -----------------------------
(* The chained audit log: src/governance/audit.ts (ChainedAudit and the     *)
(* verifiers) over src/governance/chain.ts.                                 *)
(*                                                                          *)
(* A process appends one line for each event; a line carries the hash of    *)
(* the line before it and its own.  Calls are chained on one promise, the   *)
(* tail, so they are written one after another although any number may be   *)
(* in flight.  The file is read once, at the first call, and must verify.   *)
(* An append that fails may have written nothing, a part, or the whole      *)
(* line: nothing more is written until a restart reads the file again.      *)
(*                                                                          *)
(* A digest is modelled as what it stands for: the sequence of keys and     *)
(* events it was computed from, so two digests are equal exactly when their *)
(* chains are.  A file is a sequence of lines: a "line" is a record with its  *)
(* newline, an "unended" one lacks the newline, a "part" is the beginning of  *)
(* one, and "junk" a whole line that is not a chained record.               *)
EXTENDS Naturals, Sequences, FiniteSets

CONSTANTS LogProcs,      \* processes that may open a log
          LogFiles,      \* paths of logs; one directory holds them all
          LogKeys,       \* HMAC keys a log may be opened with
          LogMaxEvents,  \* bound: events recorded in all
          LogMaxStarts   \* bound: times a process opens a log

VARIABLES logText,   \* the lines of each file
          logOpen,   \* the ChainedAudit each process holds: its path and key, or NoLog
          logTail,   \* what its tail settled to: "unread", "ready" or "refused"
          logBase,   \* the hash a ready tail holds
          logQueue,  \* the events whose record() has not settled, in call order
          logCalls,  \* how many events record() was called with
          logStarts, \* how many times a log was opened
          logTold,   \* of each file, the events a caller was told are recorded
          logShared  \* the files two processes have held open at once

logVars == <<logText, logOpen, logTail, logBase, logQueue, logCalls, logStarts, logTold, logShared>>

NoLog == [file |-> "none", key |-> "none"]

----------------------------------------------------------------------------
(* The chain *)

Genesis == <<>>

Digest(prev, event, key) == Append(prev, <<key, event>>)

ChainLine(prev, event, key) == [kind |-> "line", prev |-> prev, hash |-> Digest(prev, event, key), event |-> event]
Broken(kind) == [kind |-> kind, prev |-> Genesis, hash |-> Genesis, event |-> 0]

\* The hash the line at i has to follow.
Before(text, i) == IF i = 1 THEN Genesis ELSE text[i - 1].hash

LinkSound(line, prev, key) ==
  /\ line.kind \in {"line", "unended"}
  /\ line.prev = prev
  /\ line.hash = Digest(prev, line.event, key)

\* Whether a text verifies under a key, as verify-audit says it: a last line
\* that lacks nothing but its newline is read like any other.
Verifies(text, key) == \A i \in DOMAIN text : LinkSound(text[i], Before(text, i), key)

\* What a visitor of the trail is shown.
Shown(text) == [i \in DOMAIN text |-> text[i].event]

HeadOf(text) == IF text = <<>> THEN Genesis ELSE text[Len(text)].hash

\* One file, or a directory: every file of it on its own, and at least one;
\* an anchored head names one chain and so never a directory.
LogsVerify(files, key) ==
  /\ files # {}
  /\ \A f \in files : Verifies(logText[f], key)

----------------------------------------------------------------------------
(* Bytes put at the end of a text *)

Unended(text) == text # <<>> /\ text[Len(text)].kind \in {"part", "unended"}

\* A line written behind one without a newline becomes one line with it.
Written(text, line) ==
  IF Unended(text)
    THEN [text EXCEPT ![Len(text)] = Broken(IF line.kind = "line" THEN "junk" ELSE "part")]
    ELSE Append(text, line)

\* What an append that breaks off may have put there.
Fragments(line) == {Broken("part"), [line EXCEPT !.kind = "unended"]}

----------------------------------------------------------------------------
(* The operations *)

LogInit ==
  /\ logText = [f \in LogFiles |-> <<>>]
  /\ logOpen = [p \in LogProcs |-> NoLog]
  /\ logTail = [p \in LogProcs |-> "unread"]
  /\ logBase = [p \in LogProcs |-> Genesis]
  /\ logQueue = [p \in LogProcs |-> <<>>]
  /\ logCalls = 0
  /\ logStarts = 0
  /\ logTold = [f \in LogFiles |-> <<>>]
  /\ logShared = {}

\* A process makes its ChainedAudit.  auditLogPath gives each its own file; a
\* caller may name one itself, also one that is there already.
OpenLog(p, f, k) ==
  /\ logOpen[p] = NoLog
  /\ logStarts < LogMaxStarts
  /\ logStarts' = logStarts + 1
  /\ logOpen' = [logOpen EXCEPT ![p] = [file |-> f, key |-> k]]
  /\ logTail' = [logTail EXCEPT ![p] = "unread"]
  /\ logShared' = IF \E q \in LogProcs \ {p} : logOpen[q].file = f THEN logShared \cup {f} ELSE logShared
  /\ UNCHANGED <<logText, logBase, logQueue, logCalls, logTold>>

\* record(): the event takes its place behind those in flight.
RecordLine(p) ==
  /\ logOpen[p] # NoLog
  /\ logCalls < LogMaxEvents
  /\ logCalls' = logCalls + 1
  /\ logQueue' = [logQueue EXCEPT ![p] = Append(@, logCalls + 1)]
  /\ UNCHANGED <<logText, logOpen, logTail, logBase, logStarts, logTold, logShared>>

\* A variant that goes on after a torn last line.
MayExtendTorn(text, key) == Verifies(text, key)

\* readHead(): the head of a file that verifies and ends cleanly; a rejection
\* is held, and every later call rejects with it.
MayExtend(text, key) == ~Unended(text) /\ Verifies(text, key)

ReadHead(p) ==
  LET text == logText[logOpen[p].file] IN
  /\ logQueue[p] # <<>>
  /\ logTail[p] = "unread"
  /\ IF MayExtend(text, logOpen[p].key)
       THEN /\ logTail' = [logTail EXCEPT ![p] = "ready"]
            /\ logBase' = [logBase EXCEPT ![p] = HeadOf(text)]
       ELSE /\ logTail' = [logTail EXCEPT ![p] = "refused"]
            /\ UNCHANGED logBase
  /\ UNCHANGED <<logText, logOpen, logQueue, logCalls, logStarts, logTold, logShared>>

\* The first event in flight is written, and the tail is its hash.
AppendLine(p) ==
  LET f == logOpen[p].file
      line == ChainLine(logBase[p], Head(logQueue[p]), logOpen[p].key)
  IN
  /\ logQueue[p] # <<>>
  /\ logTail[p] = "ready"
  /\ logText' = [logText EXCEPT ![f] = Written(@, line)]
  /\ logBase' = [logBase EXCEPT ![p] = line.hash]
  /\ logTold' = [logTold EXCEPT ![f] = Append(@, line.event)]
  /\ logQueue' = [logQueue EXCEPT ![p] = Tail(@)]
  /\ UNCHANGED <<logOpen, logTail, logCalls, logStarts, logShared>>

\* The append fails, with nothing, a part or all of the line in the file.
FailAppend(p) ==
  LET f == logOpen[p].file
      line == ChainLine(logBase[p], Head(logQueue[p]), logOpen[p].key)
  IN
  /\ logQueue[p] # <<>>
  /\ logTail[p] = "ready"
  /\ \/ UNCHANGED logText
     \/ \E bytes \in Fragments(line) \cup {line} : logText' = [logText EXCEPT ![f] = Written(@, bytes)]
  /\ logTail' = [logTail EXCEPT ![p] = "refused"]
  /\ logQueue' = [logQueue EXCEPT ![p] = Tail(@)]
  /\ UNCHANGED <<logOpen, logBase, logCalls, logStarts, logTold, logShared>>

\* A call that waited for a tail which rejected rejects with it.
RejectLine(p) ==
  /\ logQueue[p] # <<>>
  /\ logTail[p] = "refused"
  /\ logQueue' = [logQueue EXCEPT ![p] = Tail(@)]
  /\ UNCHANGED <<logText, logOpen, logTail, logBase, logCalls, logStarts, logTold, logShared>>

\* The process ends, between two appends or in one.
StopLog(p) ==
  LET f == logOpen[p].file
      line == ChainLine(logBase[p], Head(logQueue[p]), logOpen[p].key)
  IN
  /\ logOpen[p] # NoLog
  /\ \/ UNCHANGED logText
     \/ /\ logQueue[p] # <<>>
        /\ logTail[p] = "ready"
        /\ \E bytes \in Fragments(line) \cup {line} : logText' = [logText EXCEPT ![f] = Written(@, bytes)]
  /\ logOpen' = [logOpen EXCEPT ![p] = NoLog]
  /\ logQueue' = [logQueue EXCEPT ![p] = <<>>]
  /\ logTail' = [logTail EXCEPT ![p] = "unread"]
  /\ logBase' = [logBase EXCEPT ![p] = Genesis]
  /\ UNCHANGED <<logCalls, logStarts, logTold, logShared>>

\* Somebody does what the refusal asks for: removes the incomplete last line.
RemovePart(f) ==
  /\ Unended(logText[f])
  /\ logText' = [logText EXCEPT ![f] = SubSeq(@, 1, Len(@) - 1)]
  /\ UNCHANGED <<logOpen, logTail, logBase, logQueue, logCalls, logStarts, logTold, logShared>>

LogStep(p) == ReadHead(p) \/ AppendLine(p) \/ FailAppend(p) \/ RejectLine(p)

LogNext ==
  \/ \E p \in LogProcs :
       \/ \E f \in LogFiles, k \in LogKeys : OpenLog(p, f, k)
       \/ RecordLine(p)
       \/ ReadHead(p)
       \/ AppendLine(p)
       \/ FailAppend(p)
       \/ RejectLine(p)
       \/ StopLog(p)
  \/ \E f \in LogFiles : RemovePart(f)

LogSpec == LogInit /\ [][LogNext]_logVars /\ \A p \in LogProcs : WF_logVars(LogStep(p))

----------------------------------------------------------------------------
(* Properties *)

IsLine(l) == l.kind \in {"line", "unended", "part", "junk"} /\ l.event \in 0 .. LogMaxEvents

\* The type of the log's state.
LogTypeOK ==
  /\ \A f \in LogFiles : \A i \in DOMAIN logText[f] : IsLine(logText[f][i])
  /\ logOpen \in [LogProcs -> {NoLog} \cup [file : LogFiles, key : LogKeys]]
  /\ logTail \in [LogProcs -> {"unread", "ready", "refused"}]
  /\ \A p \in LogProcs : logTail[p] # "unread" => logOpen[p] # NoLog
  /\ logCalls \in 0 .. LogMaxEvents /\ logStarts \in 0 .. LogMaxStarts
  /\ logShared \subseteq LogFiles

\* The events of s are events of t in the same order (each occurs once).
InOrderWithin(s, t) ==
  /\ \A i \in DOMAIN s : \E j \in DOMAIN t : t[j] = s[i]
  /\ \A i, j \in DOMAIN s : \A k, l \in DOMAIN t : i < j /\ t[k] = s[i] /\ t[l] = s[j] => k < l

\* A log with one writer at a time is one chain under one key at all times, up
\* to an incomplete last line: whatever failed, was cut off or restarted,
\* nothing was ever chained onto a fragment, a stale head or another key's line.
LogStaysOneChain ==
  \A f \in LogFiles \ logShared :
    LET text == logText[f]
        whole == IF Unended(text) THEN SubSeq(text, 1, Len(text) - 1) ELSE text
    IN \E k \in LogKeys : Verifies(whole, k)

\* A trail that verifies shows every event a caller was told is recorded, in
\* the order they were told - in a file two processes forked as well, because
\* such a file does not verify.
VerifiedLogsShowAll ==
  \A k \in LogKeys, files \in SUBSET LogFiles :
    LogsVerify(files, k) => \A f \in files : InOrderWithin(logTold[f], Shown(logText[f]))

\* Every call of record() settles: a rejected read, a failed append or a dead
\* process never leaves a caller waiting behind it.
LogCallsSettle == \A p \in LogProcs : logQueue[p] # <<>> ~> logQueue[p] = <<>>
============================================================================
