----------------------------- MODULE Background_proofs -----------------------------
(***************************************************************************)
(* What holds of the parts of MCBackground for any processes, files, keys, *)
(* recalls, issuers and bounds, and of the searches of DerivedSearch,      *)
(* which it extends: they find exactly the facts they should, for every    *)
(* number of facts, every graph and every set of facts still in force.     *)
(***************************************************************************)
EXTENDS MCBackground, TLAPS

\* Whatever part moves, each part makes a step of its own or rests.
LEMMA EachPartStepsOrRests ==
  ASSUME [AllNext]_allVars
  PROVE  /\ part' = part
         /\ [Log!LogNext]_LogVars
         /\ [Embedder!EmbNext]_EmbedderVars
         /\ [Oidc!OiNext]_OidcVars
  BY DEF AllNext, allVars, Alone, DerivedMoves, LogMoves, EmbedderMoves, ServerMoves, OidcMoves

-----------------------------------------------------------------------------
(* The log.                                                                *)

LgHash == Seq(LogKeys \X Nat)
LgLine == [kind : {"line", "unended", "part", "junk"}, prev : LgHash, hash : LgHash, event : Nat]

LgTypes ==
  /\ logText \in [LogFiles -> Seq(LgLine)]
  /\ logOpen \in [LogProcs -> {Log!NoLog} \cup [file : LogFiles, key : LogKeys]]
  /\ logTail \in [LogProcs -> {"unread", "ready", "refused"}]
  /\ logBase \in [LogProcs -> LgHash]
  /\ logQueue \in [LogProcs -> Seq(Nat)]
  /\ logCalls \in Nat
  /\ logTold \in [LogFiles -> Seq(Nat)]
  /\ \A p \in LogProcs : logOpen[p] = Log!NoLog => (logQueue[p] = <<>> /\ logTail[p] = "unread")

\* An event is in flight once, and is on no line and told to nobody before it is written.
LgUnwritten(texts, tolds, event) ==
  \A f \in LogFiles : /\ \A k \in DOMAIN texts[f] : texts[f][k].event # event
                      /\ \A k \in DOMAIN tolds[f] : tolds[f][k] # event

LgNews ==
  /\ \A p \in LogProcs : \A i \in DOMAIN logQueue[p] :
       /\ logQueue[p][i] # 0 /\ logQueue[p][i] <= logCalls
       /\ LgUnwritten(logText, logTold, logQueue[p][i])
  /\ \A p, q \in LogProcs : \A i \in DOMAIN logQueue[p], j \in DOMAIN logQueue[q] :
       logQueue[p][i] = logQueue[q][j] => (p = q /\ i = j)
  /\ \A f \in LogFiles : /\ \A k \in DOMAIN logText[f] : logText[f][k].event <= logCalls
                         /\ \A k \in DOMAIN logTold[f] : logTold[f][k] # 0 /\ logTold[f][k] <= logCalls

\* No event is on two lines, and unless a line was spoilt for good, all that was
\* told stands on whole lines in the order it was told.
LgSpoilt(text) == \E k \in DOMAIN text : text[k].kind = "junk"
LgOnce(text) == \A k, l \in DOMAIN text : text[k].event = text[l].event /\ text[k].event # 0 => k = l
LgStands(text, told) == \A i \in DOMAIN told : \E k \in DOMAIN text : text[k].kind = "line" /\ text[k].event = told[i]
LgInOrder(text, told) ==
  \A i, j \in DOMAIN told : \A k, l \in DOMAIN text : i < j /\ text[k].event = told[i] /\ text[l].event = told[j] => k < l
LgShows(text, told) == LgOnce(text) /\ (LgSpoilt(text) \/ (LgStands(text, told) /\ LgInOrder(text, told)))

\* A file no two processes had open at once: all of it but an incomplete last
\* line verifies, and a process ready to write has its head.
LgWhole(text) == IF Log!Unended(text) THEN SubSeq(text, 1, Len(text) - 1) ELSE text
LgEnded(text) == \A k \in DOMAIN text : k < Len(text) => text[k].kind = "line"
LgReady(text, key, base) == ~Log!Unended(text) /\ Log!Verifies(text, key) /\ base = Log!HeadOf(text)
LgChain(f) ==
  /\ \A p, q \in LogProcs : logOpen[p].file = f /\ logOpen[q].file = f => p = q
  /\ LgEnded(logText[f])
  /\ \E k \in LogKeys : Log!Verifies(LgWhole(logText[f]), k)
  /\ \A p \in LogProcs : logOpen[p].file = f /\ logTail[p] = "ready" => LgReady(logText[f], logOpen[p].key, logBase[p])

LgInv ==
  /\ LgTypes
  /\ LgNews
  /\ \A f \in LogFiles : LgShows(logText[f], logTold[f])
  /\ \A f \in LogFiles \ logShared : LgChain(f)

-----------------------------------------------------------------------------
(* Texts.                                                                  *)

\* Where the lines of a text written to come from.
LEMMA LgWritten ==
  ASSUME NEW text \in Seq(LgLine), NEW line \in LgLine
  PROVE  /\ Log!Written(text, line) \in Seq(LgLine)
         /\ ~Log!Unended(text) => Log!Written(text, line) = Append(text, line)
         /\ Log!Unended(text) =>
              /\ Len(text) \in DOMAIN text /\ DOMAIN Log!Written(text, line) = DOMAIN text
              /\ \A k \in DOMAIN text : k # Len(text) => Log!Written(text, line)[k] = text[k]
              /\ Log!Written(text, line)[Len(text)].event = 0
              /\ Log!Written(text, line)[Len(text)].kind = IF line.kind = "line" THEN "junk" ELSE "part"
  <1>1. CASE ~Log!Unended(text)
    BY <1>1 DEF Log!Written
  <1>2. CASE Log!Unended(text)
    <2> DEFINE end == Log!Broken(IF line.kind = "line" THEN "junk" ELSE "part")
    <2>1. <<>> \in LgHash
      BY DEF LgHash
    <2>2. end \in LgLine /\ end.event = 0 /\ end.kind = IF line.kind = "line" THEN "junk" ELSE "part"
      BY <2>1 DEF Log!Broken, Log!Genesis, LgLine
    <2>3. Log!Written(text, line) = [text EXCEPT ![Len(text)] = end] /\ text # <<>>
      BY <1>2 DEF Log!Written, Log!Unended
    <2> HIDE DEF end
    <2>4. Len(text) \in DOMAIN text
      BY <2>3
    <2> DEFINE new == Log!Written(text, line)
    <2>5. /\ new \in Seq(LgLine) /\ DOMAIN new = DOMAIN text
          /\ \A k \in DOMAIN text : k # Len(text) => new[k] = text[k]
          /\ new[Len(text)] = end
      BY <2>2, <2>3, <2>4
    <2> HIDE DEF new
    <2>6. new[Len(text)].event = 0 /\ new[Len(text)].kind = IF line.kind = "line" THEN "junk" ELSE "part"
      BY <2>2, <2>5
    <2> QED BY <1>2, <2>4, <2>5, <2>6 DEF new
  <1> QED BY <1>1, <1>2

\* A line of a new event, or a part of one, takes nothing from what is shown ...
LEMMA LgWrittenShows ==
  ASSUME NEW text \in Seq(LgLine), NEW told \in Seq(Nat), LgShows(text, told), NEW line \in LgLine,
         \A k \in DOMAIN told : told[k] # 0,
         \/ line.event = 0
         \/ (\A k \in DOMAIN text : text[k].event # line.event) /\ (\A k \in DOMAIN told : told[k] # line.event)
  PROVE  LgShows(Log!Written(text, line), told)
  <1> DEFINE new == Log!Written(text, line)
  <1>1. CASE ~Log!Unended(text)
    <2>1. new = Append(text, line)
      BY <1>1, LgWritten
    <2>2. /\ DOMAIN text = 1..Len(text) /\ DOMAIN new = 1..(Len(text) + 1) /\ Len(text) \in Nat
          /\ (\A k \in DOMAIN text : new[k] = text[k]) /\ new[Len(text) + 1] = line
      BY <2>1
    <2> HIDE DEF new
    <2>3. LgOnce(new)
      BY <2>2 DEF LgShows, LgOnce
    <2>4. LgSpoilt(text) => LgSpoilt(new)
      BY <2>2 DEF LgSpoilt
    <2>5. ASSUME LgStands(text, told) PROVE LgStands(new, told)
      <3> SUFFICES ASSUME NEW i \in DOMAIN told PROVE \E k \in DOMAIN new : new[k].kind = "line" /\ new[k].event = told[i]
        BY DEF LgStands
      <3>1. PICK k \in DOMAIN text : text[k].kind = "line" /\ text[k].event = told[i]
        BY <2>5 DEF LgStands
      <3> QED BY <2>2, <3>1
    <2>6. ASSUME LgInOrder(text, told) PROVE LgInOrder(new, told)
      <3>1. \A i \in DOMAIN told : told[i] # line.event
        OBVIOUS
      <3> SUFFICES ASSUME NEW i \in DOMAIN told, NEW j \in DOMAIN told, NEW k \in DOMAIN new, NEW l \in DOMAIN new,
                          i < j, new[k].event = told[i], new[l].event = told[j]
                   PROVE  k < l
        BY DEF LgInOrder
      <3>2. k \in DOMAIN text /\ l \in DOMAIN text
        BY <2>2, <3>1
      <3> QED BY <2>2, <2>6, <3>2 DEF LgInOrder
    <2>7. LgShows(new, told)
      BY <2>3, <2>4, <2>5, <2>6 DEF LgShows
    <2> QED BY <2>7 DEF new
  <1>2. CASE Log!Unended(text)
    <2> DEFINE n == Len(text)
    <2>1. /\ n \in DOMAIN text /\ DOMAIN new = DOMAIN text
          /\ (\A k \in DOMAIN text : k # n => new[k] = text[k])
          /\ new[n].event = 0 /\ new[n].kind \in {"junk", "part"}
      BY <1>2, LgWritten
    <2>2. text[n].kind \in {"part", "unended"}
      BY <1>2 DEF Log!Unended
    <2> HIDE DEF new, n
    <2>3. LgOnce(new)
      BY <2>1 DEF LgShows, LgOnce
    <2>4. LgSpoilt(text) => LgSpoilt(new)
      BY <2>1, <2>2 DEF LgSpoilt
    <2>5. ASSUME LgStands(text, told) PROVE LgStands(new, told)
      <3> SUFFICES ASSUME NEW i \in DOMAIN told PROVE \E k \in DOMAIN new : new[k].kind = "line" /\ new[k].event = told[i]
        BY DEF LgStands
      <3>1. PICK k \in DOMAIN text : text[k].kind = "line" /\ text[k].event = told[i]
        BY <2>5 DEF LgStands
      <3>2. k # n
        BY <2>2, <3>1
      <3> QED BY <2>1, <3>1, <3>2
    <2>6. LgInOrder(text, told) => LgInOrder(new, told)
      BY <2>1 DEF LgInOrder
    <2>7. LgShows(new, told)
      BY <2>3, <2>4, <2>5, <2>6 DEF LgShows
    <2> QED BY <2>7 DEF new
  <1> QED BY <1>1, <1>2

\* ... and a whole one may be told of, even where it spoils what stood there.
LEMMA LgToldShows ==
  ASSUME NEW text \in Seq(LgLine), NEW told \in Seq(Nat), LgShows(text, told), NEW line \in LgLine,
         \A k \in DOMAIN told : told[k] # 0, line.kind = "line", line.event # 0,
         \A k \in DOMAIN text : text[k].event # line.event, \A k \in DOMAIN told : told[k] # line.event
  PROVE  LgShows(Log!Written(text, line), Append(told, line.event))
  <1> DEFINE new == Log!Written(text, line)
             more == Append(told, line.event)
  <1>1. LgShows(new, told)
    BY LgWrittenShows
  <1>2. CASE LgSpoilt(new)
    BY <1>1, <1>2 DEF LgShows
  <1>3. CASE ~LgSpoilt(new)
    <2>1. ~Log!Unended(text)
      <3>1. Log!Unended(text) => Len(text) \in DOMAIN new /\ new[Len(text)].kind = "junk"
        BY LgWritten
      <3> QED BY <1>3, <3>1 DEF LgSpoilt
    <2>2. new = Append(text, line)
      BY <2>1, LgWritten
    <2>3. /\ DOMAIN text = 1..Len(text) /\ DOMAIN new = 1..(Len(text) + 1) /\ Len(text) \in Nat
          /\ (\A k \in DOMAIN text : new[k] = text[k]) /\ new[Len(text) + 1] = line
      BY <2>2
    <2>4. /\ DOMAIN told = 1..Len(told) /\ DOMAIN more = 1..(Len(told) + 1) /\ Len(told) \in Nat
          /\ (\A k \in DOMAIN told : more[k] = told[k]) /\ more[Len(told) + 1] = line.event
      OBVIOUS
    <2>5. LgStands(new, told) /\ LgInOrder(new, told) /\ LgOnce(new)
      BY <1>1, <1>3 DEF LgShows
    <2> HIDE DEF new, more
    <2>6. LgStands(new, more)
      <3> SUFFICES ASSUME NEW i \in DOMAIN more PROVE \E k \in DOMAIN new : new[k].kind = "line" /\ new[k].event = more[i]
        BY DEF LgStands
      <3>1. CASE i \in DOMAIN told
        <4>1. more[i] = told[i]
          BY <2>4, <3>1
        <4> QED BY <2>5, <3>1, <4>1 DEF LgStands
      <3>2. CASE i = Len(told) + 1
        <4>1. more[i] = line.event
          BY <2>4, <3>2
        <4>2. Len(text) + 1 \in DOMAIN new /\ new[Len(text) + 1] = line
          BY <2>3
        <4> QED BY <4>1, <4>2
      <3> QED BY <2>4, <3>1, <3>2
    <2>7. LgInOrder(new, more)
      <3> SUFFICES ASSUME NEW i \in DOMAIN more, NEW j \in DOMAIN more, NEW k \in DOMAIN new, NEW l \in DOMAIN new,
                          i < j, new[k].event = more[i], new[l].event = more[j]
                   PROVE  k < l
        BY DEF LgInOrder
      <3>1. i \in DOMAIN told
        BY <2>4
      <3>2. CASE j \in DOMAIN told
        BY <2>4, <2>5, <3>1, <3>2 DEF LgInOrder
      <3>3. CASE j = Len(told) + 1
        <4>1. l = Len(text) + 1
          BY SMTT(30), <2>3, <2>4, <3>3
        <4>2. k # Len(text) + 1
          BY <2>3, <2>4, <3>1
        <4> QED BY <2>3, <4>1, <4>2
      <3> QED BY <2>4, <3>2, <3>3
    <2>8. LgShows(new, more)
      BY <2>5, <2>6, <2>7 DEF LgShows
    <2> QED BY <2>8 DEF new, more
  <1> QED BY <1>2, <1>3

\* Taking away an incomplete last line takes nothing from what is shown.
LEMMA LgRemovedShows ==
  ASSUME NEW text \in Seq(LgLine), NEW told \in Seq(Nat), LgShows(text, told), Log!Unended(text)
  PROVE  LgShows(SubSeq(text, 1, Len(text) - 1), told)
  <1> DEFINE new == SubSeq(text, 1, Len(text) - 1)
             n == Len(text)
  <1>1. n \in Nat /\ n > 0 /\ DOMAIN text = 1..n /\ text[n].kind \in {"part", "unended"}
    BY DEF Log!Unended
  <1>2. DOMAIN new = 1..(n - 1) /\ \A k \in DOMAIN new : new[k] = text[k]
    BY <1>1
  <1> HIDE DEF new, n
  <1>3. LgOnce(new)
    BY <1>1, <1>2 DEF LgShows, LgOnce
  <1>4. LgSpoilt(text) => LgSpoilt(new)
    BY <1>1, <1>2 DEF LgSpoilt
  <1>5. LgStands(text, told) => LgStands(new, told)
    BY SMTT(30), <1>1, <1>2 DEF LgStands
  <1>6. LgInOrder(text, told) => LgInOrder(new, told)
    BY <1>1, <1>2 DEF LgInOrder
  <1>7. LgShows(new, told)
    BY <1>3, <1>4, <1>5, <1>6 DEF LgShows
  <1> QED BY <1>7 DEF new, n

\* A line that follows the last one of a text that verifies keeps it so.
LEMMA LgExtended ==
  ASSUME NEW text \in Seq(LgLine), NEW key, Log!Verifies(text, key), NEW line, line.kind \in {"line", "unended"},
         line.prev = Log!HeadOf(text), line.hash = Log!Digest(line.prev, line.event, key)
  PROVE  Log!Verifies(Append(text, line), key)
  <1> DEFINE new == Append(text, line)
  <1>1. /\ DOMAIN text = 1..Len(text) /\ DOMAIN new = 1..(Len(text) + 1) /\ Len(text) \in Nat
        /\ (\A k \in DOMAIN text : new[k] = text[k]) /\ new[Len(text) + 1] = line
        /\ text = <<>> <=> Len(text) = 0
    OBVIOUS
  <1> HIDE DEF new
  <1> SUFFICES ASSUME NEW i \in DOMAIN new PROVE Log!LinkSound(new[i], Log!Before(new, i), key)
    BY DEF Log!Verifies, new
  <1>2. CASE i \in DOMAIN text
    <2>1. Log!Before(new, i) = Log!Before(text, i)
      BY <1>1, <1>2 DEF Log!Before
    <2> QED BY <1>1, <1>2, <2>1 DEF Log!Verifies
  <1>3. CASE i = Len(text) + 1
    <2>1. Log!Before(new, i) = Log!HeadOf(text)
      BY <1>1, <1>3 DEF Log!Before, Log!HeadOf
    <2> QED BY <1>1, <1>3, <2>1 DEF Log!LinkSound
  <1> QED BY <1>1, <1>2, <1>3

\* What a process that is ready may leave behind its text: the next line, whole
\* or without its end, or a part of one.
LgNextLines(key, base, event) ==
  LET line == Log!ChainLine(base, event, key) IN Log!Fragments(line) \cup {line}

LEMMA LgNextLine ==
  ASSUME NEW text \in Seq(LgLine), NEW key \in LogKeys, NEW base, LgReady(text, key, base), LgEnded(text), NEW event,
         NEW line \in LgNextLines(key, base, event), NEW new, new = Log!Written(text, line), line \in LgLine
  PROVE  /\ LgEnded(new) /\ Log!Verifies(LgWhole(new), key)
         /\ line = Log!ChainLine(base, event, key) => LgReady(new, key, line.hash)
  <1>1. /\ ~Log!Unended(text) /\ Log!Verifies(text, key) /\ base = Log!HeadOf(text)
    BY DEF LgReady
  <1>2. new = Append(text, line) /\ new # <<>>
    <2>1. Log!Written(text, line) = Append(text, line)
      BY <1>1 DEF Log!Written
    <2> QED BY <2>1
  <1>3. /\ DOMAIN text = 1..Len(text) /\ DOMAIN new = 1..(Len(text) + 1) /\ Len(text) \in Nat
        /\ Len(new) = Len(text) + 1
        /\ (\A k \in DOMAIN text : new[k] = text[k]) /\ new[Len(text) + 1] = line
    BY <1>2
  <1>4. /\ line.kind \in {"line", "unended", "part"}
        /\ line.kind # "part" => (line.prev = base /\ line.hash = Log!Digest(line.prev, line.event, key))
        /\ line = Log!ChainLine(base, event, key) => line.kind = "line"
    BY DEF LgNextLines, Log!Fragments, Log!ChainLine, Log!Broken
  <1>5. \A k \in DOMAIN text : text[k].kind = "line"
    <2>1. ASSUME NEW k \in DOMAIN text PROVE text[k].kind = "line"
      <3>1. CASE k < Len(text)
        BY <3>1 DEF LgEnded
      <3>2. CASE k = Len(text)
        <4>1. text[k].kind \in {"line", "unended"}
          BY <1>1 DEF Log!Verifies, Log!LinkSound
        <4>2. text # <<>>
          BY <1>3, <3>2
        <4> QED BY <1>1, <3>2, <4>1, <4>2 DEF Log!Unended
      <3> QED BY <1>3, <3>1, <3>2
    <2> QED BY <2>1
  <1>6. LgEnded(new)
    BY <1>3, <1>5 DEF LgEnded
  <1>7. line.kind # "part" => Log!Verifies(new, key)
    BY <1>1, <1>2, <1>4, LgExtended
  <1>8. Log!Unended(new) <=> line.kind # "line"
    BY <1>2, <1>3, <1>4 DEF Log!Unended
  <1>9. SubSeq(new, 1, Len(new) - 1) = text
    BY <1>2
  <1>10. Log!Verifies(LgWhole(new), key)
    BY <1>1, <1>4, <1>7, <1>8, <1>9 DEF LgWhole
  <1>11. line = Log!ChainLine(base, event, key) => LgReady(new, key, line.hash)
    BY <1>2, <1>3, <1>4, <1>7, <1>8 DEF LgReady, Log!HeadOf
  <1> QED BY <1>6, <1>10, <1>11

\* Without its incomplete last line a text is its whole lines.
LEMMA LgRemovedChain ==
  ASSUME NEW text \in Seq(LgLine), LgEnded(text), Log!Unended(text), NEW key, Log!Verifies(LgWhole(text), key),
         NEW new, new = SubSeq(text, 1, Len(text) - 1)
  PROVE  LgEnded(new) /\ Log!Verifies(LgWhole(new), key)
  <1>1. Len(text) \in Nat /\ Len(text) > 0 /\ DOMAIN text = 1..Len(text)
    BY DEF Log!Unended
  <1>2. DOMAIN new = 1..(Len(text) - 1) /\ Len(new) = Len(text) - 1 /\ \A k \in DOMAIN new : new[k] = text[k]
    BY <1>1
  <1>3. \A k \in DOMAIN new : new[k].kind = "line"
    BY <1>1, <1>2 DEF LgEnded
  <1>4. ~Log!Unended(new)
    <2>1. new # <<>> => Len(new) \in DOMAIN new
      BY <1>1, <1>2
    <2> QED BY <1>3, <2>1 DEF Log!Unended
  <1>5. LgWhole(text) = new
    BY DEF LgWhole
  <1>6. LgWhole(new) = new
    BY <1>4 DEF LgWhole
  <1> QED BY <1>3, <1>5, <1>6 DEF LgEnded

-----------------------------------------------------------------------------
(* The steps of the log.                                                   *)

LEMMA LgInitInv == Log!LogInit => LgInv
  <1> SUFFICES ASSUME Log!LogInit PROVE LgInv
    OBVIOUS
  <1>1. /\ logText = [f \in LogFiles |-> <<>>] /\ logOpen = [p \in LogProcs |-> Log!NoLog]
        /\ logTail = [p \in LogProcs |-> "unread"] /\ logBase = [p \in LogProcs |-> <<>>]
        /\ logQueue = [p \in LogProcs |-> <<>>] /\ logCalls = 0 /\ logTold = [f \in LogFiles |-> <<>>]
    BY DEF Log!LogInit, Log!Genesis
  <1>2. LgTypes
    BY <1>1 DEF LgTypes, LgHash
  <1>3. LgNews
    BY <1>1 DEF LgNews
  <1>4. \A f \in LogFiles : LgShows(logText[f], logTold[f])
    BY <1>1 DEF LgShows, LgOnce, LgStands, LgInOrder
  <1>5. ASSUME NEW f \in LogFiles PROVE LgChain(f)
    <2>1. logText[f] = <<>> /\ \A p \in LogProcs : logOpen[p].file # f
      BY <1>1, LogAssumption
    <2>2. ~Log!Unended(logText[f])
      BY <2>1 DEF Log!Unended
    <2>3. \E k \in LogKeys : Log!Verifies(LgWhole(logText[f]), k)
      BY <2>1, <2>2, LogAssumption DEF LgWhole, Log!Verifies
    <2> QED BY <2>1, <2>3 DEF LgChain, LgEnded
  <1> QED BY <1>2, <1>3, <1>4, <1>5 DEF LgInv

\* A process whose log is ready, or has calls in flight, has it open.
LEMMA LgIsOpen ==
  ASSUME LgTypes, NEW p \in LogProcs, logOpen[p] # Log!NoLog
  PROVE  logOpen[p].file \in LogFiles /\ logOpen[p].key \in LogKeys
  <1>1. logOpen[p] \in [file : LogFiles, key : LogKeys]
    BY DEF LgTypes
  <1> QED BY <1>1

\* What a process may leave behind is a line of the event it writes, or of none.
LEMMA LgLinesTyped ==
  ASSUME NEW base \in LgHash, NEW event \in Nat, NEW key \in LogKeys, NEW line \in LgNextLines(key, base, event)
  PROVE  line \in LgLine /\ line.event \in {0, event} /\ Log!ChainLine(base, event, key) \in LgLine
  <1> DEFINE whole == Log!ChainLine(base, event, key)
  <1>1. <<>> \in LgHash /\ Log!Digest(base, event, key) \in LgHash
    BY DEF LgHash, Log!Digest
  <1>2. whole \in LgLine /\ whole.event = event
    BY <1>1 DEF Log!ChainLine, LgLine
  <1>3. Log!Broken("part") \in LgLine /\ Log!Broken("part").event = 0
    BY <1>1 DEF Log!Broken, Log!Genesis, LgLine
  <1>4. line \in {Log!Broken("part"), [whole EXCEPT !.kind = "unended"], whole}
    BY DEF LgNextLines, Log!Fragments
  <1> HIDE DEF whole
  <1>5. [whole EXCEPT !.kind = "unended"] \in LgLine /\ [whole EXCEPT !.kind = "unended"].event = event
    BY <1>2 DEF LgLine
  <1> QED BY <1>2, <1>3, <1>4, <1>5 DEF whole

\* Some calls of one process settle.
LgSettle(p) == logQueue' \in {[logQueue EXCEPT ![p] = Tail(@)], [logQueue EXCEPT ![p] = <<>>]}

LEMMA LgSettled ==
  ASSUME LgTypes, LgNews, NEW p \in LogProcs, logQueue[p] # <<>>, LgSettle(p)
  PROVE  /\ logQueue' \in [LogProcs -> Seq(Nat)]
         /\ \A q \in LogProcs : q # p => logQueue'[q] = logQueue[q]
         /\ \A q \in LogProcs : \A i \in DOMAIN logQueue'[q] :
              /\ logQueue'[q][i] # Head(logQueue[p])
              /\ \E j \in DOMAIN logQueue[q] : logQueue'[q][i] = logQueue[q][j]
         /\ \A q, r \in LogProcs : \A i \in DOMAIN logQueue'[q], j \in DOMAIN logQueue'[r] :
              logQueue'[q][i] = logQueue'[r][j] => (q = r /\ i = j)
  <1>1. logQueue \in [LogProcs -> Seq(Nat)]
    BY DEF LgTypes
  <1> DEFINE old == logQueue[p] new == logQueue'[p]
  <1>2. old \in Seq(Nat) /\ old # <<>> /\ new \in {Tail(old), <<>>} /\ \A q \in LogProcs : q # p => logQueue'[q] = logQueue[q]
    BY <1>1 DEF LgSettle
  <1>3. logQueue' \in [LogProcs -> Seq(Nat)]
    <2>1. Tail(old) \in Seq(Nat) /\ <<>> \in Seq(Nat)
      BY <1>2
    <2> QED BY <1>1, <2>1 DEF LgSettle
  <1> HIDE DEF old, new
  <1>4. \A i \in DOMAIN new : i + 1 \in DOMAIN old /\ new[i] = old[i + 1] /\ i \in Nat \ {0}
    BY <1>2
  <1>5. 1 \in DOMAIN old /\ Head(old) = old[1]
    BY <1>2
  <1>6. \A q, r \in LogProcs : \A i \in DOMAIN logQueue[q], j \in DOMAIN logQueue[r] :
          logQueue[q][i] = logQueue[r][j] => (q = r /\ i = j)
    BY DEF LgNews
  <1>7. ASSUME NEW q \in LogProcs, NEW i \in DOMAIN logQueue'[q]
        PROVE  /\ logQueue'[q][i] # Head(logQueue[p])
               /\ \E j \in DOMAIN logQueue[q] : logQueue'[q][i] = logQueue[q][j]
    <2>1. CASE q = p
      <3>1. i + 1 \in DOMAIN logQueue[p] /\ logQueue'[q][i] = logQueue[p][i + 1] /\ i \in Nat \ {0}
        BY <1>4, <2>1 DEF old, new
      <3>2. 1 \in DOMAIN logQueue[p] /\ Head(logQueue[p]) = logQueue[p][1]
        BY <1>5 DEF old
      <3>3. i + 1 # 1
        BY <3>1
      <3> QED BY <1>6, <2>1, <3>1, <3>2, <3>3
    <2>2. CASE q # p
      <3>1. 1 \in DOMAIN logQueue[p] /\ Head(logQueue[p]) = logQueue[p][1]
        BY <1>5 DEF old
      <3> QED BY <1>2, <1>6, <2>2, <3>1
    <2> QED BY <2>1, <2>2
  <1>8. ASSUME NEW q \in LogProcs, NEW r \in LogProcs, NEW i \in DOMAIN logQueue'[q], NEW j \in DOMAIN logQueue'[r],
               logQueue'[q][i] = logQueue'[r][j]
        PROVE  q = r /\ i = j
    <2>1. CASE q = p /\ r = p
      <3>1. /\ i + 1 \in DOMAIN logQueue[p] /\ logQueue'[q][i] = logQueue[p][i + 1] /\ i \in Nat
            /\ j + 1 \in DOMAIN logQueue[p] /\ logQueue'[r][j] = logQueue[p][j + 1] /\ j \in Nat
        BY <1>4, <2>1 DEF old, new
      <3>2. logQueue[p][i + 1] = logQueue[p][j + 1]
        BY <1>8, <3>1
      <3>3. i + 1 = j + 1
        BY <1>6, <3>1, <3>2
      <3> QED BY <2>1, <3>1, <3>3
    <2>2. CASE q = p /\ r # p
      <3>1. i + 1 \in DOMAIN logQueue[p] /\ logQueue'[q][i] = logQueue[p][i + 1] /\ logQueue'[r] = logQueue[r]
        BY <1>2, <1>4, <2>2 DEF old, new
      <3> QED BY <1>6, <1>8, <2>2, <3>1
    <2>3. CASE q # p /\ r = p
      <3>1. j + 1 \in DOMAIN logQueue[p] /\ logQueue'[r][j] = logQueue[p][j + 1] /\ logQueue'[q] = logQueue[q]
        BY <1>2, <1>4, <2>3 DEF old, new
      <3> QED BY <1>6, <1>8, <2>3, <3>1
    <2>4. CASE q # p /\ r # p
      BY <1>2, <1>6, <1>8, <2>4
    <2> QED BY <2>1, <2>2, <2>3, <2>4
  <1> QED BY <1>2, <1>3, <1>7, <1>8

\* Calls settle, and nothing is written: what is told and shown stays as it was.
LEMMA LgSettleKeeps ==
  ASSUME LgTypes, LgNews, NEW p \in LogProcs, logQueue[p] # <<>>, LgSettle(p), UNCHANGED <<logText, logTold, logCalls>>
  PROVE  LgNews'
  <1>1. /\ logQueue' \in [LogProcs -> Seq(Nat)]
        /\ \A q \in LogProcs : q # p => logQueue'[q] = logQueue[q]
        /\ \A q \in LogProcs : \A i \in DOMAIN logQueue'[q] :
             /\ logQueue'[q][i] # Head(logQueue[p])
             /\ \E j \in DOMAIN logQueue[q] : logQueue'[q][i] = logQueue[q][j]
        /\ \A q, r \in LogProcs : \A i \in DOMAIN logQueue'[q], j \in DOMAIN logQueue'[r] :
             logQueue'[q][i] = logQueue'[r][j] => (q = r /\ i = j)
    BY LgSettled
  <1>2. \A q \in LogProcs : \A i \in DOMAIN logQueue[q] :
          /\ logQueue[q][i] # 0 /\ logQueue[q][i] <= logCalls
          /\ LgUnwritten(logText, logTold, logQueue[q][i])
    BY DEF LgNews
  <1>3. \A q \in LogProcs : \A i \in DOMAIN logQueue'[q] :
          /\ logQueue'[q][i] # 0 /\ logQueue'[q][i] <= logCalls
          /\ LgUnwritten(logText, logTold, logQueue'[q][i])
    BY <1>1, <1>2
  <1> QED BY <1>1, <1>3 DEF LgNews

\* The events of a text written to are those it had and that of the line ...
LEMMA LgWrittenEvents ==
  ASSUME NEW text \in Seq(LgLine), NEW line \in LgLine, NEW new, new = Log!Written(text, line)
  PROVE  /\ new \in Seq(LgLine)
         /\ \A k \in DOMAIN new : \/ new[k].event \in {0, line.event}
                                 \/ \E j \in DOMAIN text : new[k].event = text[j].event
  <1>1. CASE ~Log!Unended(text)
    <2>1. new = Append(text, line)
      BY <1>1, LgWritten
    <2> QED BY <2>1
  <1>2. CASE Log!Unended(text)
    <2> DEFINE put == Log!Written(text, line)
    <2>1. /\ put \in Seq(LgLine) /\ DOMAIN put = DOMAIN text
          /\ \A k \in DOMAIN text : k # Len(text) => put[k] = text[k]
          /\ put[Len(text)].event = 0
      BY <1>2, LgWritten
    <2>2. new = put
      OBVIOUS
    <2> HIDE DEF put
    <2> QED BY <2>1, <2>2
  <1> QED BY <1>1, <1>2

\* ... and so it is with what was told.
LEMMA LgToldEvents ==
  ASSUME NEW told \in Seq(Nat), NEW event \in Nat, NEW more, more = told \/ more = Append(told, event)
  PROVE  /\ more \in Seq(Nat)
         /\ \A k \in DOMAIN more : more[k] = event \/ \E j \in DOMAIN told : more[k] = told[j]
  <1>1. CASE more = told
    BY <1>1
  <1>2. CASE more = Append(told, event)
    BY <1>2
  <1> QED BY <1>1, <1>2

\* The next line of a process that is ready, or a part of it, is put in its file.
LEMMA LgWrites ==
  ASSUME LgInv, NEW p \in LogProcs, logQueue[p] # <<>>, logTail[p] = "ready", LgSettle(p), logCalls' = logCalls,
         NEW f, f = logOpen[p].file, NEW line \in LgNextLines(logOpen[p].key, logBase[p], Head(logQueue[p])),
         logText' = [logText EXCEPT ![f] = Log!Written(@, line)],
         \/ logTold' = logTold
         \/ line.kind = "line" /\ logTold' = [logTold EXCEPT ![f] = Append(@, line.event)]
  PROVE  /\ f \in LogFiles /\ line \in LgLine
         /\ logText' \in [LogFiles -> Seq(LgLine)] /\ logTold' \in [LogFiles -> Seq(Nat)]
         /\ logQueue' \in [LogProcs -> Seq(Nat)]
         /\ LgNews'
         /\ \A g \in LogFiles : LgShows(logText'[g], logTold'[g])
  <1> DEFINE event == Head(logQueue[p])
  <1>1. LgTypes /\ LgNews /\ logOpen[p] # Log!NoLog
    BY DEF LgInv, LgTypes
  <1>2. f \in LogFiles /\ logOpen[p].key \in LogKeys
    BY <1>1, LgIsOpen
  <1>3. /\ logBase[p] \in LgHash /\ logText \in [LogFiles -> Seq(LgLine)] /\ logTold \in [LogFiles -> Seq(Nat)]
        /\ logQueue[p] \in Seq(Nat) /\ logCalls \in Nat
    BY <1>1 DEF LgTypes
  <1>4. event \in Nat /\ 1 \in DOMAIN logQueue[p] /\ event = logQueue[p][1]
    BY <1>3
  <1>5. event # 0 /\ event <= logCalls /\ LgUnwritten(logText, logTold, event)
    BY <1>1, <1>4 DEF LgNews
  <1>6. line \in LgLine /\ line.event \in {0, event}
    BY <1>2, <1>3, <1>4, LgLinesTyped
  <1>7. line.kind = "line" => line.event = event
    BY DEF LgNextLines, Log!Fragments, Log!ChainLine, Log!Broken
  <1> HIDE DEF event
  <1> DEFINE old == logText[f] new == logText'[f] told == logTold[f] tolds == logTold'[f]
  <1>8. old \in Seq(LgLine) /\ told \in Seq(Nat) /\ new = Log!Written(old, line)
    BY <1>2, <1>3
  <1>9. new \in Seq(LgLine) /\ \A k \in DOMAIN new : \/ new[k].event \in {0, line.event}
                                                     \/ \E j \in DOMAIN old : new[k].event = old[j].event
    <2> DEFINE put == Log!Written(old, line)
    <2>1. /\ put \in Seq(LgLine)
          /\ \A k \in DOMAIN put : \/ put[k].event \in {0, line.event}
                                  \/ \E j \in DOMAIN old : put[k].event = old[j].event
      <3> HIDE DEF old
      <3> QED BY <1>6, <1>8, LgWrittenEvents
    <2>2. new = put
      BY <1>8
    <2> HIDE DEF old, new, put
    <2> QED BY <2>1, <2>2
  <1>10. \/ tolds = told
         \/ line.kind = "line" /\ tolds = Append(told, event)
    BY <1>2, <1>3, <1>7
  <1>11. tolds \in Seq(Nat) /\ \A k \in DOMAIN tolds : tolds[k] = event \/ \E j \in DOMAIN told : tolds[k] = told[j]
    <2> HIDE DEF told, tolds
    <2> QED BY <1>4, <1>8, <1>10, LgToldEvents
  <1>12. \A g \in LogFiles : g # f => logText'[g] = logText[g] /\ logTold'[g] = logTold[g]
    BY <1>3
  <1>13. logText' \in [LogFiles -> Seq(LgLine)] /\ logTold' \in [LogFiles -> Seq(Nat)]
    <2>1. logText' = [logText EXCEPT ![f] = new]
      BY <1>2, <1>3
    <2>2. logTold' = [logTold EXCEPT ![f] = tolds]
      BY <1>2, <1>3
    <2> HIDE DEF new, tolds
    <2>3. logText' \in [LogFiles -> Seq(LgLine)]
      BY <1>3, <1>9, <2>1
    <2>4. logTold' \in [LogFiles -> Seq(Nat)]
      BY <1>3, <1>11, <2>2
    <2> QED BY <2>3, <2>4
  <1>14. LgShows(new, tolds)
    <2>1. LgShows(old, told)
      BY <1>2 DEF LgInv
    <2>2. \A k \in DOMAIN told : told[k] # 0
      BY <1>1, <1>2 DEF LgNews
    <2>3. (\A k \in DOMAIN old : old[k].event # event) /\ (\A k \in DOMAIN told : told[k] # event)
      BY <1>2, <1>5 DEF LgUnwritten
    <2>4. LgShows(Log!Written(old, line), told)
      <3>1. \/ line.event = 0
            \/ (\A k \in DOMAIN old : old[k].event # line.event) /\ (\A k \in DOMAIN told : told[k] # line.event)
        BY <1>6, <2>3
      <3> HIDE DEF old, new, told, tolds
      <3> QED BY <1>6, <1>8, <2>1, <2>2, <3>1, LgWrittenShows
    <2>5. ASSUME line.kind = "line" PROVE LgShows(Log!Written(old, line), Append(told, event))
      <3>1. /\ line.event = event /\ line.event # 0
            /\ (\A k \in DOMAIN old : old[k].event # line.event) /\ (\A k \in DOMAIN told : told[k] # line.event)
        BY <1>5, <1>7, <2>3, <2>5
      <3> HIDE DEF old, new, told, tolds
      <3>2. LgShows(Log!Written(old, line), Append(told, line.event))
        BY <1>6, <1>8, <2>1, <2>2, <2>5, <3>1, LgToldShows
      <3> QED BY <3>1, <3>2
    <2> HIDE DEF old, new, told, tolds
    <2> QED BY <1>8, <1>10, <2>4, <2>5
  <1>15. \A g \in LogFiles : LgShows(logText'[g], logTold'[g])
    <2>1. \A g \in LogFiles : LgShows(logText[g], logTold[g])
      BY DEF LgInv
    <2> QED BY <1>12, <1>14, <2>1
  <1>16. /\ logQueue' \in [LogProcs -> Seq(Nat)]
         /\ \A q \in LogProcs : \A i \in DOMAIN logQueue'[q] :
              logQueue'[q][i] # event /\ \E j \in DOMAIN logQueue[q] : logQueue'[q][i] = logQueue[q][j]
         /\ \A q, r \in LogProcs : \A i \in DOMAIN logQueue'[q], j \in DOMAIN logQueue'[r] :
              logQueue'[q][i] = logQueue'[r][j] => (q = r /\ i = j)
    BY <1>1, LgSettled DEF event
  <1> HIDE DEF old, new, told, tolds
  <1>17. ASSUME NEW x, x # 0, x # event, LgUnwritten(logText, logTold, x) PROVE LgUnwritten(logText', logTold', x)
    <2> SUFFICES ASSUME NEW g \in LogFiles PROVE /\ \A k \in DOMAIN logText'[g] : logText'[g][k].event # x
                                                 /\ \A k \in DOMAIN logTold'[g] : logTold'[g][k] # x
      BY DEF LgUnwritten
    <2>1. /\ \A k \in DOMAIN logText[g] : logText[g][k].event # x
          /\ \A k \in DOMAIN logTold[g] : logTold[g][k] # x
      BY <1>17 DEF LgUnwritten
    <2>2. CASE g # f
      BY <1>12, <2>1, <2>2
    <2>3. CASE g = f
      <3>1. /\ \A k \in DOMAIN old : old[k].event # x
            /\ \A k \in DOMAIN told : told[k] # x
        BY <2>1, <2>3 DEF old, told
      <3>2. /\ \A k \in DOMAIN new : new[k].event # x
            /\ \A k \in DOMAIN tolds : tolds[k] # x
        BY <1>6, <1>9, <1>11, <1>17, <3>1
      <3> QED BY <2>3, <3>2 DEF new, tolds
    <2> QED BY <2>2, <2>3
  <1>18. \A q \in LogProcs : \A i \in DOMAIN logQueue'[q] :
           /\ logQueue'[q][i] # 0 /\ logQueue'[q][i] <= logCalls
           /\ LgUnwritten(logText', logTold', logQueue'[q][i])
    <2>1. \A q \in LogProcs : \A i \in DOMAIN logQueue[q] :
            /\ logQueue[q][i] # 0 /\ logQueue[q][i] <= logCalls
            /\ LgUnwritten(logText, logTold, logQueue[q][i])
      BY <1>1 DEF LgNews
    <2> SUFFICES ASSUME NEW q \in LogProcs, NEW i \in DOMAIN logQueue'[q]
                 PROVE  /\ logQueue'[q][i] # 0 /\ logQueue'[q][i] <= logCalls
                        /\ LgUnwritten(logText', logTold', logQueue'[q][i])
      OBVIOUS
    <2>2. PICK j \in DOMAIN logQueue[q] : logQueue'[q][i] = logQueue[q][j]
      BY <1>16
    <2> DEFINE x == logQueue[q][j]
    <2>3. x # 0 /\ x <= logCalls /\ LgUnwritten(logText, logTold, x) /\ x # event
      BY <1>16, <2>1, <2>2
    <2> HIDE DEF x
    <2>4. LgUnwritten(logText', logTold', x)
      BY <1>17, <2>3
    <2>5. logQueue'[q][i] = x
      BY <2>2 DEF x
    <2> QED BY <2>3, <2>4, <2>5
  <1>19. ASSUME NEW g \in LogFiles
         PROVE  /\ \A k \in DOMAIN logText'[g] : logText'[g][k].event <= logCalls
                /\ \A k \in DOMAIN logTold'[g] : logTold'[g][k] # 0 /\ logTold'[g][k] <= logCalls
    <2>1. \A h \in LogFiles : /\ \A k \in DOMAIN logText[h] : logText[h][k].event <= logCalls
                              /\ \A k \in DOMAIN logTold[h] : logTold[h][k] # 0 /\ logTold[h][k] <= logCalls
      BY <1>1 DEF LgNews
    <2>2. CASE g # f
      BY <1>12, <2>1, <2>2
    <2>3. CASE g = f
      <3>1. /\ \A k \in DOMAIN old : old[k].event <= logCalls
            /\ \A k \in DOMAIN told : told[k] # 0 /\ told[k] <= logCalls
        BY <1>2, <2>1 DEF old, told
      <3>2. \A k \in DOMAIN new : new[k].event <= logCalls
        <4>1. 0 <= logCalls /\ line.event <= logCalls
          BY <1>3, <1>5, <1>6
        <4> QED BY <1>9, <3>1, <4>1
      <3>3. \A k \in DOMAIN tolds : tolds[k] # 0 /\ tolds[k] <= logCalls
        BY <1>5, <1>11, <3>1
      <3> QED BY <2>3, <3>2, <3>3 DEF new, tolds
    <2> QED BY <2>2, <2>3
  <1>20. LgNews'
    <2>1. logCalls' = logCalls
      OBVIOUS
    <2>2. \A q, r \in LogProcs : \A i \in DOMAIN logQueue'[q], j \in DOMAIN logQueue'[r] :
            logQueue'[q][i] = logQueue'[r][j] => (q = r /\ i = j)
      BY <1>16
    <2>3. \A q \in LogProcs : \A i \in DOMAIN logQueue'[q] :
            /\ logQueue'[q][i] # 0 /\ logQueue'[q][i] <= logCalls'
            /\ LgUnwritten(logText', logTold', logQueue'[q][i])
      BY <1>18, <2>1
    <2>4. ASSUME NEW g \in LogFiles
          PROVE  /\ \A k \in DOMAIN logText'[g] : logText'[g][k].event <= logCalls'
                 /\ \A k \in DOMAIN logTold'[g] : logTold'[g][k] # 0 /\ logTold'[g][k] <= logCalls'
      <3>1. /\ \A k \in DOMAIN logText'[g] : logText'[g][k].event <= logCalls
            /\ \A k \in DOMAIN logTold'[g] : logTold'[g][k] # 0 /\ logTold'[g][k] <= logCalls
        BY <1>19, Zenon
      <3> QED BY <2>1, <3>1, Zenon
    <2>5. (\A q \in LogProcs : \A i \in DOMAIN logQueue[q] :
             /\ logQueue[q][i] # 0 /\ logQueue[q][i] <= logCalls
             /\ LgUnwritten(logText, logTold, logQueue[q][i]))'
      BY <2>3 DEF LgUnwritten
    <2> QED BY <2>2, <2>4, <2>5 DEF LgNews
  <1> QED BY <1>2, <1>6, <1>13, <1>15, <1>16, <1>20

\* A file that a process did not write to, and of which it is not ready to write.
LEMMA LgRestsChain ==
  ASSUME NEW p \in LogProcs, NEW g \in LogFiles, LgChain(g), logText'[g] = logText[g],
         \A q \in LogProcs : q # p => (logOpen'[q] = logOpen[q] /\ logTail'[q] = logTail[q] /\ logBase'[q] = logBase[q]),
         \/ logOpen'[p].file # g
         \/ logOpen'[p] = logOpen[p] /\ (logTail'[p] = "ready" => LgReady(logText[g], logOpen[p].key, logBase'[p]))
  PROVE  LgChain(g)'
  <1>1. /\ \A q, r \in LogProcs : logOpen[q].file = g /\ logOpen[r].file = g => q = r
        /\ LgEnded(logText[g])
        /\ \E k \in LogKeys : Log!Verifies(LgWhole(logText[g]), k)
        /\ \A q \in LogProcs : logOpen[q].file = g /\ logTail[q] = "ready" => LgReady(logText[g], logOpen[q].key, logBase[q])
    BY DEF LgChain
  <1>2. \A q, r \in LogProcs : logOpen'[q].file = g /\ logOpen'[r].file = g => q = r
    BY <1>1
  <1>3. LgEnded(logText'[g]) /\ \E k \in LogKeys : Log!Verifies(LgWhole(logText'[g]), k)
    BY <1>1
  <1>4. \A q \in LogProcs :
          logOpen'[q].file = g /\ logTail'[q] = "ready" => LgReady(logText'[g], logOpen'[q].key, logBase'[q])
    BY <1>1
  <1> QED BY <1>2, <1>3, <1>4 DEF LgChain

\* A file that a process wrote its next line to.
LEMMA LgWritesChain ==
  ASSUME LgInv, NEW p \in LogProcs, logQueue[p] # <<>>, logTail[p] = "ready",
         NEW g \in LogFiles \ logShared, g = logOpen[p].file,
         NEW line \in LgNextLines(logOpen[p].key, logBase[p], Head(logQueue[p])), line \in LgLine,
         logText'[g] = Log!Written(logText[g], line),
         \A q \in LogProcs : q # p => (logOpen'[q] = logOpen[q] /\ logTail'[q] = logTail[q] /\ logBase'[q] = logBase[q]),
         \/ logOpen'[p] = Log!NoLog
         \/ logOpen'[p] = logOpen[p] /\ logTail'[p] # "ready"
         \/ /\ logOpen'[p] = logOpen[p] /\ logBase'[p] = line.hash
            /\ line = Log!ChainLine(logBase[p], Head(logQueue[p]), logOpen[p].key)
  PROVE  LgChain(g)'
  <1>1. LgTypes /\ LgChain(g) /\ logOpen[p] # Log!NoLog
    BY DEF LgInv, LgTypes
  <1>2. logOpen[p].key \in LogKeys /\ logText[g] \in Seq(LgLine)
    BY <1>1, LgIsOpen DEF LgTypes
  <1>3. LgReady(logText[g], logOpen[p].key, logBase[p]) /\ LgEnded(logText[g])
    BY <1>1 DEF LgChain
  <1>4. /\ LgEnded(logText'[g]) /\ Log!Verifies(LgWhole(logText'[g]), logOpen[p].key)
        /\ line = Log!ChainLine(logBase[p], Head(logQueue[p]), logOpen[p].key) =>
             LgReady(logText'[g], logOpen[p].key, line.hash)
    BY <1>2, <1>3, LgNextLine
  <1>5. \A q \in LogProcs : logOpen'[q].file = g => q = p
    BY <1>1 DEF LgChain
  <1>6. logOpen'[p].file = g /\ logTail'[p] = "ready" => LgReady(logText'[g], logOpen'[p].key, logBase'[p])
    BY <1>4, LogAssumption
  <1> QED BY <1>2, <1>4, <1>5, <1>6 DEF LgChain

LEMMA LgOpens ==
  ASSUME LgInv, NEW p \in LogProcs, NEW f \in LogFiles, NEW k \in LogKeys, Log!OpenLog(p, f, k)
  PROVE  LgInv'
  <1>1. /\ logOpen' = [logOpen EXCEPT ![p] = [file |-> f, key |-> k]]
        /\ logTail' = [logTail EXCEPT ![p] = "unread"] /\ logOpen[p] = Log!NoLog
        /\ logShared' = IF \E q \in LogProcs \ {p} : logOpen[q].file = f THEN logShared \cup {f} ELSE logShared
        /\ UNCHANGED <<logText, logBase, logQueue, logCalls, logTold>>
    BY DEF Log!OpenLog
  <1>2. LgTypes /\ LgNews /\ (\A g \in LogFiles : LgShows(logText[g], logTold[g])) /\ \A g \in LogFiles \ logShared : LgChain(g)
    BY DEF LgInv
  <1>3. LgTypes'
    BY <1>1, <1>2 DEF LgTypes
  <1>4. LgNews'
    BY <1>1, <1>2 DEF LgNews, LgUnwritten
  <1>5. \A g \in LogFiles : LgShows(logText'[g], logTold'[g])
    BY <1>1, <1>2
  <1>6. ASSUME NEW g \in LogFiles \ logShared' PROVE LgChain(g)'
    <2>1. LgChain(g)
      BY <1>1, <1>2
    <2>2. \A q \in LogProcs : q # p => (logOpen'[q] = logOpen[q] /\ logTail'[q] = logTail[q] /\ logBase'[q] = logBase[q])
      BY <1>1, <1>2 DEF LgTypes
    <2>3. logOpen'[p].file = f /\ logTail'[p] = "unread"
      BY <1>1, <1>2 DEF LgTypes
    <2>4. CASE g # f
      BY <1>1, <2>1, <2>2, <2>3, <2>4, LgRestsChain
    <2>5. CASE g = f
      <3>1. \A q \in LogProcs : q # p => logOpen'[q].file # g
        BY <1>1, <2>2, <2>5
      <3>2. \A q, r \in LogProcs : logOpen'[q].file = g /\ logOpen'[r].file = g => q = r
        BY <3>1
      <3>3. \A q \in LogProcs : ~(logOpen'[q].file = g /\ logTail'[q] = "ready")
        BY <2>3, <3>1
      <3>4. LgEnded(logText'[g]) /\ \E x \in LogKeys : Log!Verifies(LgWhole(logText'[g]), x)
        BY <1>1, <2>1 DEF LgChain
      <3> QED BY <3>2, <3>3, <3>4 DEF LgChain
    <2> QED BY <2>4, <2>5
  <1> QED BY <1>3, <1>4, <1>5, <1>6 DEF LgInv

\* record() is called with an event nobody had.
LEMMA LgRecords ==
  ASSUME LgInv, NEW p \in LogProcs, Log!RecordLine(p)
  PROVE  LgInv'
  <1>1. /\ logOpen[p] # Log!NoLog /\ logCalls' = logCalls + 1
        /\ logQueue' = [logQueue EXCEPT ![p] = Append(@, logCalls + 1)]
        /\ UNCHANGED <<logText, logOpen, logTail, logBase, logTold, logShared>>
    BY DEF Log!RecordLine
  <1>2. LgTypes /\ LgNews /\ (\A g \in LogFiles : LgShows(logText[g], logTold[g])) /\ \A g \in LogFiles \ logShared : LgChain(g)
    BY DEF LgInv
  <1>3. logCalls \in Nat /\ logQueue \in [LogProcs -> Seq(Nat)]
    BY <1>2 DEF LgTypes
  <1> DEFINE old == logQueue[p] new == logQueue'[p] e == logCalls + 1
  <1>4. old \in Seq(Nat) /\ new = Append(old, e) /\ \A q \in LogProcs : q # p => logQueue'[q] = logQueue[q]
    BY <1>1, <1>3
  <1>5. logQueue' = [logQueue EXCEPT ![p] = new]
    BY <1>1, <1>3
  <1>6. e \in Nat /\ e # 0 /\ e > logCalls
    BY <1>3
  <1> HIDE DEF new, e
  <1>7. /\ new \in Seq(Nat)
        /\ \A i \in DOMAIN new : (i \in DOMAIN old /\ new[i] = old[i]) \/ (i = Len(old) + 1 /\ new[i] = e)
    <2> HIDE DEF old
    <2> QED BY <1>4, <1>6
  <1>8. logQueue' \in [LogProcs -> Seq(Nat)]
    BY <1>3, <1>5, <1>7
  <1>9. LgTypes'
    BY <1>1, <1>2, <1>4, <1>8 DEF LgTypes
  <1>10. /\ \A q \in LogProcs : \A i \in DOMAIN logQueue[q] :
              /\ logQueue[q][i] # 0 /\ logQueue[q][i] <= logCalls
              /\ LgUnwritten(logText, logTold, logQueue[q][i])
         /\ \A q, r \in LogProcs : \A i \in DOMAIN logQueue[q], j \in DOMAIN logQueue[r] :
              logQueue[q][i] = logQueue[r][j] => (q = r /\ i = j)
         /\ \A f \in LogFiles : /\ \A k \in DOMAIN logText[f] : logText[f][k].event <= logCalls
                                /\ \A k \in DOMAIN logTold[f] : logTold[f][k] # 0 /\ logTold[f][k] <= logCalls
    BY <1>2 DEF LgNews
  <1>11. /\ logText \in [LogFiles -> Seq(LgLine)] /\ logTold \in [LogFiles -> Seq(Nat)]
    BY <1>2 DEF LgTypes
  <1>12. \A f \in LogFiles : /\ \A k \in DOMAIN logText[f] : logText[f][k].event \in Nat
                             /\ \A k \in DOMAIN logTold[f] : logTold[f][k] \in Nat
    <2> SUFFICES ASSUME NEW f \in LogFiles PROVE /\ \A k \in DOMAIN logText[f] : logText[f][k].event \in Nat
                                                 /\ \A k \in DOMAIN logTold[f] : logTold[f][k] \in Nat
      OBVIOUS
    <2>1. logText[f] \in Seq(LgLine) /\ logTold[f] \in Seq(Nat)
      BY <1>11
    <2>2. \A k \in DOMAIN logText[f] : logText[f][k] \in LgLine
      BY <2>1
    <2>3. \A k \in DOMAIN logTold[f] : logTold[f][k] \in Nat
      BY <2>1
    <2> QED BY <2>2, <2>3 DEF LgLine
  <1>13. LgUnwritten(logText, logTold, e)
    <2>1. \A f \in LogFiles : /\ \A k \in DOMAIN logText[f] : logText[f][k].event # e
                              /\ \A k \in DOMAIN logTold[f] : logTold[f][k] # e
      BY <1>3, <1>6, <1>10, <1>12
    <2> QED BY <2>1 DEF LgUnwritten
  <1>14. \A q \in LogProcs : \A i \in DOMAIN logQueue[q] : logQueue[q][i] \in Nat /\ logQueue[q][i] # e
    <2> SUFFICES ASSUME NEW q \in LogProcs, NEW i \in DOMAIN logQueue[q] PROVE logQueue[q][i] \in Nat /\ logQueue[q][i] # e
      OBVIOUS
    <2>1. logQueue[q] \in Seq(Nat)
      BY <1>3
    <2>2. logQueue[q][i] \in Nat
      BY <2>1
    <2>3. logQueue[q][i] <= logCalls
      BY <1>10
    <2> QED BY <1>3, <1>6, <2>2, <2>3
  <1>15. ASSUME NEW q \in LogProcs, NEW i \in DOMAIN logQueue'[q]
         PROVE  \/ i \in DOMAIN logQueue[q] /\ logQueue'[q][i] = logQueue[q][i]
                \/ q = p /\ i = Len(old) + 1 /\ logQueue'[q][i] = e
    <2>1. CASE q # p
      BY <1>4, <2>1
    <2>2. CASE q = p
      BY <1>7, <2>2 DEF new
    <2> QED BY <2>1, <2>2
  <1>16. ASSUME NEW q \in LogProcs, NEW i \in DOMAIN logQueue'[q]
         PROVE  /\ logQueue'[q][i] # 0 /\ logQueue'[q][i] <= logCalls + 1
                /\ LgUnwritten(logText, logTold, logQueue'[q][i])
    <2>1. CASE i \in DOMAIN logQueue[q] /\ logQueue'[q][i] = logQueue[q][i]
      BY <1>3, <1>10, <1>14, <2>1
    <2>2. CASE logQueue'[q][i] = e
      <3>1. e <= logCalls + 1
        BY <1>3 DEF e
      <3> QED BY <1>6, <1>13, <2>2, <3>1
    <2> QED BY <1>15, <2>1, <2>2
  <1>17. ASSUME NEW q \in LogProcs, NEW r \in LogProcs, NEW i \in DOMAIN logQueue'[q], NEW j \in DOMAIN logQueue'[r],
                logQueue'[q][i] = logQueue'[r][j]
         PROVE  q = r /\ i = j
    BY <1>10, <1>14, <1>15, <1>17
  <1>18. \A f \in LogFiles : /\ \A k \in DOMAIN logText[f] : logText[f][k].event <= logCalls + 1
                             /\ \A k \in DOMAIN logTold[f] : logTold[f][k] # 0 /\ logTold[f][k] <= logCalls + 1
    BY <1>3, <1>10, <1>12
  <1>19. LgNews'
    BY <1>1, <1>16, <1>17, <1>18 DEF LgNews, LgUnwritten
  <1>20. \A g \in LogFiles : LgShows(logText'[g], logTold'[g])
    BY <1>1, <1>2
  <1>21. ASSUME NEW g \in LogFiles \ logShared' PROVE LgChain(g)'
    BY <1>1, <1>2 DEF LgChain
  <1> QED BY <1>9, <1>19, <1>20, <1>21 DEF LgInv

\* The file is read, and from its head on it may be written.
LEMMA LgReads ==
  ASSUME LgInv, NEW p \in LogProcs, Log!ReadHead(p)
  PROVE  LgInv'
  <1> DEFINE text == logText[logOpen[p].file]
  <1>1. /\ logQueue[p] # <<>> /\ logTail[p] = "unread"
        /\ \/ /\ Log!MayExtend(text, logOpen[p].key)
              /\ logTail' = [logTail EXCEPT ![p] = "ready"]
              /\ logBase' = [logBase EXCEPT ![p] = Log!HeadOf(text)]
           \/ logTail' = [logTail EXCEPT ![p] = "refused"] /\ logBase' = logBase
        /\ UNCHANGED <<logText, logOpen, logQueue, logCalls, logTold, logShared>>
    BY DEF Log!ReadHead
  <1>2. LgTypes /\ LgNews /\ (\A g \in LogFiles : LgShows(logText[g], logTold[g])) /\ \A g \in LogFiles \ logShared : LgChain(g)
    BY DEF LgInv
  <1>3. logOpen[p] # Log!NoLog
    BY <1>1, <1>2 DEF LgTypes
  <1>4. logOpen[p].file \in LogFiles /\ text \in Seq(LgLine)
    BY <1>2, <1>3, LgIsOpen DEF LgTypes
  <1>5. Log!HeadOf(text) \in LgHash
    <2> HIDE DEF text
    <2>1. CASE text = <<>>
      BY <2>1 DEF Log!HeadOf, Log!Genesis, LgHash
    <2>2. CASE text # <<>>
      <3>1. text[Len(text)] \in LgLine
        BY <1>4, <2>2
      <3> QED BY <2>2, <3>1 DEF Log!HeadOf, LgLine
    <2> QED BY <2>1, <2>2
  <1>6. LgTypes'
    <2>1. logTail' \in [LogProcs -> {"unread", "ready", "refused"}] /\ logBase' \in [LogProcs -> LgHash]
      BY <1>1, <1>2, <1>5 DEF LgTypes
    <2>2. \A q \in LogProcs : logOpen[q] = Log!NoLog => (logQueue[q] = <<>> /\ logTail'[q] = "unread")
      BY <1>1, <1>2, <1>3 DEF LgTypes
    <2> QED BY <1>1, <1>2, <2>1, <2>2 DEF LgTypes
  <1>7. LgNews'
    BY <1>1, <1>2 DEF LgNews, LgUnwritten
  <1>8. \A g \in LogFiles : LgShows(logText'[g], logTold'[g])
    BY <1>1, <1>2
  <1>9. ASSUME NEW g \in LogFiles \ logShared' PROVE LgChain(g)'
    <2>1. LgChain(g)
      BY <1>1, <1>2
    <2>2. \A q \in LogProcs : q # p => (logOpen'[q] = logOpen[q] /\ logTail'[q] = logTail[q] /\ logBase'[q] = logBase[q])
      BY <1>1, <1>2 DEF LgTypes
    <2>3. logOpen[p].file = g /\ logTail'[p] = "ready" => LgReady(logText[g], logOpen[p].key, logBase'[p])
      BY <1>1, <1>2 DEF LgTypes, LgReady, Log!MayExtend
    <2> QED BY <1>1, <2>1, <2>2, <2>3, LgRestsChain
  <1> QED BY <1>6, <1>7, <1>8, <1>9 DEF LgInv

\* A call settles that wrote nothing, or all that were in flight do.
LEMMA LgSettles ==
  ASSUME LgInv, NEW p \in LogProcs, logQueue[p] # <<>>, LgSettle(p), UNCHANGED <<logText, logTold, logCalls, logShared>>,
         LgTypes',
         \A q \in LogProcs : q # p => (logOpen'[q] = logOpen[q] /\ logTail'[q] = logTail[q] /\ logBase'[q] = logBase[q]),
         \/ logOpen'[p] = Log!NoLog
         \/ logOpen'[p] = logOpen[p] /\ logTail'[p] = "refused"
  PROVE  LgInv'
  <1>1. LgTypes /\ LgNews /\ (\A g \in LogFiles : LgShows(logText[g], logTold[g])) /\ \A g \in LogFiles \ logShared : LgChain(g)
    BY DEF LgInv
  <1>2. LgNews'
    BY <1>1, LgSettleKeeps
  <1>3. \A g \in LogFiles : LgShows(logText'[g], logTold'[g])
    BY <1>1
  <1>4. ASSUME NEW g \in LogFiles \ logShared' PROVE LgChain(g)'
    <2>1. LgChain(g) /\ Log!NoLog.file # g
      BY <1>1, LogAssumption
    <2> QED BY <2>1, LgRestsChain
  <1> QED BY <1>2, <1>3, <1>4 DEF LgInv

\* A line is written, and a call settles, or all that were in flight do.
LEMMA LgPuts ==
  ASSUME LgInv, NEW p \in LogProcs, logQueue[p] # <<>>, logTail[p] = "ready", LgSettle(p), UNCHANGED <<logCalls, logShared>>,
         NEW line \in LgNextLines(logOpen[p].key, logBase[p], Head(logQueue[p])),
         logText' = [logText EXCEPT ![logOpen[p].file] = Log!Written(@, line)],
         \/ logTold' = logTold
         \/ line.kind = "line" /\ logTold' = [logTold EXCEPT ![logOpen[p].file] = Append(@, line.event)],
         logOpen' \in [LogProcs -> {Log!NoLog} \cup [file : LogFiles, key : LogKeys]],
         logTail' \in [LogProcs -> {"unread", "ready", "refused"}],
         logBase' \in [LogProcs -> LgHash],
         \A q \in LogProcs : logOpen'[q] = Log!NoLog => (logQueue'[q] = <<>> /\ logTail'[q] = "unread"),
         \A q \in LogProcs : q # p => (logOpen'[q] = logOpen[q] /\ logTail'[q] = logTail[q] /\ logBase'[q] = logBase[q]),
         \/ logOpen'[p] = Log!NoLog
         \/ logOpen'[p] = logOpen[p] /\ logTail'[p] = "refused"
         \/ /\ logOpen'[p] = logOpen[p] /\ logBase'[p] = line.hash
            /\ line = Log!ChainLine(logBase[p], Head(logQueue[p]), logOpen[p].key)
  PROVE  LgInv'
  <1> DEFINE f == logOpen[p].file
  <1>1. LgTypes /\ \A g \in LogFiles \ logShared : LgChain(g)
    BY DEF LgInv
  <1>2. /\ f \in LogFiles /\ line \in LgLine
        /\ logText' \in [LogFiles -> Seq(LgLine)] /\ logTold' \in [LogFiles -> Seq(Nat)]
        /\ logQueue' \in [LogProcs -> Seq(Nat)]
        /\ LgNews'
        /\ \A g \in LogFiles : LgShows(logText'[g], logTold'[g])
    BY LgWrites
  <1>3. LgTypes'
    BY <1>1, <1>2 DEF LgTypes
  <1>4. ASSUME NEW g \in LogFiles \ logShared' PROVE LgChain(g)'
    <2>1. LgChain(g) /\ Log!NoLog.file # g /\ g \in LogFiles \ logShared
      BY <1>1, LogAssumption
    <2>2. CASE g # f
      <3>1. logText'[g] = logText[g]
        BY <1>1, <2>2 DEF LgTypes
      <3>2. logOpen'[p].file # g
        BY <2>1, <2>2
      <3> QED BY <2>1, <3>1, <3>2, LgRestsChain
    <2>3. CASE g = f
      <3>1. logText'[g] = Log!Written(logText[g], line)
        BY <1>1, <2>3 DEF LgTypes
      <3> QED BY <1>2, <2>1, <2>3, <3>1, LgWritesChain
    <2> QED BY <2>2, <2>3
  <1> QED BY <1>2, <1>3, <1>4 DEF LgInv

\* The first event in flight is written, and its caller told.
LEMMA LgAppends ==
  ASSUME LgInv, NEW p \in LogProcs, Log!AppendLine(p)
  PROVE  LgInv'
  <1> DEFINE line == Log!ChainLine(logBase[p], Head(logQueue[p]), logOpen[p].key)
  <1>1. /\ logQueue[p] # <<>> /\ logTail[p] = "ready"
        /\ logText' = [logText EXCEPT ![logOpen[p].file] = Log!Written(@, line)]
        /\ logBase' = [logBase EXCEPT ![p] = line.hash]
        /\ logTold' = [logTold EXCEPT ![logOpen[p].file] = Append(@, line.event)]
        /\ logQueue' = [logQueue EXCEPT ![p] = Tail(@)]
        /\ UNCHANGED <<logOpen, logTail, logCalls, logShared>>
    BY DEF Log!AppendLine
  <1>2. LgTypes
    BY DEF LgInv
  <1>3. logOpen[p] # Log!NoLog /\ logOpen[p].key \in LogKeys /\ logBase[p] \in LgHash /\ Head(logQueue[p]) \in Nat
    <2>1. logOpen[p] # Log!NoLog /\ logBase[p] \in LgHash /\ logQueue[p] \in Seq(Nat)
      BY <1>1, <1>2 DEF LgTypes
    <2>2. Head(logQueue[p]) \in Nat
      BY <1>1, <2>1
    <2> QED BY <1>2, <2>1, <2>2, LgIsOpen
  <1>4. line \in LgNextLines(logOpen[p].key, logBase[p], Head(logQueue[p])) /\ line.kind = "line"
    BY DEF LgNextLines, Log!ChainLine
  <1>5. line.hash \in LgHash
    BY <1>3, LgLinesTyped, <1>4 DEF LgLine
  <1> HIDE DEF line
  <1>6. /\ logBase' \in [LogProcs -> LgHash] /\ logBase'[p] = line.hash
        /\ \A q \in LogProcs : q # p => (logOpen'[q] = logOpen[q] /\ logTail'[q] = logTail[q] /\ logBase'[q] = logBase[q])
        /\ logOpen' \in [LogProcs -> {Log!NoLog} \cup [file : LogFiles, key : LogKeys]]
        /\ logTail' \in [LogProcs -> {"unread", "ready", "refused"}]
        /\ logOpen'[p] = logOpen[p]
    BY <1>1, <1>2, <1>5 DEF LgTypes
  <1>7. \A q \in LogProcs : logOpen'[q] = Log!NoLog => (logQueue'[q] = <<>> /\ logTail'[q] = "unread")
    BY <1>1, <1>2, <1>3 DEF LgTypes
  <1>8. LgSettle(p)
    BY <1>1 DEF LgSettle
  <1>9. line = Log!ChainLine(logBase[p], Head(logQueue[p]), logOpen[p].key)
    BY DEF line
  <1> QED BY <1>1, <1>4, <1>6, <1>7, <1>8, <1>9, LgPuts

\* An append fails, whatever of its line it left behind.
LEMMA LgFails ==
  ASSUME LgInv, NEW p \in LogProcs, Log!FailAppend(p)
  PROVE  LgInv'
  <1> DEFINE lines == LgNextLines(logOpen[p].key, logBase[p], Head(logQueue[p]))
  <1>1. /\ logQueue[p] # <<>> /\ logTail[p] = "ready"
        /\ \/ logText' = logText
           \/ \E line \in lines : logText' = [logText EXCEPT ![logOpen[p].file] = Log!Written(@, line)]
        /\ logTail' = [logTail EXCEPT ![p] = "refused"]
        /\ logQueue' = [logQueue EXCEPT ![p] = Tail(@)]
        /\ UNCHANGED <<logOpen, logBase, logCalls, logTold, logShared>>
    BY DEF Log!FailAppend, LgNextLines
  <1>2. LgTypes
    BY DEF LgInv
  <1>3. logOpen[p] # Log!NoLog /\ LgSettle(p)
    BY <1>1, <1>2 DEF LgTypes, LgSettle
  <1> HIDE DEF lines
  <1>4. /\ logBase' \in [LogProcs -> LgHash]
        /\ \A q \in LogProcs : q # p => (logOpen'[q] = logOpen[q] /\ logTail'[q] = logTail[q] /\ logBase'[q] = logBase[q])
        /\ logOpen' \in [LogProcs -> {Log!NoLog} \cup [file : LogFiles, key : LogKeys]]
        /\ logTail' \in [LogProcs -> {"unread", "ready", "refused"}]
        /\ logOpen'[p] = logOpen[p] /\ logTail'[p] = "refused"
    BY <1>1, <1>2 DEF LgTypes
  <1>5. \A q \in LogProcs : logOpen'[q] = Log!NoLog => (logQueue'[q] = <<>> /\ logTail'[q] = "unread")
    BY <1>1, <1>2, <1>3 DEF LgTypes
  <1>6. CASE logText' = logText
    <2>1. logQueue' \in [LogProcs -> Seq(Nat)]
      BY <1>1, <1>2, <1>3, LgSettled DEF LgInv
    <2>2. LgTypes'
      BY <1>1, <1>2, <1>4, <1>5, <1>6, <2>1 DEF LgTypes
    <2> QED BY <1>1, <1>3, <1>4, <1>6, <2>2, LgSettles
  <1>7. ASSUME NEW line \in lines, logText' = [logText EXCEPT ![logOpen[p].file] = Log!Written(@, line)]
        PROVE  LgInv'
    BY <1>1, <1>3, <1>4, <1>5, <1>7, LgPuts DEF lines
  <1> QED BY <1>1, <1>6, <1>7

\* A call rejects with the tail.
LEMMA LgRejects ==
  ASSUME LgInv, NEW p \in LogProcs, Log!RejectLine(p)
  PROVE  LgInv'
  <1>1. /\ logQueue[p] # <<>> /\ logTail[p] = "refused"
        /\ logQueue' = [logQueue EXCEPT ![p] = Tail(@)]
        /\ UNCHANGED <<logText, logOpen, logTail, logBase, logCalls, logTold, logShared>>
    BY DEF Log!RejectLine
  <1>2. LgTypes /\ LgNews
    BY DEF LgInv
  <1>3. logOpen[p] # Log!NoLog /\ LgSettle(p)
    BY <1>1, <1>2 DEF LgTypes, LgSettle
  <1>4. logQueue' \in [LogProcs -> Seq(Nat)]
    BY <1>1, <1>2, <1>3, LgSettled
  <1>5. \A q \in LogProcs : logOpen'[q] = Log!NoLog => (logQueue'[q] = <<>> /\ logTail'[q] = "unread")
    BY <1>1, <1>2, <1>3 DEF LgTypes
  <1>6. LgTypes'
    BY <1>1, <1>2, <1>4, <1>5 DEF LgTypes
  <1> QED BY <1>1, <1>3, <1>6, LgSettles

\* The process ends, and may leave behind as much as a failed append.
LEMMA LgStops ==
  ASSUME LgInv, NEW p \in LogProcs, Log!StopLog(p)
  PROVE  LgInv'
  <1> DEFINE lines == LgNextLines(logOpen[p].key, logBase[p], Head(logQueue[p]))
  <1>1. /\ \/ logText' = logText
           \/ /\ logQueue[p] # <<>> /\ logTail[p] = "ready"
              /\ \E line \in lines : logText' = [logText EXCEPT ![logOpen[p].file] = Log!Written(@, line)]
        /\ logOpen' = [logOpen EXCEPT ![p] = Log!NoLog]
        /\ logQueue' = [logQueue EXCEPT ![p] = <<>>]
        /\ logTail' = [logTail EXCEPT ![p] = "unread"]
        /\ logBase' = [logBase EXCEPT ![p] = <<>>]
        /\ UNCHANGED <<logCalls, logTold, logShared>>
    BY DEF Log!StopLog, LgNextLines, Log!Genesis
  <1>2. LgTypes /\ LgNews /\ (\A g \in LogFiles : LgShows(logText[g], logTold[g])) /\ \A g \in LogFiles \ logShared : LgChain(g)
    BY DEF LgInv
  <1>3. LgSettle(p)
    BY <1>1 DEF LgSettle
  <1> HIDE DEF lines
  <1>4. <<>> \in LgHash /\ <<>> \in Seq(Nat)
    BY DEF LgHash
  <1>5. /\ logBase' \in [LogProcs -> LgHash] /\ logQueue' \in [LogProcs -> Seq(Nat)]
        /\ logOpen' \in [LogProcs -> {Log!NoLog} \cup [file : LogFiles, key : LogKeys]]
        /\ logTail' \in [LogProcs -> {"unread", "ready", "refused"}]
        /\ logOpen'[p] = Log!NoLog
    BY <1>1, <1>2, <1>4 DEF LgTypes
  <1>6. /\ \A q \in LogProcs : q # p => (logOpen'[q] = logOpen[q] /\ logTail'[q] = logTail[q] /\ logBase'[q] = logBase[q])
        /\ \A q \in LogProcs : logOpen'[q] = Log!NoLog => (logQueue'[q] = <<>> /\ logTail'[q] = "unread")
    BY <1>1, <1>2 DEF LgTypes
  <1>7. CASE logText' = logText
    <2>1. LgTypes'
      BY <1>1, <1>2, <1>5, <1>6, <1>7 DEF LgTypes
    <2>2. CASE logQueue[p] # <<>>
      BY <1>1, <1>3, <1>5, <1>6, <1>7, <2>1, <2>2, LgSettles
    <2>3. CASE logQueue[p] = <<>>
      <3>1. logQueue' = logQueue
        BY <1>1, <1>2, <2>3 DEF LgTypes
      <3>2. LgNews'
        BY <1>1, <1>2, <1>7, <3>1 DEF LgNews, LgUnwritten
      <3>3. \A g \in LogFiles : LgShows(logText'[g], logTold'[g])
        BY <1>1, <1>2, <1>7
      <3>4. ASSUME NEW g \in LogFiles \ logShared' PROVE LgChain(g)'
        <4>1. LgChain(g) /\ Log!NoLog.file # g
          BY <1>1, <1>2, LogAssumption
        <4> QED BY <1>5, <1>6, <1>7, <4>1, LgRestsChain
      <3> QED BY <2>1, <3>2, <3>3, <3>4 DEF LgInv
    <2> QED BY <2>2, <2>3
  <1>8. ASSUME NEW line \in lines, logQueue[p] # <<>>, logTail[p] = "ready",
               logText' = [logText EXCEPT ![logOpen[p].file] = Log!Written(@, line)]
        PROVE  LgInv'
    BY <1>1, <1>3, <1>5, <1>6, <1>8, LgPuts DEF lines
  <1> QED BY <1>1, <1>7, <1>8

\* The incomplete last line is removed.
LEMMA LgRemoves ==
  ASSUME LgInv, NEW f \in LogFiles, Log!RemovePart(f)
  PROVE  LgInv'
  <1>1. /\ Log!Unended(logText[f])
        /\ logText' = [logText EXCEPT ![f] = SubSeq(@, 1, Len(@) - 1)]
        /\ UNCHANGED <<logOpen, logTail, logBase, logQueue, logCalls, logTold, logShared>>
    BY DEF Log!RemovePart
  <1>2. LgTypes /\ LgNews /\ (\A g \in LogFiles : LgShows(logText[g], logTold[g])) /\ \A g \in LogFiles \ logShared : LgChain(g)
    BY DEF LgInv
  <1> DEFINE old == logText[f] new == logText'[f]
  <1>3. /\ old \in Seq(LgLine) /\ new = SubSeq(old, 1, Len(old) - 1) /\ logTold[f] \in Seq(Nat)
        /\ logText' = [logText EXCEPT ![f] = new]
        /\ \A g \in LogFiles : g # f => logText'[g] = logText[g]
    BY <1>1, <1>2 DEF LgTypes
  <1>4. Log!Unended(old)
    BY <1>1
  <1>5. LgShows(new, logTold[f])
    <2>1. LgShows(old, logTold[f])
      BY <1>2
    <2> HIDE DEF old, new
    <2>2. LgShows(SubSeq(old, 1, Len(old) - 1), logTold[f])
      BY <1>3, <1>4, <2>1, LgRemovedShows
    <2> QED BY <1>3, <2>2
  <1>6. new \in Seq(LgLine) /\ \A k \in DOMAIN new : k \in DOMAIN old /\ new[k] = old[k]
    <2> HIDE DEF old, new
    <2>1. Len(old) \in Nat /\ Len(old) > 0
      BY <1>3, <1>4 DEF Log!Unended
    <2> QED BY <1>3, <2>1
  <1>7. ASSUME NEW g \in LogFiles, NEW k \in DOMAIN logText'[g]
        PROVE  k \in DOMAIN logText[g] /\ logText'[g][k] = logText[g][k]
    BY <1>3, <1>6
  <1>8. LgTypes'
    <2>1. logText' \in [LogFiles -> Seq(LgLine)]
      <3> HIDE DEF new
      <3> QED BY <1>2, <1>3, <1>6 DEF LgTypes
    <2> QED BY <1>1, <1>2, <2>1 DEF LgTypes
  <1>9. LgNews'
    <2>1. ASSUME NEW x, LgUnwritten(logText, logTold, x) PROVE LgUnwritten(logText', logTold', x)
      BY <1>1, <1>7, <2>1 DEF LgUnwritten
    <2>2. \A q \in LogProcs : \A i \in DOMAIN logQueue'[q] :
            /\ logQueue'[q][i] # 0 /\ logQueue'[q][i] <= logCalls'
            /\ LgUnwritten(logText', logTold', logQueue'[q][i])
      BY <1>1, <1>2, <2>1 DEF LgNews
    <2>3. \A q, r \in LogProcs : \A i \in DOMAIN logQueue'[q], j \in DOMAIN logQueue'[r] :
            logQueue'[q][i] = logQueue'[r][j] => (q = r /\ i = j)
      BY <1>1, <1>2 DEF LgNews
    <2>4. \A g \in LogFiles : /\ \A k \in DOMAIN logText'[g] : logText'[g][k].event <= logCalls'
                              /\ \A k \in DOMAIN logTold'[g] : logTold'[g][k] # 0 /\ logTold'[g][k] <= logCalls'
      BY <1>1, <1>2, <1>7 DEF LgNews
    <2> QED BY <2>2, <2>3, <2>4 DEF LgNews, LgUnwritten
  <1>10. \A g \in LogFiles : LgShows(logText'[g], logTold'[g])
    BY <1>1, <1>2, <1>3, <1>5
  <1>11. ASSUME NEW g \in LogFiles \ logShared' PROVE LgChain(g)'
    <2>1. LgChain(g)
      BY <1>1, <1>2
    <2>2. \A q, r \in LogProcs : logOpen'[q].file = g /\ logOpen'[r].file = g => q = r
      BY <1>1, <2>1 DEF LgChain
    <2>3. CASE g # f
      <3>1. /\ LgEnded(logText'[g])
            /\ \E k \in LogKeys : Log!Verifies(LgWhole(logText'[g]), k)
            /\ \A q \in LogProcs : logOpen'[q].file = g /\ logTail'[q] = "ready" => LgReady(logText'[g], logOpen'[q].key, logBase'[q])
        BY <1>1, <1>3, <2>1, <2>3 DEF LgChain
      <3> QED BY <2>2, <3>1 DEF LgChain
    <2>4. CASE g = f
      <3>1. PICK k \in LogKeys : Log!Verifies(LgWhole(old), k)
        BY <2>1, <2>4 DEF LgChain
      <3>2. LgEnded(old)
        BY <2>1, <2>4 DEF LgChain
      <3>3. LgEnded(new) /\ Log!Verifies(LgWhole(new), k)
        <4> HIDE DEF old, new
        <4> QED BY <1>3, <1>4, <3>1, <3>2, LgRemovedChain
      <3>4. \A q \in LogProcs : ~(logOpen'[q].file = g /\ logTail'[q] = "ready")
        BY <1>1, <2>1, <2>4 DEF LgChain, LgReady
      <3> QED BY <2>2, <2>4, <3>3, <3>4 DEF LgChain
    <2> QED BY <2>3, <2>4
  <1> QED BY <1>8, <1>9, <1>10, <1>11 DEF LgInv

LEMMA LgNextKeeps == LgInv /\ [Log!LogNext]_LogVars => LgInv'
  <1> SUFFICES ASSUME LgInv, [Log!LogNext]_LogVars PROVE LgInv'
    OBVIOUS
  <1>1. ASSUME NEW p \in LogProcs,
               \/ \E f \in LogFiles, k \in LogKeys : Log!OpenLog(p, f, k)
               \/ Log!RecordLine(p)
               \/ Log!ReadHead(p)
               \/ Log!AppendLine(p)
               \/ Log!FailAppend(p)
               \/ Log!RejectLine(p)
               \/ Log!StopLog(p)
        PROVE  LgInv'
    BY <1>1, LgOpens, LgRecords, LgReads, LgAppends, LgFails, LgRejects, LgStops
  <1>2. ASSUME NEW f \in LogFiles, Log!RemovePart(f) PROVE LgInv'
    BY <1>2, LgRemoves
  <1>3. CASE UNCHANGED LogVars
    <2>1. UNCHANGED <<logText, logOpen, logTail, logBase, logQueue, logCalls, logTold, logShared>>
      BY <1>3 DEF LogVars
    <2>2. LgTypes /\ LgNews /\ (\A g \in LogFiles : LgShows(logText[g], logTold[g])) /\ \A g \in LogFiles \ logShared : LgChain(g)
      BY DEF LgInv
    <2>3. LgTypes' /\ LgNews'
      BY <2>1, <2>2 DEF LgTypes, LgNews, LgUnwritten
    <2>4. \A g \in LogFiles : LgShows(logText'[g], logTold'[g])
      BY <2>1, <2>2
    <2>5. ASSUME NEW g \in LogFiles \ logShared' PROVE LgChain(g)'
      BY <2>1, <2>2 DEF LgChain
    <2> QED BY <2>3, <2>4, <2>5 DEF LgInv
  <1> QED BY <1>1, <1>2, <1>3 DEF Log!LogNext

\* The state of the log, with what each file shows of what was told and, of a
\* file two processes never had open at once, the chain (audit.ts:188-263).
THEOREM BackgroundLgInv == AllSpec => []LgInv
  <1>1. AllInit => LgInv
    BY LgInitInv DEF AllInit
  <1>2. LgInv /\ [AllNext]_allVars => LgInv'
    BY EachPartStepsOrRests, LgNextKeeps
  <1> QED BY <1>1, <1>2, PTL DEF AllSpec

\* A text that verifies shows what was told of it, in that order.
LEMMA LgVerifiedShows ==
  ASSUME NEW text \in Seq(LgLine), NEW told \in Seq(Nat), NEW key, Log!Verifies(text, key), LgShows(text, told)
  PROVE  Log!InOrderWithin(told, Log!Shown(text))
  <1>1. \A k \in DOMAIN text : text[k].kind \in {"line", "unended"}
    BY DEF Log!Verifies, Log!LinkSound
  <1>2. LgStands(text, told) /\ LgInOrder(text, told)
    BY <1>1 DEF LgShows, LgSpoilt
  <1> DEFINE shown == Log!Shown(text)
  <1>3. DOMAIN shown = DOMAIN text /\ \A k \in DOMAIN text : shown[k] = text[k].event
    BY DEF Log!Shown
  <1> HIDE DEF shown
  <1>4. Log!InOrderWithin(told, shown)
    <2>1. ASSUME NEW i \in DOMAIN told PROVE \E j \in DOMAIN shown : shown[j] = told[i]
      <3>1. PICK k \in DOMAIN text : text[k].event = told[i]
        BY <1>2 DEF LgStands
      <3> QED BY <1>3, <3>1
    <2>2. ASSUME NEW i \in DOMAIN told, NEW j \in DOMAIN told, NEW k \in DOMAIN shown, NEW l \in DOMAIN shown,
                 i < j, shown[k] = told[i], shown[l] = told[j]
          PROVE  k < l
      <3>1. k \in DOMAIN text /\ l \in DOMAIN text /\ text[k].event = told[i] /\ text[l].event = told[j]
        BY <1>3, <2>2
      <3> QED BY <1>2, <2>2, <3>1 DEF LgInOrder
    <2> QED BY <2>1, <2>2 DEF Log!InOrderWithin
  <1> QED BY <1>4 DEF shown

\* A log with one writer at a time is one chain under one key whatever failed,
\* was cut off or restarted, and any log that verifies shows every event a
\* caller was told is recorded, in that order (audit.ts:208-247, 299-380).
THEOREM BackgroundLogTellsAll == AllSpec => []LogTellsAll
  <1>1. ASSUME LgInv PROVE LogTellsAll
    <2>1. LgTypes /\ (\A f \in LogFiles : LgShows(logText[f], logTold[f])) /\ \A f \in LogFiles \ logShared : LgChain(f)
      BY <1>1 DEF LgInv
    <2>2. ASSUME NEW f \in LogFiles \ logShared
          PROVE  \E k \in LogKeys : Log!Verifies(LgWhole(logText[f]), k)
      BY <2>1 DEF LgChain
    <2>3. Log!LogStaysOneChain
      BY <2>2 DEF Log!LogStaysOneChain, LgWhole
    <2>4. ASSUME NEW k \in LogKeys, NEW files \in SUBSET LogFiles, Log!LogsVerify(files, k), NEW f \in files
          PROVE  Log!InOrderWithin(logTold[f], Log!Shown(logText[f]))
      <3>1. Log!Verifies(logText[f], k)
        BY <2>4 DEF Log!LogsVerify
      <3>2. logText[f] \in Seq(LgLine) /\ logTold[f] \in Seq(Nat) /\ LgShows(logText[f], logTold[f])
        BY <2>1 DEF LgTypes
      <3> QED BY <3>1, <3>2, LgVerifiedShows
    <2>5. Log!VerifiedLogsShowAll
      BY <2>4 DEF Log!VerifiedLogsShowAll
    <2> QED BY <2>3, <2>5 DEF LogTellsAll
  <1> QED BY <1>1, BackgroundLgInv, PTL

-----------------------------------------------------------------------------
(* The tokens of an identity provider.                                     *)

OiCalls == [at : {"waiting", "accepted", "refused"}, token : OiTokens, steady : BOOLEAN]

\* What is genuine depends on the token and the server's options alone.
OiGenuine(options, token) ==
  /\ token.signedBy = "this issuer" /\ token.issuer = "this issuer" /\ token.algorithm = "asymmetric"
  /\ token.audience \in options.audiences
  /\ token.expiredFor <= 300 /\ token.namesActor /\ (options.tenanted => token.namesTenant)

\* A held key set is this issuer's, and came by a way nobody else could answer
\* on.  A call the issuer was in order for since it began finds keys, or a
\* reading that cannot fail.
OiInv ==
  /\ Oidc!SoundOptions(oiOptions)
  /\ oiCall \in [OiCallers -> {Oidc!OiFree} \cup OiCalls]
  /\ oiKeys.at \in {"none", "reading", "held"}
  /\ oiKeys.at = "held" =>
       oiKeys.names = "this issuer" /\ (oiOptions.keys # "given" => Oidc!Fetchable(oiKeys.scheme))
  /\ \A c \in OiCallers : oiCall[c].at = "accepted" => oiKeys.at = "held" /\ OiGenuine(oiOptions, oiCall[c].token)
  /\ \A c \in OiCallers : oiCall[c].at = "waiting" /\ oiCall[c].steady =>
       /\ Oidc!Usable(oiIssuer) /\ oiKeys.at # "none"
       /\ oiKeys.at = "reading" => Oidc!Usable(oiKeys.asked)
  /\ \A c \in OiCallers : oiCall[c].at = "refused" /\ oiCall[c].steady =>
       ~OiGenuine(oiOptions, oiCall[c].token) \/ oiCall[c].token.expiredFor > oiOptions.skew

LEMMA OiInitInv == AllInit => OiInv
  <1> SUFFICES ASSUME AllInit PROVE OiInv
    OBVIOUS
  <1>1. oiCall = [c \in OiCallers |-> Oidc!OiFree]
    BY DEF AllInit, Oidc!OiInit
  <1>2. \A c \in OiCallers : oiCall[c].at = "free"
    BY <1>1 DEF Oidc!OiFree
  <1>3. CASE part = "oidc"
    <2>1. /\ Oidc!SoundOptions(oiOptions)
          /\ oiKeys = IF oiOptions.keys = "discovered" THEN Oidc!NoKeys ELSE Oidc!HeldFrom(oiOptions.scheme, "this issuer")
      BY <1>3 DEF AllInit, Oidc!OiInit
    <2>2. /\ oiKeys.at \in {"none", "held"}
          /\ oiKeys.at = "held" => oiKeys.names = "this issuer" /\ oiKeys.scheme = oiOptions.scheme
      BY <2>1 DEF Oidc!NoKeys, Oidc!HeldFrom
    <2>3. oiKeys.at = "held" => oiKeys.names = "this issuer" /\ (oiOptions.keys # "given" => Oidc!Fetchable(oiKeys.scheme))
      BY <2>1, <2>2 DEF Oidc!SoundOptions
    <2> QED BY <1>1, <1>2, <2>1, <2>2, <2>3 DEF OiInv
  <1>4. CASE part # "oidc"
    <2>1. oiOptions = Plain /\ oiKeys.at = "none"
      <3>1. oiOptions = Plain /\ oiKeys = Oidc!NoKeys
        BY <1>4 DEF AllInit
      <3> QED BY <3>1 DEF Oidc!NoKeys
    <2>2. Oidc!SoundOptions(oiOptions)
      BY <2>1 DEF Oidc!SoundOptions, Plain, Oidc!Fetchable
    <2> QED BY <1>1, <1>2, <2>1, <2>2 DEF OiInv
  <1> QED BY <1>3, <1>4

\* The keys and the calls after a step, from what it did to each call.
LEMMA OiVerifies ==
  ASSUME OiInv, NEW c \in OiCallers, NEW token \in OiTokens, Oidc!Verify(c, token)
  PROVE  OiInv'
  <1> DEFINE call == [at |-> "waiting", token |-> token, steady |-> oiKeys.at # "reading" /\ Oidc!Usable(oiIssuer)]
  <1>1. /\ oiCall' = [oiCall EXCEPT ![c] = call]
        /\ oiKeys' = IF oiKeys.at = "none" THEN [at |-> "reading", asked |-> oiIssuer] ELSE oiKeys
        /\ oiOptions' = oiOptions /\ oiIssuer' = oiIssuer
    BY DEF Oidc!Verify, Oidc!OiGoes
  <1>2. /\ call \in OiCalls /\ call.at = "waiting"
        /\ call.steady => oiKeys.at # "reading" /\ Oidc!Usable(oiIssuer)
    BY DEF OiCalls, Oidc!Usable
  <1> HIDE DEF call
  <1>3. /\ oiCall' \in [OiCallers -> {Oidc!OiFree} \cup OiCalls] /\ oiCall'[c] = call
        /\ \A d \in OiCallers : d # c => oiCall'[d] = oiCall[d]
    BY <1>1, <1>2 DEF OiInv
  <1>4. /\ oiKeys'.at \in {"none", "reading", "held"}
        /\ oiKeys'.at = "held" => oiKeys' = oiKeys
        /\ oiKeys.at = "held" => oiKeys'.at = "held"
        /\ oiKeys'.at # "none"
        /\ oiKeys.at = "none" => oiKeys'.at = "reading" /\ oiKeys'.asked = oiIssuer
        /\ oiKeys.at # "none" => oiKeys' = oiKeys
    BY <1>1 DEF OiInv
  <1>5. \A d \in OiCallers : oiCall'[d].at = "accepted" => oiKeys'.at = "held" /\ OiGenuine(oiOptions', oiCall'[d].token)
    BY <1>1, <1>2, <1>3, <1>4 DEF OiInv
  <1>6. \A d \in OiCallers : oiCall'[d].at = "waiting" /\ oiCall'[d].steady =>
          /\ Oidc!Usable(oiIssuer') /\ oiKeys'.at # "none"
          /\ oiKeys'.at = "reading" => Oidc!Usable(oiKeys'.asked)
    BY <1>1, <1>2, <1>3, <1>4 DEF OiInv
  <1>7. \A d \in OiCallers : oiCall'[d].at = "refused" /\ oiCall'[d].steady =>
         ~OiGenuine(oiOptions', oiCall'[d].token) \/ oiCall'[d].token.expiredFor > oiOptions'.skew
    BY <1>1, <1>2, <1>3 DEF OiInv
  <1> QED BY <1>1, <1>3, <1>4, <1>5, <1>6, <1>7 DEF OiInv

LEMMA OiAnswers ==
  ASSUME OiInv, NEW doc, Oidc!DiscoveryAnswers(doc)
  PROVE  OiInv'
  <1>1. /\ oiKeys.at = "reading" /\ doc \in {oiKeys.asked, oiIssuer}
        /\ oiOptions' = oiOptions /\ oiIssuer' = oiIssuer
    BY DEF Oidc!DiscoveryAnswers
  <1>2. \A c \in OiCallers : oiCall[c].at = "waiting" /\ oiCall[c].steady => Oidc!Usable(doc)
    BY <1>1 DEF OiInv
  <1>3. \A c \in OiCallers : oiCall[c].at # "accepted"
    BY <1>1 DEF OiInv
  <1>4. CASE Oidc!Usable(doc)
    <2>1. oiKeys' = Oidc!HeldFrom(doc.scheme, doc.names) /\ oiCall' = oiCall
      BY <1>4 DEF Oidc!DiscoveryAnswers
    <2>2. oiKeys'.at = "held" /\ oiKeys'.names = "this issuer" /\ Oidc!Fetchable(oiKeys'.scheme)
      BY <1>4, <2>1 DEF Oidc!HeldFrom, Oidc!Usable
    <2>3. \A c \in OiCallers : oiCall'[c].at # "accepted"
      BY <1>3, <2>1
    <2>4. \A c \in OiCallers : oiCall'[c].at = "waiting" /\ oiCall'[c].steady => Oidc!Usable(oiIssuer')
      BY <1>1, <2>1 DEF OiInv
    <2>5. \A d \in OiCallers : oiCall'[d].at = "refused" /\ oiCall'[d].steady =>
           ~OiGenuine(oiOptions', oiCall'[d].token) \/ oiCall'[d].token.expiredFor > oiOptions'.skew
      BY <1>1, <2>1 DEF OiInv
    <2>6. oiCall' \in [OiCallers -> {Oidc!OiFree} \cup OiCalls] /\ Oidc!SoundOptions(oiOptions')
      BY <1>1, <2>1 DEF OiInv
    <2> QED BY <2>2, <2>3, <2>4, <2>5, <2>6 DEF OiInv
  <1>5. CASE ~Oidc!Usable(doc)
    <2>1. /\ oiKeys' = Oidc!NoKeys
          /\ oiCall' = [c \in OiCallers |-> IF oiCall[c].at = "waiting" THEN [oiCall[c] EXCEPT !.at = "refused"] ELSE oiCall[c]]
      BY <1>5 DEF Oidc!DiscoveryAnswers
    <2>2. oiKeys'.at = "none"
      BY <2>1 DEF Oidc!NoKeys
    <2>3. ASSUME NEW c \in OiCallers
          PROVE  /\ oiCall'[c] \in {Oidc!OiFree} \cup OiCalls
                 /\ \/ oiCall'[c] = oiCall[c] /\ oiCall[c].at # "waiting"
                    \/ oiCall'[c].at = "refused" /\ ~oiCall'[c].steady
      <3>1. oiCall[c] \in {Oidc!OiFree} \cup OiCalls
        BY DEF OiInv
      <3>2. CASE oiCall[c].at # "waiting"
        BY <2>1, <3>1, <3>2
      <3>3. CASE oiCall[c].at = "waiting"
        <4>1. oiCall[c] \in OiCalls
          BY <3>1, <3>3 DEF Oidc!OiFree
        <4>2. oiCall'[c] = [oiCall[c] EXCEPT !.at = "refused"]
          BY <2>1, <3>3
        <4>3. oiCall'[c] \in OiCalls /\ oiCall'[c].at = "refused" /\ oiCall'[c].steady = oiCall[c].steady
          BY <4>1, <4>2 DEF OiCalls
        <4> QED BY <1>2, <1>5, <3>3, <4>3
      <3> QED BY <3>2, <3>3
    <2>4. oiCall' \in [OiCallers -> {Oidc!OiFree} \cup OiCalls]
      BY <2>1, <2>3
    <2>5. \A c \in OiCallers : oiCall'[c].at \notin {"accepted", "waiting"}
      BY <1>3, <2>3
    <2>6. \A d \in OiCallers : oiCall'[d].at = "refused" /\ oiCall'[d].steady =>
           ~OiGenuine(oiOptions', oiCall'[d].token) \/ oiCall'[d].token.expiredFor > oiOptions'.skew
      BY <1>1, <2>3 DEF OiInv
    <2>7. Oidc!SoundOptions(oiOptions')
      BY <1>1 DEF OiInv
    <2> QED BY <2>2, <2>4, <2>5, <2>6, <2>7 DEF OiInv
  <1> QED BY <1>4, <1>5

\* With the keys of this issuer, the tokens accepted are the genuine ones that
\* are not too old.
LEMMA OiAccepted ==
  ASSUME OiInv, oiKeys.at = "held", NEW token \in OiTokens
  PROVE  /\ Oidc!Accepted(token) => OiGenuine(oiOptions, token)
         /\ OiGenuine(oiOptions, token) => Oidc!Accepted(token) \/ token.expiredFor > oiOptions.skew
  <1>1. oiKeys.names = "this issuer" /\ oiOptions.algorithms = {"asymmetric"} /\ oiOptions.skew \in 0 .. 300
    BY DEF OiInv, Oidc!SoundOptions
  <1>2. token.expiredFor \in Int
    BY TokensAssumption
  <1>3. /\ token.expiredFor <= oiOptions.skew => token.expiredFor <= 300
        /\ token.expiredFor <= oiOptions.skew \/ token.expiredFor > oiOptions.skew
    <2>1. ASSUME NEW e \in Int, NEW k \in 0 .. 300 PROVE (e <= k => e <= 300) /\ (e <= k \/ e > k)
      OBVIOUS
    <2> QED BY ZenonT(60), <1>1, <1>2, <2>1
  <1>4. token.algorithm \in oiOptions.algorithms <=> token.algorithm = "asymmetric"
    BY <1>1
  <1> QED BY <1>1, <1>3, <1>4, Zenon DEF Oidc!Accepted, OiGenuine

LEMMA OiDecides ==
  ASSUME OiInv, NEW c \in OiCallers, Oidc!Decide(c)
  PROVE  OiInv'
  <1> DEFINE verdict == IF Oidc!Accepted(oiCall[c].token) THEN "accepted" ELSE "refused"
  <1>1. /\ oiCall[c].at = "waiting" /\ oiKeys.at = "held"
        /\ oiCall' = [oiCall EXCEPT ![c] = [oiCall[c] EXCEPT !.at = verdict]]
        /\ oiOptions' = oiOptions /\ oiIssuer' = oiIssuer /\ oiKeys' = oiKeys
    BY DEF Oidc!Decide, Oidc!OiGoes
  <1>2. oiCall \in [OiCallers -> {Oidc!OiFree} \cup OiCalls]
    BY DEF OiInv
  <1>3. oiCall[c] \in OiCalls
    BY <1>1, <1>2 DEF Oidc!OiFree
  <1>4. oiCall[c].token \in OiTokens /\ verdict \in {"accepted", "refused"}
    BY <1>3 DEF OiCalls
  <1>5. /\ verdict = "accepted" => OiGenuine(oiOptions, oiCall[c].token)
        /\ verdict = "refused" => ~OiGenuine(oiOptions, oiCall[c].token) \/ oiCall[c].token.expiredFor > oiOptions.skew
    BY <1>1, <1>4, OiAccepted
  <1> HIDE DEF verdict
  <1>6. /\ oiCall'[c] \in OiCalls /\ oiCall'[c].at = verdict /\ oiCall'[c].token = oiCall[c].token
        /\ \A d \in OiCallers : d # c => oiCall'[d] = oiCall[d]
    <2> DEFINE call == [oiCall[c] EXCEPT !.at = verdict]
    <2>1. call \in OiCalls /\ call.at = verdict /\ call.token = oiCall[c].token
      BY <1>3, <1>4 DEF OiCalls
    <2> HIDE DEF call
    <2>2. oiCall' = [oiCall EXCEPT ![c] = call]
      BY <1>1 DEF call
    <2> QED BY <1>2, <2>1, <2>2
  <1>7. oiCall' \in [OiCallers -> {Oidc!OiFree} \cup OiCalls]
    BY <1>1, <1>2, <1>6
  <1>8. \A d \in OiCallers : oiCall'[d].at = "accepted" => oiKeys'.at = "held" /\ OiGenuine(oiOptions', oiCall'[d].token)
    BY <1>1, <1>5, <1>6 DEF OiInv
  <1>9. \A d \in OiCallers : oiCall'[d].at = "waiting" /\ oiCall'[d].steady =>
          /\ Oidc!Usable(oiIssuer') /\ oiKeys'.at # "none"
          /\ oiKeys'.at = "reading" => Oidc!Usable(oiKeys'.asked)
    BY <1>1, <1>4, <1>6 DEF OiInv
  <1>10. \A d \in OiCallers : oiCall'[d].at = "refused" /\ oiCall'[d].steady =>
         ~OiGenuine(oiOptions', oiCall'[d].token) \/ oiCall'[d].token.expiredFor > oiOptions'.skew
    BY <1>1, <1>4, <1>5, <1>6 DEF OiInv
  <1> QED BY <1>1, <1>7, <1>8, <1>9, <1>10 DEF OiInv

LEMMA OiTakes ==
  ASSUME OiInv, NEW c \in OiCallers, Oidc!TakeVerdict(c)
  PROVE  OiInv'
  <1>1. /\ oiCall' = [oiCall EXCEPT ![c] = Oidc!OiFree]
        /\ oiOptions' = oiOptions /\ oiIssuer' = oiIssuer /\ oiKeys' = oiKeys
    BY DEF Oidc!TakeVerdict, Oidc!OiGoes
  <1>2. /\ oiCall' \in [OiCallers -> {Oidc!OiFree} \cup OiCalls]
        /\ \A d \in OiCallers : oiCall'[d] = oiCall[d] \/ oiCall'[d].at = "free"
    BY <1>1 DEF OiInv, Oidc!OiFree
  <1>3. \A d \in OiCallers : oiCall'[d].at = "accepted" => oiKeys'.at = "held" /\ OiGenuine(oiOptions', oiCall'[d].token)
    BY <1>1, <1>2 DEF OiInv
  <1>4. \A d \in OiCallers : oiCall'[d].at = "waiting" /\ oiCall'[d].steady =>
          /\ Oidc!Usable(oiIssuer') /\ oiKeys'.at # "none"
          /\ oiKeys'.at = "reading" => Oidc!Usable(oiKeys'.asked)
    BY <1>1, <1>2 DEF OiInv
  <1>5. \A d \in OiCallers : oiCall'[d].at = "refused" /\ oiCall'[d].steady =>
         ~OiGenuine(oiOptions', oiCall'[d].token) \/ oiCall'[d].token.expiredFor > oiOptions'.skew
    BY <1>1, <1>2 DEF OiInv
  <1> QED BY <1>1, <1>2, <1>3, <1>4, <1>5 DEF OiInv

LEMMA OiIssuerTurns ==
  ASSUME OiInv, NEW doc, Oidc!IssuerChanges(doc)
  PROVE  OiInv'
  <1>1. /\ oiCall' = [c \in OiCallers |-> IF oiCall[c] = Oidc!OiFree THEN Oidc!OiFree ELSE [oiCall[c] EXCEPT !.steady = FALSE]]
        /\ oiOptions' = oiOptions /\ oiKeys' = oiKeys
    BY DEF Oidc!IssuerChanges
  <1>2. ASSUME NEW c \in OiCallers
        PROVE  /\ oiCall'[c] \in {Oidc!OiFree} \cup OiCalls
               /\ \/ oiCall'[c].at = "free"
                  \/ oiCall'[c].at = oiCall[c].at /\ oiCall'[c].token = oiCall[c].token /\ oiCall'[c].steady = FALSE
    <2>1. oiCall[c] \in {Oidc!OiFree} \cup OiCalls
      BY DEF OiInv
    <2>2. CASE oiCall[c] = Oidc!OiFree
      BY <1>1, <2>2 DEF Oidc!OiFree
    <2>3. CASE oiCall[c] # Oidc!OiFree
      <3>1. oiCall'[c] = [oiCall[c] EXCEPT !.steady = FALSE]
        BY <1>1, <2>3
      <3> QED BY <2>1, <2>3, <3>1 DEF OiCalls
    <2> QED BY <2>2, <2>3
  <1>3. oiCall' \in [OiCallers -> {Oidc!OiFree} \cup OiCalls]
    BY <1>1, <1>2
  <1>4. \A d \in OiCallers : oiCall'[d].at = "accepted" => oiKeys'.at = "held" /\ OiGenuine(oiOptions', oiCall'[d].token)
    BY <1>1, <1>2 DEF OiInv
  <1>5. \A d \in OiCallers : ~(oiCall'[d].at = "waiting" /\ oiCall'[d].steady)
    BY <1>2
  <1>6. \A d \in OiCallers : oiCall'[d].at = "refused" /\ oiCall'[d].steady =>
         ~OiGenuine(oiOptions', oiCall'[d].token) \/ oiCall'[d].token.expiredFor > oiOptions'.skew
    BY <1>2
  <1> QED BY <1>1, <1>3, <1>4, <1>5, <1>6 DEF OiInv

\* Only a genuine token is accepted, by keys that came by a way nobody else
\* could answer on, and one is refused only for cause (oidc.ts:77-82, 160-165).
THEOREM BackgroundVerdictsAreDue == AllSpec => []VerdictsAreDue
  <1>1. OiInv /\ [AllNext]_allVars => OiInv'
    <2> SUFFICES ASSUME OiInv, [Oidc!OiNext]_OidcVars PROVE OiInv'
      BY EachPartStepsOrRests
    <2>1. CASE UNCHANGED OidcVars
      BY <2>1 DEF OiInv, OidcVars
    <2> QED BY <2>1, OiVerifies, OiAnswers, OiDecides, OiTakes, OiIssuerTurns DEF Oidc!OiNext
  <1>2. OiInv => VerdictsAreDue
    <2> SUFFICES ASSUME OiInv PROVE VerdictsAreDue
      OBVIOUS
    <2>1. Oidc!OnlyGenuineAccepted
      BY ZenonT(60) DEF OiInv, Oidc!OnlyGenuineAccepted, Oidc!Genuine, OiGenuine
    <2>2. Oidc!RefusedForCause
      BY DEF OiInv, Oidc!RefusedForCause, Oidc!Genuine, OiGenuine
    <2> QED BY <2>1, <2>2 DEF VerdictsAreDue
  <1> QED BY <1>1, <1>2, OiInitInv, PTL DEF AllSpec

-----------------------------------------------------------------------------
(* The worker that embeds, and the pinned tier.                            *)

\* The worker keeps the process running exactly while a request waits on it, so
\* no request is cut off and an idle worker holds nothing (worker-embedder.ts:62-75).
THEOREM BackgroundHeldOpenWhileAsked == AllSpec => []Embedder!HeldOpenWhileAsked
  <1>1. AllInit => Embedder!HeldOpenWhileAsked
    BY DEF AllInit, Embedder!EmbInit, Embedder!HeldOpenWhileAsked
  <1>2. Embedder!HeldOpenWhileAsked /\ [AllNext]_allVars => Embedder!HeldOpenWhileAsked'
    <2> SUFFICES ASSUME Embedder!HeldOpenWhileAsked, [Embedder!EmbNext]_EmbedderVars PROVE Embedder!HeldOpenWhileAsked'
      BY EachPartStepsOrRests
    <2> USE DEF Embedder!HeldOpenWhileAsked
    <2>1. CASE UNCHANGED EmbedderVars
      BY <2>1 DEF EmbedderVars
    <2>2. ASSUME NEW c, Embedder!Posted(c) PROVE Embedder!HeldOpenWhileAsked'
      BY <2>2 DEF Embedder!Posted
    <2>3. ASSUME NEW c, NEW then, Embedder!Refused(c, then) PROVE Embedder!HeldOpenWhileAsked'
      BY <2>3 DEF Embedder!Refused
    <2>4. ASSUME NEW c, Embedder!WorkerAnswers(c) PROVE Embedder!HeldOpenWhileAsked'
      BY <2>4 DEF Embedder!WorkerAnswers
    <2>5. ASSUME Embedder!WorkerFails \/ Embedder!Close PROVE Embedder!HeldOpenWhileAsked'
      BY <2>5 DEF Embedder!WorkerFails, Embedder!Close, Embedder!WorkerEnds
    <2>6. ASSUME Embedder!DeliverAnswer PROVE Embedder!HeldOpenWhileAsked'
      BY <2>6 DEF Embedder!DeliverAnswer
    <2>7. ASSUME Embedder!DeliverExit PROVE Embedder!HeldOpenWhileAsked'
      BY <2>7 DEF Embedder!DeliverExit
    <2>8. ASSUME \/ Embedder!DisabledBySetting \/ Embedder!StartFails \/ Embedder!ProbeAnswered \/ Embedder!BatchEmbedded
          PROVE  Embedder!HeldOpenWhileAsked'
      BY <2>8 DEF Embedder!DisabledBySetting, Embedder!StartFails, Embedder!ProbeAnswered, Embedder!BatchEmbedded
    <2>9. ASSUME Embedder!StartAsks PROVE Embedder!HeldOpenWhileAsked'
      BY <2>2, <2>3, <2>9 DEF Embedder!StartAsks
    <2>10. ASSUME NEW c, Embedder!RecallAsks(c) \/ Embedder!RecallEnds(c) \/ Embedder!RecallAgain(c)
           PROVE  Embedder!HeldOpenWhileAsked'
      <3>1. CASE Embedder!RecallAsks(c)
        <4>1. \/ Embedder!Posted(c) \/ Embedder!Refused(c, "failed")
              \/ UNCHANGED <<embWorker, embPending, embRef>>
          BY <3>1 DEF Embedder!RecallAsks
        <4> QED BY <2>2, <2>3, <4>1
      <3> QED BY <2>10, <3>1 DEF Embedder!RecallEnds, Embedder!RecallAgain
    <2> QED BY <2>1, <2>4, <2>5, <2>6, <2>7, <2>8, <2>9, <2>10 DEF Embedder!EmbNext
  <1> QED BY <1>1, <1>2, PTL DEF AllSpec

LEMMA EmbOffStaysOff == [AllNext]_allVars => (embStatus = "off" => embStatus' = "off")
  <1> SUFFICES ASSUME [Embedder!EmbNext]_EmbedderVars, embStatus = "off" PROVE embStatus' = "off"
    BY EachPartStepsOrRests
  <1>1. CASE UNCHANGED EmbedderVars
    BY <1>1 DEF EmbedderVars
  <1>2. ASSUME NEW c, \/ Embedder!WorkerAnswers(c) \/ Embedder!RecallAsks(c) \/ Embedder!RecallEnds(c) \/ Embedder!RecallAgain(c)
        PROVE  embStatus' = "off"
    BY <1>2 DEF Embedder!WorkerAnswers, Embedder!RecallAsks, Embedder!RecallEnds, Embedder!RecallAgain
  <1>3. ASSUME \/ Embedder!WorkerFails \/ Embedder!Close \/ Embedder!DeliverAnswer \/ Embedder!DeliverExit
        PROVE  embStatus' = "off"
    BY <1>3 DEF Embedder!WorkerFails, Embedder!Close, Embedder!DeliverAnswer, Embedder!DeliverExit
  <1>4. ASSUME \/ Embedder!DisabledBySetting \/ Embedder!StartAsks \/ Embedder!StartFails
               \/ Embedder!ProbeAnswered \/ Embedder!BatchEmbedded
        PROVE  embStatus' = "off"
    BY <1>4 DEF Embedder!DisabledBySetting, Embedder!StartAsks, Embedder!StartFails, Embedder!ProbeAnswered,
                Embedder!BatchEmbedded
  <1> QED BY <1>1, <1>2, <1>3, <1>4 DEF Embedder!EmbNext

\* The pinned facts are facts, and a call that closes one names one of them.
SvFact == [text : SvTexts, flag : BOOLEAN, current : BOOLEAN]
SvInv ==
  /\ svFacts \in Seq(SvFact)
  /\ svCalls = [s \in SvSlots |-> svCalls[s]]
  /\ \A s \in SvSlots : /\ svCalls[s].at = "add" => svCalls[s].text \in SvTexts
                        /\ svCalls[s].at = "close" => svCalls[s].fact \in DOMAIN svFacts /\ svCalls[s].flag \in BOOLEAN

\* What is closed is not in the tier, with whatever labels it is written back.
SvClose(facts, x, f) == [facts EXCEPT ![x].current = FALSE, ![x].flag = f]

LEMMA SvClosed ==
  ASSUME NEW facts \in Seq(SvFact), NEW x \in DOMAIN facts, NEW f \in BOOLEAN, NEW new, new = SvClose(facts, x, f)
  PROVE  /\ new \in Seq(SvFact) /\ DOMAIN new = DOMAIN facts
         /\ new[x].current = FALSE
         /\ \A i \in DOMAIN facts : i # x => new[i] = facts[i]
  <1> DEFINE once == [facts[x] EXCEPT !.current = FALSE]
             fact == [once EXCEPT !.flag = f]
  <1>1. facts[x] \in SvFact
    OBVIOUS
  <1>2. once \in SvFact /\ once.current = FALSE
    BY <1>1 DEF SvFact
  <1>3. fact \in SvFact /\ fact.current = FALSE
    <2> HIDE DEF once
    <2> QED BY <1>2 DEF SvFact
  <1>4. new = [facts EXCEPT ![x] = fact]
    BY DEF SvClose
  <1> HIDE DEF once, fact
  <1> QED BY <1>3, <1>4

\* A call that only takes its turn, with nothing to write yet.
LEMMA SvTurn ==
  ASSUME SvInv, NEW s \in SvSlots, NEW step, Server!Turns(s, step), svFacts' = svFacts,
         step.at = "add" => step.text \in SvTexts,
         step.at = "close" => step.fact \in DOMAIN svFacts /\ step.flag \in BOOLEAN
  PROVE  SvInv'
  <1>1. svCalls' = [svCalls EXCEPT ![s] = step]
    BY DEF Server!Turns
  <1>2. svCalls' = [t \in SvSlots |-> IF t = s THEN step ELSE svCalls[t]]
    BY <1>1 DEF SvInv
  <1> QED BY <1>2 DEF SvInv

\* What a step of the server makes of the pinned facts.
SvStays == \A i \in DOMAIN svFacts : ~Server!InTier(i) => ~(svFacts'[i].flag /\ svFacts'[i].current)

LEMMA SvReads ==
  ASSUME SvInv, NEW s \in SvSlots,
         \/ Server!RecallStarts(s) \/ Server!RecallBreaks(s) \/ Server!RecallRenders(s) \/ Server!RecallAnswers(s)
         \/ (\E text \in SvTexts : Server!PinReads(s, text))
         \/ Server!PinReinforces(s)
         \/ (\E i \in DOMAIN svFacts : Server!UnpinReads(s, i) \/ Server!InvalidateReads(s, i))
  PROVE  SvInv' /\ svFacts' = svFacts
  <1>1. ASSUME NEW step, Server!Turns(s, step), svFacts' = svFacts, step.at \notin {"add", "close"} PROVE SvInv' /\ svFacts' = svFacts
    BY <1>1, SvTurn
  <1>2. CASE Server!RecallStarts(s)
    <2>1. Server!Turns(s, [at |-> "recalled"]) /\ svFacts' = svFacts
      BY <1>2 DEF Server!RecallStarts
    <2> QED BY <1>1, <2>1
  <1>3. CASE Server!RecallBreaks(s) \/ Server!RecallAnswers(s) \/ Server!PinReinforces(s)
    <2>1. Server!Turns(s, Server!Free) /\ svFacts' = svFacts
      BY <1>3 DEF Server!RecallBreaks, Server!RecallAnswers, Server!PinReinforces
    <2>2. Server!Free.at \notin {"add", "close"}
      BY DEF Server!Free
    <2> QED BY <1>1, <2>1, <2>2
  <1>4. CASE Server!RecallRenders(s)
    <2>1. PICK block : Server!Turns(s, [at |-> "rendered", block |-> block]) /\ svFacts' = svFacts
      BY <1>4 DEF Server!RecallRenders
    <2> QED BY <1>1, <2>1
  <1>5. ASSUME NEW text \in SvTexts, Server!PinReads(s, text) PROVE SvInv' /\ svFacts' = svFacts
    <2>1. PICK step \in {[at |-> "reinforce"], [at |-> "add", text |-> text]} : Server!Turns(s, step) /\ svFacts' = svFacts
      BY <1>5 DEF Server!PinReads
    <2>2. step.at # "close" /\ (step.at = "add" => step.text \in SvTexts)
      OBVIOUS
    <2> QED BY <2>1, <2>2, SvTurn
  <1>6. ASSUME NEW i \in DOMAIN svFacts, Server!UnpinReads(s, i) \/ Server!InvalidateReads(s, i)
        PROVE  SvInv' /\ svFacts' = svFacts
    <2>1. svFacts[i].flag \in BOOLEAN
      <3>1. svFacts \in Seq(SvFact)
        BY DEF SvInv
      <3>2. svFacts[i] \in SvFact
        BY <3>1
      <3> QED BY <3>2 DEF SvFact
    <2>2. PICK f \in BOOLEAN : Server!Turns(s, [at |-> "close", fact |-> i, flag |-> f]) /\ svFacts' = svFacts
      BY <1>6, <2>1 DEF Server!UnpinReads, Server!InvalidateReads
    <2> QED BY <2>2, SvTurn
  <1> QED BY <1>2, <1>3, <1>4, <1>5, <1>6

LEMMA SvNextKeeps ==
  ASSUME SvInv, [Server!SvNext]_ServerVars
  PROVE  SvInv' /\ SvStays
  <1>1. ASSUME svFacts' = svFacts PROVE SvStays
    BY <1>1 DEF SvStays, Server!InTier
  <1>2. CASE UNCHANGED ServerVars
    BY <1>1, <1>2 DEF SvInv, ServerVars
  <1>3. ASSUME NEW s \in SvSlots, Server!PinAdds(s) PROVE SvInv' /\ SvStays
    <2> DEFINE added == [text |-> svCalls[s].text, flag |-> TRUE, current |-> TRUE]
    <2>1. svFacts' = Append(svFacts, added) /\ svCalls' = [svCalls EXCEPT ![s] = Server!Free] /\ svFacts \in Seq(SvFact)
      BY <1>3 DEF Server!PinAdds, Server!Turns, SvInv
    <2>2. added \in SvFact
      BY <1>3 DEF Server!PinAdds, SvInv, SvFact
    <2> HIDE DEF added
    <2>3. /\ svFacts' \in Seq(SvFact) /\ \A i \in DOMAIN svFacts : i \in DOMAIN svFacts' /\ svFacts'[i] = svFacts[i]
      BY <2>1, <2>2
    <2>4. svCalls' = [t \in SvSlots |-> IF t = s THEN Server!Free ELSE svCalls[t]] /\ Server!Free.at = "free"
      BY <2>1 DEF SvInv, Server!Free
    <2>5. SvInv'
      BY <2>3, <2>4 DEF SvInv
    <2>6. SvStays
      BY <2>3 DEF SvStays, Server!InTier
    <2> QED BY <2>5, <2>6
  <1>4. ASSUME NEW s \in SvSlots, Server!Closes(s) PROVE SvInv' /\ SvStays
    <2> DEFINE x == svCalls[s].fact f == svCalls[s].flag
    <2>1. /\ svFacts' = [svFacts EXCEPT ![x].current = FALSE, ![x].flag = f] /\ svCalls' = [svCalls EXCEPT ![s] = Server!Free]
          /\ svFacts \in Seq(SvFact) /\ x \in DOMAIN svFacts /\ f \in BOOLEAN
      BY <1>4 DEF Server!Closes, Server!Turns, SvInv
    <2> HIDE DEF x, f
    <2>2. svFacts' = SvClose(svFacts, x, f)
      BY <2>1 DEF SvClose
    <2>3. /\ svFacts' \in Seq(SvFact) /\ DOMAIN svFacts' = DOMAIN svFacts
          /\ svFacts'[x].current = FALSE
          /\ \A i \in DOMAIN svFacts : i # x => svFacts'[i] = svFacts[i]
      BY <2>1, <2>2, SvClosed
    <2>4. svCalls' = [t \in SvSlots |-> IF t = s THEN Server!Free ELSE svCalls[t]] /\ Server!Free.at = "free"
      BY <2>1 DEF SvInv, Server!Free
    <2>5. SvInv'
      BY <2>3, <2>4 DEF SvInv
    <2>6. SvStays
      BY <2>3 DEF SvStays, Server!InTier
    <2> QED BY <2>5, <2>6
  <1>5. ASSUME NEW c, Server!SignsIn(c) PROVE SvInv' /\ SvStays
    BY <1>1, <1>5 DEF Server!SignsIn, SvInv
  <1> QED BY <1>1, <1>2, <1>3, <1>4, <1>5, SvReads DEF Server!SvNext

\* Semantic recall that is off stays off, and what was unpinned stays out of the
\* tier, whichever of two calls that close a rule writes last (semantic.ts:100,
\* governance-server.ts).
THEOREM BackgroundStaysOff == AllSpec => StaysOff
  <1>1. AllInit => SvInv
    <2> SUFFICES ASSUME Server!SvInit PROVE SvInv
      BY DEF AllInit
    <2>1. svFacts = <<>> /\ svCalls = [s \in SvSlots |-> [at |-> "free"]]
      BY DEF Server!SvInit, Server!Free
    <2> QED BY <2>1 DEF SvInv
  <1>2. SvInv /\ [AllNext]_allVars => SvInv' /\ SvStays
    <2>1. [AllNext]_allVars => [Server!SvNext]_ServerVars
      BY DEF AllNext, allVars, Alone, DerivedMoves, LogMoves, EmbedderMoves, ServerMoves, OidcMoves
    <2> QED BY <2>1, SvNextKeeps
  <1>3. [AllNext]_allVars => [embStatus = "off" => embStatus' = "off"]_(Embedder!embVars)
    BY EmbOffStaysOff
  <1>4. SvInv /\ [AllNext]_allVars => [SvStays]_(Server!svVars)
    BY <1>2
  <1>5. AllSpec => [][SvStays]_(Server!svVars)
    BY <1>1, <1>2, <1>4, PTL DEF AllSpec
  <1>6. AllSpec => [][embStatus = "off" => embStatus' = "off"]_(Embedder!embVars)
    BY <1>3, PTL DEF AllSpec
  <1> QED BY <1>5, <1>6 DEF StaysOff, Embedder!OffStaysOff, Server!UnpinnedStaysOut, SvStays

-----------------------------------------------------------------------------
(* The searches: the worklist loops of src/src/derived.ts.                 *)

LEMMA MembersOfAppend ==
  ASSUME NEW S, NEW s \in Seq(S), NEW x \in S
  PROVE  /\ Append(s, x) \in Seq(S)
         /\ Members(Append(s, x)) = Members(s) \cup {x}
  <1>1. /\ Append(s, x) \in Seq(S)
        /\ Len(Append(s, x)) = Len(s) + 1
        /\ \A k \in 1..Len(s) : Append(s, x)[k] = s[k]
        /\ Append(s, x)[Len(s) + 1] = x
        /\ Len(s) \in Nat
    OBVIOUS
  <1>2. \A k : k \in 1..(Len(s) + 1) <=> k \in 1..Len(s) \/ k = Len(s) + 1
    BY <1>1
  <1>3. QED
    BY <1>1, <1>2 DEF Members

LEMMA MembersOfTail ==
  ASSUME NEW S, NEW s \in Seq(S), s # <<>>
  PROVE  /\ Tail(s) \in Seq(S)
         /\ Head(s) \in S
         /\ Members(s) = {Head(s)} \cup Members(Tail(s))
  <1>1. /\ Tail(s) \in Seq(S)
        /\ Len(s) \in Nat /\ Len(s) >= 1
        /\ Len(Tail(s)) = Len(s) - 1
        /\ Head(s) = s[1]
        /\ \A k \in 1..(Len(s) - 1) : Tail(s)[k] = s[k + 1]
    OBVIOUS
  <1>2. Members(s) \subseteq {Head(s)} \cup Members(Tail(s))
    <2> SUFFICES ASSUME NEW k \in 1..Len(s), k # 1
                 PROVE  s[k] \in Members(Tail(s))
      BY <1>1 DEF Members
    <2>1. k - 1 \in 1..Len(Tail(s)) /\ Tail(s)[k - 1] = s[k]
      BY <1>1
    <2>2. QED
      BY <2>1 DEF Members
  <1>3. {Head(s)} \cup Members(Tail(s)) \subseteq Members(s)
    <2>1. \A k \in 1..Len(Tail(s)) : k + 1 \in 1..Len(s) /\ Tail(s)[k] = s[k + 1]
      BY <1>1
    <2>2. 1 \in 1..Len(s)
      BY <1>1
    <2>3. QED
      BY <1>1, <2>1, <2>2 DEF Members
  <1>4. QED
    BY <1>1, <1>2, <1>3

-----------------------------------------------------------------------------

\* The loop invariant.  What has been reached is what has been seen and is in
\* force; the facts resting on a reached fact have been seen unless the fact
\* still waits in the queue, or is the one being scanned and the scan has not
\* come to them; and nothing has been reached that some closed set around the
\* root leaves out.
Reached == {root} \cup OutIds

ReachedIsLiveSeen ==
  /\ root \in seen
  /\ OutIds = (seen \cap live) \ {root}

WaitingIsReached ==
  /\ Members(queue) \subseteq Reached
  /\ current # 0 => current \in Reached

ScannedIsSeen ==
  /\ \A x \in Reached : x \notin Members(queue) /\ x # current =>
       \A n \in Fact : x \in restsOn[n] => n \in seen
  /\ current # 0 => \A n \in 1..(next - 1) : current \in restsOn[n] => n \in seen

ReachedIsNeeded ==
  \A S \in SUBSET Fact : root \in S /\ Closed(Among(restsOn, live), S) => Reached \subseteq S

LoopInv ==
  /\ TypeOK
  /\ ReachedIsLiveSeen
  /\ WaitingIsReached
  /\ ScannedIsSeen
  /\ ReachedIsNeeded
  /\ EachFactOnce

-----------------------------------------------------------------------------

LEMMA InitLoopInv == Init => LoopInv
  <1> SUFFICES ASSUME Init PROVE LoopInv
    OBVIOUS
  <1> USE GraphsAssumption
  <1>1. TypeOK
    BY DEF Init, TypeOK, Fact
  <1>2. Members(queue) = {root} /\ OutIds = {}
    <2>1. Len(queue) = 1 /\ queue[1] = root /\ Len(out) = 0
      BY DEF Init
    <2>2. 1..Len(queue) = {1} /\ 1..Len(out) = {}
      BY <2>1
    <2>3. QED
      BY <2>1, <2>2 DEF Members, OutIds
  <1>3. ReachedIsLiveSeen /\ WaitingIsReached /\ ReachedIsNeeded
    BY <1>2 DEF Init, ReachedIsLiveSeen, WaitingIsReached, ReachedIsNeeded, Reached
  <1>4. ScannedIsSeen
    BY <1>2 DEF Init, ScannedIsSeen, Reached
  <1>5. EachFactOnce
    <2>1. Len(out) = 0
      BY DEF Init
    <2>2. QED
      BY <1>2, <2>1 DEF EachFactOnce
  <1>6. QED
    BY <1>1, <1>3, <1>4, <1>5 DEF LoopInv

LEMMA ShiftLoopInv == LoopInv /\ Shift => LoopInv'
  <1> SUFFICES ASSUME LoopInv, Shift PROVE LoopInv'
    OBVIOUS
  <1> USE GraphsAssumption
  <1>1. /\ Members(queue) = {current'} \cup Members(queue')
        /\ queue' \in Seq(Fact) /\ current' \in Fact
    BY MembersOfTail DEF Shift, LoopInv, TypeOK
  <1>2. OutIds' = OutIds /\ Reached' = Reached /\ (current' # 0)
    BY <1>1 DEF Shift, OutIds, Reached, Fact
  <1>3. TypeOK'
    BY <1>1 DEF Shift, LoopInv, TypeOK
  <1>4. ReachedIsLiveSeen' /\ EachFactOnce'
    BY <1>2 DEF Shift, LoopInv, ReachedIsLiveSeen, EachFactOnce
  <1>5. WaitingIsReached'
    BY <1>1, <1>2 DEF LoopInv, WaitingIsReached
  <1>6. ScannedIsSeen'
    <2>1. 1..(next' - 1) = {}
      BY DEF Shift
    <2>2. ASSUME NEW x \in Reached', x \notin Members(queue'), x # current', NEW n \in Fact, x \in restsOn'[n]
          PROVE  n \in seen'
      <3>1. x \in Reached /\ x \notin Members(queue) /\ x # current
        BY <1>1, <1>2, <2>2 DEF Shift, Reached, LoopInv, TypeOK, Fact, OutIds
      <3>2. QED
        BY <2>2, <3>1 DEF Shift, LoopInv, ScannedIsSeen
    <2>3. QED
      BY <2>1, <2>2 DEF ScannedIsSeen
  <1>7. ReachedIsNeeded'
    BY <1>2 DEF Shift, LoopInv, ReachedIsNeeded
  <1>8. QED
    BY <1>3, <1>4, <1>5, <1>6, <1>7 DEF LoopInv

LEMMA EndScanLoopInv == LoopInv /\ EndScan => LoopInv'
  <1> SUFFICES ASSUME LoopInv, EndScan PROVE LoopInv'
    OBVIOUS
  <1> USE GraphsAssumption
  <1>1. OutIds' = OutIds /\ Reached' = Reached /\ Members(queue') = Members(queue)
    BY DEF EndScan, OutIds, Reached, Members
  <1>2. 1..(next - 1) = Fact
    <2>1. next = N + 1
      BY DEF EndScan, LoopInv, TypeOK, Fact
    <2>2. QED
      BY <2>1 DEF Fact
  <1>3. TypeOK' /\ ReachedIsLiveSeen' /\ EachFactOnce' /\ WaitingIsReached' /\ ReachedIsNeeded'
    BY <1>1 DEF EndScan, LoopInv, TypeOK, ReachedIsLiveSeen, EachFactOnce, WaitingIsReached, ReachedIsNeeded
  <1>4. ScannedIsSeen'
    BY <1>1, <1>2 DEF EndScan, LoopInv, ScannedIsSeen
  <1>5. QED
    BY <1>3, <1>4 DEF LoopInv

\* A fact that is reached by a scan is one that every closed set must hold.
LEMMA ScanReaches ==
  ASSUME LoopInv, current # 0, next \in Fact, IsFresh(next), next \in live,
         NEW S \in SUBSET Fact, root \in S, Closed(Among(restsOn, live), S)
  PROVE  next \in S
  <1>1. current \in S
    BY DEF LoopInv, ReachedIsNeeded, WaitingIsReached
  <1>2. next \in DOMAIN Among(restsOn, live) /\ Among(restsOn, live)[next] = restsOn[next]
    BY DEF LoopInv, TypeOK, Among
  <1>3. QED
    BY <1>1, <1>2 DEF Closed, IsFresh

LEMMA ScanLoopInv == LoopInv /\ Scan => LoopInv'
  <1> SUFFICES ASSUME LoopInv, Scan PROVE LoopInv'
    OBVIOUS
  <1> USE GraphsAssumption
  <1> DEFINE reached == IsFresh(next) /\ next \in live
  <1>0. /\ TypeOK /\ next \in Fact /\ current \in Fact /\ current # 0
        /\ next' = next + 1 /\ next' \in 1..(N + 1)
        /\ 1..(next' - 1) = 1..(next - 1) \cup {next}
        /\ restsOn' = restsOn /\ live' = live /\ root' = root /\ current' = current
        /\ next \in Nat
    BY DEF Scan, LoopInv, TypeOK, Fact
  <1>1. CASE reached
    <2>1. /\ seen' = seen \cup {next}
          /\ queue' = Append(queue, next)
          /\ out' = Append(out, [nodeId |-> next, because |-> current])
          /\ next \notin seen
      BY <1>1 DEF Scan, IsFresh
    <2>2. queue' \in Seq(Fact) /\ Members(queue') = Members(queue) \cup {next}
      BY <1>0, <2>1, MembersOfAppend DEF TypeOK
    <2>3. /\ out' \in Seq([nodeId : Fact, because : Fact])
          /\ Len(out') = Len(out) + 1 /\ Len(out) \in Nat
          /\ out'[Len(out) + 1].nodeId = next
          /\ \A k \in 1..Len(out) : out'[k] = out[k]
      BY <1>0, <2>1 DEF TypeOK
    <2>4. OutIds' = OutIds \cup {next}
      <3>1. \A k : k \in 1..Len(out') <=> k \in 1..Len(out) \/ k = Len(out) + 1
        BY <2>3
      <3>2. QED
        BY <2>3, <3>1 DEF OutIds
    <2>5. Reached' = Reached \cup {next}
      BY <1>0, <2>4 DEF Reached
    <2>6. next \notin OutIds /\ next # root
      BY <2>1 DEF LoopInv, ReachedIsLiveSeen
    <2>7. TypeOK'
      BY <1>0, <2>1, <2>2, <2>3 DEF TypeOK
    <2>8. ReachedIsLiveSeen'
      BY <1>0, <1>1, <2>1, <2>4, <2>6 DEF LoopInv, ReachedIsLiveSeen
    <2>9. WaitingIsReached'
      BY <1>0, <2>2, <2>5 DEF LoopInv, WaitingIsReached
    <2>10. ScannedIsSeen'
      BY <1>0, <2>1, <2>2, <2>5 DEF LoopInv, ScannedIsSeen
    <2>11. ReachedIsNeeded'
      <3> SUFFICES ASSUME NEW S \in SUBSET Fact, root \in S, Closed(Among(restsOn, live), S)
                   PROVE  Reached \cup {next} \subseteq S
        BY <1>0, <2>5 DEF ReachedIsNeeded
      <3>1. next \in S
        BY <1>0, <1>1, ScanReaches
      <3>2. QED
        BY <3>1 DEF LoopInv, ReachedIsNeeded
    <2>12. EachFactOnce'
      <3>1. root' \notin OutIds'
        BY <1>0, <2>4, <2>6 DEF LoopInv, EachFactOnce
      <3>2. ASSUME NEW j \in 1..Len(out'), NEW k \in 1..Len(out'), out'[j].nodeId = out'[k].nodeId
            PROVE  j = k
        <4>1. \A i \in 1..Len(out) : out'[i].nodeId \in OutIds
          BY <2>3 DEF OutIds
        <4>2. CASE j = Len(out) + 1 \/ k = Len(out) + 1
          BY <2>3, <2>6, <3>2, <4>1, <4>2
        <4>3. CASE j \in 1..Len(out) /\ k \in 1..Len(out)
          BY <2>3, <3>2, <4>3 DEF LoopInv, EachFactOnce
        <4>4. QED
          BY <2>3, <4>2, <4>3
      <3>3. QED
        BY <3>1, <3>2 DEF EachFactOnce
    <2>13. QED
      BY <2>7, <2>8, <2>9, <2>10, <2>11, <2>12 DEF LoopInv
  <1>2. CASE ~reached
    <2>1. /\ seen' = IF IsFresh(next) THEN seen \cup {next} ELSE seen
          /\ queue' = queue /\ out' = out
      BY <1>2 DEF Scan
    <2>2. /\ OutIds' = OutIds /\ Reached' = Reached /\ Members(queue') = Members(queue)
          /\ IsFresh(next) => next \notin live
      BY <1>0, <1>2, <2>1 DEF OutIds, Reached, Members
    <2>3. TypeOK' /\ EachFactOnce' /\ WaitingIsReached' /\ ReachedIsNeeded'
      BY <1>0, <2>1, <2>2 DEF LoopInv, TypeOK, EachFactOnce, WaitingIsReached, ReachedIsNeeded
    <2>4. ReachedIsLiveSeen'
      BY <1>0, <2>1, <2>2 DEF LoopInv, ReachedIsLiveSeen
    <2>5. ScannedIsSeen'
      <3>1. seen \subseteq seen'
        BY <2>1
      <3>2. current \in restsOn[next] => next \in seen'
        BY <1>2, <2>1 DEF IsFresh
      <3>3. QED
        BY <1>0, <2>2, <3>1, <3>2 DEF LoopInv, ScannedIsSeen
    <2>6. QED
      BY <2>3, <2>4, <2>5 DEF LoopInv
  <1>3. QED
    BY <1>1, <1>2

LEMMA NextLoopInv == LoopInv /\ [Next]_vars => LoopInv'
  <1> SUFFICES ASSUME LoopInv, [Next]_vars PROVE LoopInv'
    OBVIOUS
  <1>1. CASE UNCHANGED vars
    <2>1. /\ OutIds' = OutIds /\ Reached' = Reached /\ Members(queue') = Members(queue)
          /\ restsOn' = restsOn /\ live' = live /\ root' = root /\ current' = current
          /\ queue' = queue /\ next' = next /\ seen' = seen /\ out' = out
      BY <1>1 DEF vars, OutIds, Reached, Members
    <2>2. TypeOK' /\ ReachedIsLiveSeen' /\ WaitingIsReached' /\ EachFactOnce'
      BY <2>1 DEF LoopInv, TypeOK, ReachedIsLiveSeen, WaitingIsReached, EachFactOnce
    <2>3. ScannedIsSeen' /\ ReachedIsNeeded'
      BY <2>1 DEF LoopInv, ScannedIsSeen, ReachedIsNeeded
    <2>4. QED
      BY <2>2, <2>3 DEF LoopInv
  <1>2. QED
    BY <1>1, ShiftLoopInv, ScanLoopInv, EndScanLoopInv DEF Next

LEMMA LoopInvHolds == Spec => []LoopInv
  BY InitLoopInv, NextLoopInv, PTL DEF Spec

-----------------------------------------------------------------------------

\* Every variable of the search keeps its type, whatever the graph.
THEOREM SearchTypeOK == Spec => []TypeOK
  <1>1. LoopInv => TypeOK
    BY DEF LoopInv
  <1>2. QED
    BY <1>1, LoopInvHolds, PTL

\* dependentsOf and retractionsFor never return a fact twice, nor the root.
THEOREM SearchReturnsEachFactOnce == Spec => []EachFactOnce
  <1>1. LoopInv => EachFactOnce
    BY DEF LoopInv
  <1>2. QED
    BY <1>1, LoopInvHolds, PTL

\* When the search is over, what has been reached is itself closed.
LEMMA ReachedIsClosed ==
  ASSUME LoopInv, Done
  PROVE  Reached \in SUBSET Fact /\ Closed(Among(restsOn, live), Reached)
  <1>1. Members(queue) = {}
    <2>1. Len(queue) = 0
      BY DEF Done
    <2>2. QED
      BY <2>1 DEF Members
  <1>2. Reached \in SUBSET Fact
    BY DEF LoopInv, TypeOK, Reached, ReachedIsLiveSeen
  <1>3. ASSUME NEW n \in Fact, Among(restsOn, live)[n] \cap Reached # {}
        PROVE  n \in Reached
    <2>1. n \in live /\ restsOn[n] \cap Reached # {}
      BY <1>3 DEF Among, LoopInv, TypeOK
    <2>2. PICK x \in Reached : x \in restsOn[n]
      BY <2>1
    <2>3. x \in Fact /\ x # current
      BY <1>2 DEF Done, Fact
    <2>4. n \in seen
      BY <1>1, <2>2, <2>3 DEF LoopInv, ScannedIsSeen
    <2>5. QED
      BY <2>1, <2>4 DEF LoopInv, ReachedIsLiveSeen, Reached
  <1>4. DOMAIN Among(restsOn, live) = Fact
    BY DEF Among, LoopInv, TypeOK
  <1>5. QED
    BY <1>2, <1>3, <1>4 DEF Closed

\* dependentsOf and retractionsFor are correct: for every graph and every set
\* of facts in force, what the loop has returned when it ends is exactly the
\* set of facts that rest on the root through facts in force.
THEOREM SearchFindsRetractions == Spec => []FindsRetractions
  <1>1. LoopInv => FindsRetractions
    <2> SUFFICES ASSUME LoopInv, Done
                 PROVE  OutIds = RetractionsFor(restsOn, live, root)
      BY DEF FindsRetractions
    <2>1. /\ DOMAIN Among(restsOn, live) = Fact
          /\ Fact \cup {root} = Fact
      BY DEF Among, LoopInv, TypeOK
    <2>2. OutIds \subseteq RetractionsFor(restsOn, live, root)
      <3>1. OutIds \subseteq Fact \ {root}
        BY DEF LoopInv, ReachedIsLiveSeen, TypeOK
      <3>2. \A S \in SUBSET Fact : root \in S /\ Closed(Among(restsOn, live), S) => OutIds \subseteq S
        BY DEF LoopInv, ReachedIsNeeded, Reached
      <3>3. QED
        BY <2>1, <3>1, <3>2 DEF RetractionsFor, DependentsOf
    <2>3. RetractionsFor(restsOn, live, root) \subseteq OutIds
      <3> SUFFICES ASSUME NEW n \in RetractionsFor(restsOn, live, root)
                   PROVE  n \in OutIds
        OBVIOUS
      <3>1. root \in Reached
        BY DEF Reached
      <3>2. n \in Reached /\ n # root
        BY <2>1, <3>1, ReachedIsClosed DEF RetractionsFor, DependentsOf
      <3>3. QED
        BY <3>2 DEF Reached
    <2>4. QED
      BY <2>2, <2>3
  <1>2. QED
    BY <1>1, LoopInvHolds, PTL

\* The reason on each fact returned is one of its sources, and went before it.
THEOREM SearchReasonsAreSources == Spec => []ReasonsAreSources
  <1> USE GraphsAssumption
  <1>1. Init => ReasonsAreSources
    <2> SUFFICES ASSUME Init PROVE ReasonsAreSources
      OBVIOUS
    <2>1. Len(out) = 0
      BY DEF Init
    <2>2. QED
      BY <2>1 DEF ReasonsAreSources
  <1>2. LoopInv /\ ReasonsAreSources /\ [Next]_vars => ReasonsAreSources'
    <2> SUFFICES ASSUME LoopInv, ReasonsAreSources, [Next]_vars PROVE ReasonsAreSources'
      OBVIOUS
    <2>1. CASE out' = out /\ restsOn' = restsOn /\ root' = root
      BY <2>1 DEF ReasonsAreSources
    <2>2. ASSUME Scan, IsFresh(next), next \in live PROVE ReasonsAreSources'
      <3>1. /\ out' = Append(out, [nodeId |-> next, because |-> current])
            /\ restsOn' = restsOn /\ root' = root
        BY <2>2 DEF Scan
      <3>2. out \in Seq([nodeId : Fact, because : Fact]) /\ next \in Fact /\ current \in Fact
        BY <2>2 DEF Scan, LoopInv, TypeOK
      <3>3. /\ Len(out') = Len(out) + 1 /\ Len(out) \in Nat
            /\ out'[Len(out) + 1] = [nodeId |-> next, because |-> current]
            /\ \A k \in 1..Len(out) : out'[k] = out[k]
        BY <3>1, <3>2
      <3>4. current = root \/ \E j \in 1..Len(out) : out[j].nodeId = current
        BY <2>2 DEF Scan, LoopInv, WaitingIsReached, Reached, OutIds
      <3> SUFFICES ASSUME NEW k \in 1..Len(out')
                   PROVE  /\ out'[k].because \in restsOn[out'[k].nodeId]
                          /\ out'[k].because = root \/ \E j \in 1..(k - 1) : out'[j].nodeId = out'[k].because
        BY <3>1 DEF ReasonsAreSources
      <3>5. CASE k = Len(out) + 1
        <4>1. current \in restsOn[next]
          BY <2>2 DEF IsFresh
        <4>2. 1..(k - 1) = 1..Len(out)
          BY <3>3, <3>5
        <4>3. QED
          BY <3>3, <3>4, <3>5, <4>1, <4>2
      <3>6. CASE k \in 1..Len(out)
        <4>1. \A j \in 1..(k - 1) : j \in 1..Len(out)
          BY <3>3, <3>6
        <4>2. QED
          BY <3>3, <3>6, <4>1 DEF ReasonsAreSources
      <3>7. QED
        BY <3>3, <3>5, <3>6
    <2>3. CASE Scan
      BY <2>1, <2>2, <2>3 DEF Scan
    <2>4. QED
      BY <2>1, <2>3 DEF Next, Shift, EndScan, vars
  <1>3. QED
    BY <1>1, <1>2, LoopInvHolds, PTL DEF Spec

\* Whatever the graph, circles included, the search returns each fact that goes
\* once, with a reason that is one of its sources and went before it.
THEOREM SearchAnswersRight == Spec => []AnswerIsRight
  BY SearchFindsRetractions, SearchReturnsEachFactOnce, SearchReasonsAreSources, PTL DEF AnswerIsRight

=============================================================================
