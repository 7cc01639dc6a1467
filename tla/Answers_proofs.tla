----------------------------- MODULE Answers_proofs -----------------------------
(***************************************************************************)
(* What holds of the parts of MCAnswers for any callers, keys, facts and   *)
(* bounds.  A behaviour moves one part; the invariant of a part is shown   *)
(* of the steps of that part alone.                                        *)
(***************************************************************************)
EXTENDS MCAnswers, TLAPS, WellFoundedInduction

\* While a part moves, or nothing does, the part that moves stays the same,
\* and the others rest.
LEMMA OnePartMoves ==
  ASSUME [Next]_vars
  PROVE  /\ part' = part
         /\ [StNext]_stVars
         /\ part = "recall" => [Recall!RcNext]_RecallVars
         /\ part = "models" => [Models!MmNext]_ModelsVars
         /\ part = "reads" => [Reads!GrNext]_ReadsVars
  BY DEF Next, vars, Alone, StatesMove, RecallMoves, ModelsMove, ReadsMove

-----------------------------------------------------------------------------
(* Current states.                                                         *)

StRow == [key : StKeys, text : StTexts, from : StTimes, to : StTimes \cup {Open}, by : Nat]
StReading ==
  [at : {"read"}, key : StKeys, text : StTexts, when : StTimes, replaces : SUBSET Nat, live : SUBSET Nat, later : SUBSET Nat]
StAdded == [at : {"added"}, node : Nat, when : StTimes, live : SUBSET Nat, replaces : SUBSET Nat]
StReadOne == [at : {"one read"}, old : Nat, by : Nat, was : StRow]
StClosing == [at : {"closing"}, node : Nat, when : StTimes, todo : SUBSET Nat]
StCallKinds == {Free} \cup StReading \cup StAdded \cup StReadOne \cup StClosing

StTypes == stStates \in Seq(StRow) /\ stCall \in [StCallers -> StCallKinds] /\ stOverlapped \in BOOLEAN

\* A state never loses its place, its key or the instant it began at.
StGrown(s, t) == \A i \in DOMAIN s : i \in DOMAIN t /\ t[i].key = s[i].key /\ t[i].from = s[i].from

StRowsOK(s) ==
  \A i \in DOMAIN s : s[i].to # Open => s[i].by \in DOMAIN s /\ s[i].to = s[s[i].by].from /\ s[i].from <= s[i].to

\* What a call has read of the states' keys and beginnings is still so, as those
\* never change; and all that it is going to close began no later than what
\* closes it.
StCallOK(call, s) ==
  /\ call.at = "read" => /\ call.live \subseteq DOMAIN s /\ call.replaces \subseteq DOMAIN s
                         /\ call.later = {i \in call.live : s[i].from > call.when}
  /\ call.at = "added" => /\ call.node \in DOMAIN s /\ s[call.node].from = call.when
                          /\ call.live \subseteq DOMAIN s /\ call.replaces \subseteq DOMAIN s
  /\ call.at = "one read" => /\ call.old \in DOMAIN s /\ call.by \in DOMAIN s /\ call.old # call.by
                             /\ call.was.from = s[call.old].from
  /\ call.at = "closing" => /\ call.node \in DOMAIN s /\ s[call.node].from = call.when
                            /\ \A i \in call.todo : i \in DOMAIN s /\ s[i].from <= call.when

\* A key has one live state at most, but for those that node is about to close.
LiveOf(s) == {i \in DOMAIN s : s[i].to = Open}
OneLiveBut(s, node, todo) ==
  \A i, j \in LiveOf(s) : s[i].key = s[j].key => i = j \/ (i = node /\ j \in todo) \/ (j = node /\ i \in todo)
OneLive(s) == \A i, j \in LiveOf(s) : s[i].key = s[j].key => i = j
StReaches(s) == \A S \in SUBSET DOMAIN s : (\A i \in S : s[i].to # Open /\ s[i].by \in S) => S = {}

\* Of a call that nothing overlaps: what it has read is how things are, and the
\* state it closes others with is live and not one of them.
StUndisturbed(call, s) ==
  /\ call.at \in {"free", "read", "one read"} => OneLive(s)
  /\ call.at = "read" => call.live = {i \in LiveOf(s) : s[i].key = call.key}
  /\ call.at = "added" => /\ s[call.node].to = Open /\ call.node \notin call.live \cup call.replaces
                          /\ \A i \in call.live : s[i].from <= call.when
                          /\ OneLiveBut(s, call.node, call.live)
  /\ call.at = "closing" => /\ s[call.node].to = Open /\ call.node \notin call.todo
                            /\ OneLiveBut(s, call.node, call.todo)

StRows == StRowsOK(stStates)
StCallsOK == \A c \in StCallers : StCallOK(stCall[c], stStates)
StAlone ==
  ~stOverlapped =>
    /\ \A c, d \in StCallers : stCall[c] # Free /\ stCall[d] # Free => c = d
    /\ StReaches(stStates)
    /\ (\A c \in StCallers : stCall[c] = Free) => OneLive(stStates)
    /\ \A c \in StCallers : stCall[c] # Free => StUndisturbed(stCall[c], stStates)

StInv == StTypes /\ StRows /\ StCallsOK /\ StAlone

LEMMA StKinds ==
  ASSUME NEW call \in StCallKinds
  PROVE  /\ call.at = "read" => call \in StReading
         /\ call.at = "added" => call \in StAdded
         /\ call.at = "one read" => call \in StReadOne
         /\ call.at = "closing" => call \in StClosing
         /\ call.at # "free" => call # Free
         /\ call = Free => call.at = "free"
  <1>1. Free.at = "free"
    BY DEF Free
  <1>2. /\ call \in StReading => call.at = "read"
        /\ call \in StAdded => call.at = "added"
        /\ call \in StReadOne => call.at = "one read"
        /\ call \in StClosing => call.at = "closing"
    BY DEF StReading, StAdded, StReadOne, StClosing
  <1> QED BY <1>1, <1>2 DEF StCallKinds

LEMMA StInitInv == StInit => StInv
  <1> SUFFICES ASSUME StInit PROVE StInv
    OBVIOUS
  <1>1. stStates = <<>> /\ DOMAIN stStates = {} /\ stCall = [c \in StCallers |-> Free] /\ stOverlapped = FALSE
    BY DEF StInit
  <1>2. StTypes
    <2>1. Free \in StCallKinds
      BY DEF StCallKinds
    <2>2. stCall \in [StCallers -> StCallKinds]
      BY <1>1, <2>1
    <2>3. stStates \in Seq(StRow)
      BY <1>1
    <2> QED BY <1>1, <2>2, <2>3 DEF StTypes
  <1>3. StRows
    BY <1>1 DEF StRows, StRowsOK
  <1>4. StCallsOK
    BY <1>1 DEF StCallsOK, StCallOK, Free
  <1>5. StAlone
    BY <1>1 DEF StAlone, StReaches, OneLive, LiveOf
  <1> QED BY <1>2, <1>3, <1>4, <1>5 DEF StInv

\* What a call knew of the states that were there is so of those that are.
LEMMA StCallKept ==
  ASSUME NEW call \in StCallKinds, NEW s \in Seq(StRow), NEW t \in Seq(StRow), StCallOK(call, s), StGrown(s, t)
  PROVE  StCallOK(call, t)
  <1>1. \A i \in DOMAIN s : i \in DOMAIN t /\ t[i].from = s[i].from
    BY DEF StGrown
  <1>2. call.at = "read" => /\ call.live \subseteq DOMAIN t /\ call.replaces \subseteq DOMAIN t
                            /\ call.later = {i \in call.live : t[i].from > call.when}
    BY <1>1 DEF StCallOK
  <1>3. call.at = "added" => /\ call.node \in DOMAIN t /\ t[call.node].from = call.when
                             /\ call.live \subseteq DOMAIN t /\ call.replaces \subseteq DOMAIN t
    BY <1>1 DEF StCallOK
  <1>4. call.at = "one read" => /\ call.old \in DOMAIN t /\ call.by \in DOMAIN t /\ call.old # call.by
                                /\ call.was.from = t[call.old].from
    BY <1>1 DEF StCallOK
  <1>5. call.at = "closing" => /\ call.node \in DOMAIN t /\ t[call.node].from = call.when
                               /\ \A i \in call.todo : i \in DOMAIN t /\ t[i].from <= call.when
    BY <1>1 DEF StCallOK
  <1> QED BY <1>2, <1>3, <1>4, <1>5 DEF StCallOK

\* A step of one caller keeps the invariant if what the caller does next fits
\* the states as they are then.
LEMMA StMoves ==
  ASSUME StInv, NEW c \in StCallers, NEW new \in StCallKinds,
         stCall' = [stCall EXCEPT ![c] = new], stOverlapped' \in BOOLEAN,
         stStates' \in Seq(StRow), StGrown(stStates, stStates'), StRowsOK(stStates'), StCallOK(new, stStates'),
         ~stOverlapped' => /\ ~stOverlapped /\ \A d \in StCallers \ {c} : stCall[d] = Free
                           /\ StReaches(stStates') /\ StUndisturbed(new, stStates')
  PROVE  StInv'
  <1>1. StTypes /\ stCall[c] \in StCallKinds
    BY DEF StInv, StTypes
  <1>2. StTypes'
    BY <1>1 DEF StTypes
  <1>3. StRows'
    BY DEF StRows
  <1>4. StCallsOK'
    <2> SUFFICES ASSUME NEW d \in StCallers PROVE StCallOK(stCall'[d], stStates')
      BY DEF StCallsOK
    <2>1. CASE d = c
      BY <2>1, <1>1 DEF StTypes
    <2>2. CASE d # c
      <3>1. stCall'[d] = stCall[d] /\ stCall[d] \in StCallKinds /\ stStates \in Seq(StRow)
        BY <2>2, <1>1 DEF StTypes
      <3>2. StCallOK(stCall[d], stStates)
        BY DEF StInv, StCallsOK
      <3> QED BY <3>1, <3>2, StCallKept
    <2> QED BY <2>1, <2>2
  <1>5. StAlone'
    <2> SUFFICES ASSUME ~stOverlapped' PROVE /\ \A d, e \in StCallers : stCall'[d] # Free /\ stCall'[e] # Free => d = e
                                             /\ StReaches(stStates')
                                             /\ (\A d \in StCallers : stCall'[d] = Free) => OneLive(stStates')
                                             /\ \A d \in StCallers : stCall'[d] # Free => StUndisturbed(stCall'[d], stStates')
      BY DEF StAlone
    <2>1. stCall'[c] = new /\ \A d \in StCallers \ {c} : stCall'[d] = Free
      BY <1>1 DEF StTypes
    <2>2. StReaches(stStates') /\ StUndisturbed(new, stStates')
      OBVIOUS
    <2>3. new = Free => OneLive(stStates')
      BY <2>2 DEF StUndisturbed, Free
    <2> QED BY <2>1, <2>2, <2>3
  <1> QED BY <1>2, <1>3, <1>4, <1>5 DEF StInv

LEMMA StGrownSame == ASSUME NEW s PROVE StGrown(s, s)
  BY DEF StGrown

\* A call that begins alone finds one live state of each key.
LEMMA StBeginsAlone ==
  ASSUME StInv, NEW c \in StCallers, NEW call, Begins(c, call)
  PROVE  /\ stCall' = [stCall EXCEPT ![c] = call] /\ stStates' = stStates /\ stOverlapped' \in BOOLEAN
         /\ ~stOverlapped' => /\ ~stOverlapped /\ \A d \in StCallers \ {c} : stCall[d] = Free
                              /\ StReaches(stStates) /\ OneLive(stStates)
  <1>1. /\ stCall[c] = Free /\ stStates' = stStates /\ stCall' = [stCall EXCEPT ![c] = call]
        /\ stOverlapped' = (stOverlapped \/ \E d \in StCallers \ {c} : stCall[d] # Free)
    BY DEF Begins
  <1>2. StTypes /\ StAlone
    BY DEF StInv
  <1>3. stOverlapped' \in BOOLEAN
    BY <1>1, <1>2 DEF StTypes
  <1>4. ~stOverlapped' => ~stOverlapped /\ \A d \in StCallers \ {c} : stCall[d] = Free
    BY <1>1, <1>2 DEF StTypes
  <1>5. ~stOverlapped' => StReaches(stStates) /\ OneLive(stStates)
    BY <1>1, <1>2, <1>4 DEF StAlone
  <1> QED BY <1>1, <1>3, <1>4, <1>5

\* A caller that goes on alone does so in what it left.
LEMMA StGoesAlone ==
  ASSUME StInv, NEW c \in StCallers, NEW call, Goes(c, call), stCall[c] # Free
  PROVE  /\ stCall' = [stCall EXCEPT ![c] = call] /\ stOverlapped' \in BOOLEAN
         /\ ~stOverlapped' => /\ ~stOverlapped /\ \A d \in StCallers \ {c} : stCall[d] = Free
                              /\ StReaches(stStates) /\ StUndisturbed(stCall[c], stStates)
  <1>1. stOverlapped' = stOverlapped /\ stCall' = [stCall EXCEPT ![c] = call]
    BY DEF Goes
  <1> QED BY <1>1 DEF StInv, StTypes, StAlone

LEMMA StRecordKeeps ==
  ASSUME StInv, NEW c \in StCallers, NEW key \in StKeys, NEW text \in StTexts, NEW when \in StTimes,
         NEW replaces, replaces \in {{}} \cup {{i} : i \in StIds}, RecordState(c, key, text, when, replaces)
  PROVE  StInv'
  <1> DEFINE live == {i \in LiveStates : stStates[i].key = key}
             busy == [at |-> "read", key |-> key, text |-> text, when |-> when, replaces |-> replaces,
                      live |-> live, later |-> {i \in live : stStates[i].from > when}]
             next == IF \E i \in NewestOf(live) : stStates[i].text = text THEN Free ELSE busy
  <1>1. Begins(c, next)
    BY DEF RecordState
  <1>2. StTypes /\ StRows
    BY DEF StInv
  <1>3. DOMAIN stStates \subseteq Nat
    BY <1>2 DEF StTypes
  <1>4. live = {i \in LiveOf(stStates) : stStates[i].key = key} /\ live \subseteq DOMAIN stStates /\ replaces \subseteq DOMAIN stStates
    BY DEF LiveStates, LiveOf, StIds
  <1> HIDE DEF live
  <1>5. busy \in StCallKinds /\ Free \in StCallKinds
    BY <1>3, <1>4 DEF StCallKinds, StReading
  <1>6. StCallOK(busy, stStates) /\ StCallOK(Free, stStates)
    BY <1>4 DEF StCallOK, Free
  <1>7. OneLive(stStates) => StUndisturbed(busy, stStates) /\ StUndisturbed(Free, stStates)
    BY <1>4 DEF StUndisturbed, Free
  <1>8. next = Free \/ next = busy
    OBVIOUS
  <1> HIDE DEF busy, next
  <1>9. next \in StCallKinds /\ StCallOK(next, stStates) /\ (OneLive(stStates) => StUndisturbed(next, stStates))
    BY <1>5, <1>6, <1>7, <1>8
  <1>10. /\ stCall' = [stCall EXCEPT ![c] = next] /\ stStates' = stStates /\ stOverlapped' \in BOOLEAN
         /\ ~stOverlapped' => /\ ~stOverlapped /\ \A d \in StCallers \ {c} : stCall[d] = Free
                              /\ StReaches(stStates) /\ OneLive(stStates)
    BY <1>1, StBeginsAlone
  <1> QED BY <1>2, <1>9, <1>10, StGrownSame, StMoves DEF StTypes, StRows

LEMMA StSupersedeKeeps ==
  ASSUME StInv, NEW c \in StCallers, NEW old \in StIds, NEW by \in StIds, SupersedeState(c, old, by)
  PROVE  StInv'
  <1> DEFINE next == [at |-> "one read", old |-> old, by |-> by, was |-> stStates[old]]
  <1>1. Begins(c, next) /\ old # by
    BY DEF SupersedeState
  <1>2. StTypes /\ StRows
    BY DEF StInv
  <1>3. stStates[old] \in StRow /\ old \in Nat /\ by \in Nat /\ old \in DOMAIN stStates /\ by \in DOMAIN stStates
    BY <1>2 DEF StTypes, StIds
  <1>4. next \in StCallKinds
    BY <1>3 DEF StCallKinds, StReadOne
  <1>5. StCallOK(next, stStates)
    BY <1>1, <1>3 DEF StCallOK
  <1>6. OneLive(stStates) => StUndisturbed(next, stStates)
    BY DEF StUndisturbed
  <1>7. /\ stCall' = [stCall EXCEPT ![c] = next] /\ stStates' = stStates /\ stOverlapped' \in BOOLEAN
        /\ ~stOverlapped' => /\ ~stOverlapped /\ \A d \in StCallers \ {c} : stCall[d] = Free
                             /\ StReaches(stStates) /\ OneLive(stStates)
    BY <1>1, StBeginsAlone
  <1> HIDE DEF next
  <1> QED BY <1>2, <1>4, <1>5, <1>6, <1>7, StGrownSame, StMoves DEF StTypes, StRows

LEMMA StReadReplacementKeeps ==
  ASSUME StInv, NEW c \in StCallers, ReadReplacement(c)
  PROVE  StInv'
  <1> DEFINE call == stCall[c]
             by == stStates[call.by]
             busy == [at |-> "closing", node |-> call.by, when |-> by.from, todo |-> {call.old}]
             next == IF MayClose(call.was, by) THEN busy ELSE Free
  <1>1. call.at = "one read" /\ stStates' = stStates /\ Goes(c, next)
    BY DEF ReadReplacement
  <1>2. StTypes /\ StRows /\ StCallOK(call, stStates) /\ call \in StCallKinds
    BY DEF StInv, StCallsOK, StTypes
  <1>3. /\ call.old \in DOMAIN stStates /\ call.by \in DOMAIN stStates /\ call.old # call.by
        /\ call.was.from = stStates[call.old].from
    BY <1>1, <1>2 DEF StCallOK
  <1>4. by \in StRow /\ by.from \in StTimes /\ call.by \in Nat /\ call.old \in Nat
    <2>1. call \in StReadOne
      BY <1>1, <1>2, StKinds
    <2>2. call.by \in Nat /\ call.old \in Nat
      BY <2>1 DEF StReadOne
    <2>3. by \in StRow
      BY <1>2, <1>3 DEF StTypes
    <2> QED BY <2>2, <2>3 DEF StRow
  <1>5. busy \in StCallKinds /\ Free \in StCallKinds
    BY <1>4 DEF StCallKinds, StClosing
  <1>6. MayClose(call.was, by) => StCallOK(busy, stStates)
    BY <1>3, <1>4, StTimesAssumption DEF MayClose, StCallOK
  <1>7. StCallOK(Free, stStates)
    BY DEF StCallOK, Free
  <1>8. stCall[c] # Free
    BY <1>1, <1>2, StKinds
  <1>9. /\ stCall' = [stCall EXCEPT ![c] = next] /\ stOverlapped' \in BOOLEAN
        /\ ~stOverlapped' => /\ ~stOverlapped /\ \A d \in StCallers \ {c} : stCall[d] = Free
                             /\ StReaches(stStates) /\ StUndisturbed(call, stStates)
    BY <1>1, <1>8, StGoesAlone
  <1>10. StUndisturbed(call, stStates) => OneLive(stStates)
    BY <1>1 DEF StUndisturbed
  <1>11. OneLive(stStates) /\ MayClose(call.was, by) => StUndisturbed(busy, stStates)
    BY <1>3 DEF StUndisturbed, OneLive, OneLiveBut, MayClose
  <1>12. OneLive(stStates) => StUndisturbed(Free, stStates)
    BY DEF StUndisturbed, Free
  <1>13. (MayClose(call.was, by) /\ next = busy) \/ (~MayClose(call.was, by) /\ next = Free)
    OBVIOUS
  <1> HIDE DEF busy, next, by, call
  <1>14. next \in StCallKinds /\ StCallOK(next, stStates) /\ (OneLive(stStates) => StUndisturbed(next, stStates))
    BY <1>5, <1>6, <1>7, <1>11, <1>12, <1>13
  <1>15. stStates' \in Seq(StRow) /\ StGrown(stStates, stStates') /\ StRowsOK(stStates') /\ StCallOK(next, stStates')
    BY <1>1, <1>2, <1>14, StGrownSame DEF StTypes, StRows
  <1>16. ~stOverlapped' => /\ ~stOverlapped /\ \A d \in StCallers \ {c} : stCall[d] = Free
                           /\ StReaches(stStates') /\ StUndisturbed(next, stStates')
    BY <1>1, <1>9, <1>10, <1>14
  <1> QED BY <1>9, <1>14, <1>15, <1>16, StMoves

LEMMA StCheckNamedKeeps ==
  ASSUME StInv, NEW c \in StCallers, CheckNamed(c)
  PROVE  StInv'
  <1> DEFINE call == stCall[c]
             todo == {i \in call.live : stStates[i].from <= call.when} \cup {i \in call.replaces : Replaceable(i, call.when)}
             next == [at |-> "closing", node |-> call.node, when |-> call.when, todo |-> todo]
  <1>1. call.at = "added" /\ stStates' = stStates /\ Goes(c, next)
    BY DEF CheckNamed
  <1>2. StTypes /\ StRows /\ StCallOK(call, stStates) /\ call \in StCallKinds
    BY DEF StInv, StCallsOK, StTypes
  <1>3. /\ call.node \in DOMAIN stStates /\ stStates[call.node].from = call.when
        /\ call.live \subseteq DOMAIN stStates /\ call.replaces \subseteq DOMAIN stStates
    BY <1>1, <1>2 DEF StCallOK
  <1>4. call \in StAdded
    BY <1>1, <1>2, StKinds
  <1>5. \A i \in todo : i \in DOMAIN stStates /\ stStates[i].from <= call.when
    BY <1>3 DEF Replaceable
  <1>6. todo \subseteq call.live \cup call.replaces
    OBVIOUS
  <1>7. (\A i \in call.live : stStates[i].from <= call.when) => call.live \subseteq todo
    OBVIOUS
  <1>8. next \in StCallKinds
    <2>1. todo \in SUBSET Nat
      BY <1>4, <1>6 DEF StAdded
    <2> HIDE DEF todo
    <2> QED BY <1>4, <2>1 DEF StCallKinds, StClosing, StAdded
  <1> HIDE DEF todo
  <1>9. StCallOK(next, stStates)
    BY <1>3, <1>5 DEF StCallOK
  <1>10. stCall[c] # Free
    BY <1>1, <1>2, StKinds
  <1>11. /\ stCall' = [stCall EXCEPT ![c] = next] /\ stOverlapped' \in BOOLEAN
         /\ ~stOverlapped' => /\ ~stOverlapped /\ \A d \in StCallers \ {c} : stCall[d] = Free
                              /\ StReaches(stStates) /\ StUndisturbed(call, stStates)
    BY <1>1, <1>10, StGoesAlone
  <1>12. StUndisturbed(call, stStates) => StUndisturbed(next, stStates)
    BY <1>1, <1>6, <1>7 DEF StUndisturbed, OneLiveBut
  <1> HIDE DEF next
  <1>13. stStates' \in Seq(StRow) /\ StGrown(stStates, stStates') /\ StRowsOK(stStates') /\ StCallOK(next, stStates')
    BY <1>1, <1>2, <1>9, StGrownSame DEF StTypes, StRows
  <1>14. ~stOverlapped' => /\ ~stOverlapped /\ \A d \in StCallers \ {c} : stCall[d] = Free
                           /\ StReaches(stStates') /\ StUndisturbed(next, stStates')
    BY <1>1, <1>11, <1>12
  <1> QED BY <1>8, <1>11, <1>13, <1>14, StMoves

\* Adding a state and closing one.
LEMMA StAppended ==
  ASSUME NEW s \in Seq(StRow), NEW row \in StRow, StRowsOK(s),
         row.to # Open => row.by \in DOMAIN s /\ row.to = s[row.by].from /\ row.from <= row.to
  PROVE  LET t == Append(s, row) IN
         /\ t \in Seq(StRow) /\ StGrown(s, t) /\ StRowsOK(t)
         /\ Len(s) + 1 \in DOMAIN t /\ t[Len(s) + 1] = row
         /\ DOMAIN t = DOMAIN s \cup {Len(s) + 1} /\ Len(s) + 1 \notin DOMAIN s
         /\ \A i \in DOMAIN s : t[i] = s[i]
         /\ StReaches(s) => StReaches(t)
  <1> DEFINE t == Append(s, row) n == Len(s) + 1
  <1>1. /\ t \in Seq(StRow) /\ DOMAIN t = DOMAIN s \cup {n} /\ n \notin DOMAIN s /\ t[n] = row
        /\ \A i \in DOMAIN s : t[i] = s[i]
    OBVIOUS
  <1> HIDE DEF t, n
  <1>2. StGrown(s, t)
    BY <1>1 DEF StGrown
  <1>3. StRowsOK(t)
    BY <1>1 DEF StRowsOK
  <1>4. ASSUME StReaches(s) PROVE StReaches(t)
    <2> SUFFICES ASSUME NEW S \in SUBSET DOMAIN t, \A i \in S : t[i].to # Open /\ t[i].by \in S PROVE S = {}
      BY DEF StReaches
    <2>1. \A i \in S \ {n} : i \in DOMAIN s /\ s[i].to # Open /\ s[i].by \in DOMAIN s /\ s[i].by \in S
      BY <1>1 DEF StRowsOK
    <2>2. S \ {n} = {}
      <3>1. S \ {n} \in SUBSET DOMAIN s
        BY <1>1
      <3>2. \A i \in S \ {n} : s[i].to # Open /\ s[i].by \in S \ {n}
        BY <1>1, <2>1
      <3> QED BY <1>4, <3>1, <3>2 DEF StReaches
    <2>3. n \in S => row.by \in S \ {n}
      BY <1>1
    <2> QED BY <2>2, <2>3
  <1> QED BY <1>1, <1>2, <1>3, <1>4 DEF t, n

StWithEnd(s, i, node, when) == [s EXCEPT ![i].to = when, ![i].by = node]
StWellEnded(s, t, i, node) ==
  /\ t \in Seq(StRow) /\ StGrown(s, t) /\ StRowsOK(t) /\ DOMAIN t = DOMAIN s
  /\ t[i].to # Open /\ \A j \in DOMAIN s \ {i} : t[j] = s[j]
  /\ \A j \in DOMAIN s : t[j].key = s[j].key /\ t[j].from = s[j].from
  /\ StReaches(s) /\ s[node].to = Open /\ node # i => StReaches(t)

LEMMA StEnded ==
  ASSUME NEW s \in Seq(StRow), StRowsOK(s), NEW i \in DOMAIN s, NEW node \in DOMAIN s, NEW when \in StTimes,
         s[node].from = when, s[i].from <= when
  PROVE  StWellEnded(s, StWithEnd(s, i, node, when), i, node)
  <1> DEFINE t == StWithEnd(s, i, node, when)
  <1> DEFINE ended == [[s[i] EXCEPT !.to = when] EXCEPT !.by = node]
  <1>1. s[i] \in StRow /\ i \in Nat /\ node \in Nat /\ when # Open
    BY StTimesAssumption DEF Open
  <1>2. ended \in StRow /\ ended.key = s[i].key /\ ended.from = s[i].from /\ ended.to = when /\ ended.by = node
    BY <1>1 DEF StRow
  <1>3. t = [s EXCEPT ![i] = ended]
    BY DEF StWithEnd
  <1> HIDE DEF t, ended
  <1>4. t \in Seq(StRow) /\ DOMAIN t = DOMAIN s /\ t[i] = ended /\ \A j \in DOMAIN s \ {i} : t[j] = s[j]
    BY <1>2, <1>3
  <1>5. \A j \in DOMAIN s : t[j].key = s[j].key /\ t[j].from = s[j].from
    BY <1>2, <1>4
  <1>6. StGrown(s, t)
    BY <1>4, <1>5 DEF StGrown
  <1>7. StRowsOK(t)
    <2> SUFFICES ASSUME NEW j \in DOMAIN t, t[j].to # Open
                 PROVE  t[j].by \in DOMAIN t /\ t[j].to = t[t[j].by].from /\ t[j].from <= t[j].to
      BY DEF StRowsOK
    <2>1. CASE j = i
      BY <2>1, <1>2, <1>4, <1>5
    <2>2. CASE j # i
      <3>1. s[j].to # Open /\ t[j] = s[j] /\ j \in DOMAIN s
        BY <2>2, <1>4
      <3>2. s[j].by \in DOMAIN s /\ s[j].to = s[s[j].by].from /\ s[j].from <= s[j].to
        BY <3>1 DEF StRowsOK
      <3> QED BY <3>1, <3>2, <1>4, <1>5
    <2> QED BY <2>1, <2>2
  <1>8. ASSUME StReaches(s), s[node].to = Open, node # i PROVE StReaches(t)
    <2> SUFFICES ASSUME NEW S \in SUBSET DOMAIN t, \A j \in S : t[j].to # Open /\ t[j].by \in S PROVE S = {}
      BY DEF StReaches
    <2>1. node \notin S
      BY <1>4, <1>8 DEF StWellEnded, t
    <2>2. i \notin S
      BY <2>1, <1>2, <1>4
    <2>3. \A j \in S : s[j].to # Open /\ s[j].by \in S
      BY <2>2, <1>4
    <2> QED BY <2>3, <1>4, <1>8 DEF StReaches
  <1> QED BY <1>1, <1>2, <1>4, <1>5, <1>6, <1>7, <1>8 DEF StWellEnded, t

LEMMA StAddKeeps ==
  ASSUME StInv, NEW c \in StCallers, AddState(c)
  PROVE  StInv'
  <1> DEFINE call == stCall[c]
             row(to, by) == [key |-> call.key, text |-> call.text, from |-> call.when, to |-> to, by |-> by]
             n == Len(stStates) + 1
             added == [at |-> "added", node |-> n, when |-> call.when, live |-> call.live, replaces |-> call.replaces]
  <1>1. StTypes /\ StRows /\ StCallOK(call, stStates) /\ call \in StCallKinds
    BY DEF StInv, StCallsOK, StTypes
  <1>2. call.at = "read"
    BY DEF AddState
  <1>3. call \in StReading /\ call # Free
    BY <1>1, <1>2, StKinds
  <1>4. /\ call.live \subseteq DOMAIN stStates /\ call.replaces \subseteq DOMAIN stStates
        /\ call.later = {i \in call.live : stStates[i].from > call.when}
    BY <1>1, <1>2 DEF StCallOK
  <1>5. /\ call.key \in StKeys /\ call.text \in StTexts /\ call.when \in StTimes /\ call.when \in Nat
        /\ call.live \in SUBSET Nat /\ call.replaces \in SUBSET Nat
    BY <1>3, StTimesAssumption DEF StReading
  <1>6. n \in Nat /\ stStates \in Seq(StRow) /\ StRowsOK(stStates) /\ \A i \in DOMAIN stStates : stStates[i].from \in Nat /\ stStates[i] \in StRow
    <2>1. stStates \in Seq(StRow) /\ StRowsOK(stStates)
      BY <1>1 DEF StTypes, StRows
    <2>2. \A i \in DOMAIN stStates : stStates[i] \in StRow
      BY <2>1
    <2>3. \A r \in StRow : r.from \in Nat
      BY StTimesAssumption DEF StRow
    <2>4. n \in Nat
      BY <2>1
    <2> QED BY <2>1, <2>2, <2>3, <2>4
  <1>7. StUndisturbed(call, stStates) => OneLive(stStates) /\ call.live = {i \in LiveOf(stStates) : stStates[i].key = call.key}
    BY <1>2 DEF StUndisturbed
  <1>8. CASE call.later # {}
    <2>1. PICK next \in OldestOf(call.later) : /\ stStates' = Append(stStates, row(stStates[next].from, next))
                                               /\ Goes(c, Free)
      BY <1>8 DEF AddState
    <2>2. next \in DOMAIN stStates /\ stStates[next].from > call.when /\ next \in Nat
      BY <1>4, <1>6 DEF OldestOf
    <2>3. stStates[next].from \in StTimes /\ stStates[next].from # Open
      BY <2>2, <1>6, StTimesAssumption DEF StRow, Open
    <2> DEFINE new == row(stStates[next].from, next)
    <2>4. new \in StRow
      BY <1>5, <2>2, <2>3 DEF StRow
    <2>5. new.to # Open /\ new.by = next /\ new.to = stStates[next].from /\ new.from = call.when /\ call.when <= new.to
      BY <2>2, <2>3, <1>5, <1>6
    <2> HIDE DEF new
    <2>6. /\ stStates' \in Seq(StRow) /\ StGrown(stStates, stStates') /\ StRowsOK(stStates') /\ stStates'[n] = new
          /\ DOMAIN stStates' = DOMAIN stStates \cup {n} /\ \A i \in DOMAIN stStates : stStates'[i] = stStates[i]
          /\ StReaches(stStates) => StReaches(stStates')
      BY <2>1, <2>2, <2>4, <2>5, <1>6, StAppended DEF new
    <2>7. OneLive(stStates) => OneLive(stStates')
      BY <2>5, <2>6 DEF OneLive, LiveOf
    <2>8. /\ stCall' = [stCall EXCEPT ![c] = Free] /\ stOverlapped' \in BOOLEAN
          /\ ~stOverlapped' => /\ ~stOverlapped /\ \A d \in StCallers \ {c} : stCall[d] = Free
                               /\ StReaches(stStates) /\ StUndisturbed(call, stStates)
      BY <2>1, <1>3, StGoesAlone
    <2>9. Free \in StCallKinds /\ StCallOK(Free, stStates') /\ (OneLive(stStates') => StUndisturbed(Free, stStates'))
      BY DEF StCallKinds, Free, StCallOK, StUndisturbed
    <2>10. ~stOverlapped' => /\ ~stOverlapped /\ \A d \in StCallers \ {c} : stCall[d] = Free
                             /\ StReaches(stStates') /\ StUndisturbed(Free, stStates')
      BY <1>7, <2>6, <2>7, <2>8, <2>9
    <2> QED BY <2>6, <2>8, <2>9, <2>10, StMoves
  <1>9. CASE call.later = {}
    <2>1. stStates' = Append(stStates, row(Open, NoState)) /\ Goes(c, added)
      BY <1>9 DEF AddState
    <2> DEFINE new == row(Open, NoState)
    <2>2. new \in StRow /\ new.to = Open /\ new.key = call.key /\ new.from = call.when
      BY <1>5 DEF StRow, Open, NoState
    <2> HIDE DEF new
    <2>3. /\ stStates' \in Seq(StRow) /\ StGrown(stStates, stStates') /\ StRowsOK(stStates')
          /\ n \in DOMAIN stStates' /\ stStates'[n] = new
          /\ DOMAIN stStates' = DOMAIN stStates \cup {n} /\ n \notin DOMAIN stStates
          /\ \A i \in DOMAIN stStates : stStates'[i] = stStates[i]
          /\ StReaches(stStates) => StReaches(stStates')
      BY <2>1, <2>2, <1>6, StAppended DEF new
    <2>4. added \in StCallKinds
      BY <1>5, <1>6 DEF StCallKinds, StAdded
    <2>5. StCallOK(added, stStates')
      BY <2>2, <2>3, <1>4 DEF StCallOK
    <2>6. \A i \in call.live : stStates'[i].from <= call.when
      BY <1>4, <1>5, <1>6, <1>9, <2>3
    <2>7. StUndisturbed(call, stStates) => StUndisturbed(added, stStates')
      <3> SUFFICES ASSUME StUndisturbed(call, stStates) PROVE StUndisturbed(added, stStates')
        OBVIOUS
      <3>1. LiveOf(stStates') = LiveOf(stStates) \cup {n}
        BY <2>2, <2>3 DEF LiveOf
      <3>2. \A i \in LiveOf(stStates) : stStates'[i] = stStates[i] /\ i # n
        BY <2>3 DEF LiveOf
      <3>3. OneLiveBut(stStates', n, call.live)
        BY <1>7, <3>1, <3>2, <2>2, <2>3 DEF OneLiveBut, OneLive
      <3>4. n \notin call.live \cup call.replaces
        BY <1>4, <2>3
      <3> QED BY <2>2, <2>3, <2>6, <3>3, <3>4 DEF StUndisturbed
    <2>8. /\ stCall' = [stCall EXCEPT ![c] = added] /\ stOverlapped' \in BOOLEAN
          /\ ~stOverlapped' => /\ ~stOverlapped /\ \A d \in StCallers \ {c} : stCall[d] = Free
                               /\ StReaches(stStates) /\ StUndisturbed(call, stStates)
      BY <2>1, <1>3, StGoesAlone
    <2> HIDE DEF added
    <2>9. ~stOverlapped' => /\ ~stOverlapped /\ \A d \in StCallers \ {c} : stCall[d] = Free
                            /\ StReaches(stStates') /\ StUndisturbed(added, stStates')
      BY <2>3, <2>7, <2>8
    <2> QED BY <2>3, <2>4, <2>5, <2>8, <2>9, StMoves
  <1> QED BY <1>8, <1>9

LEMMA StCloseKeeps ==
  ASSUME StInv, NEW c \in StCallers, CloseState(c)
  PROVE  StInv'
  <1> DEFINE call == stCall[c]
  <1>1. StTypes /\ StRows /\ StCallOK(call, stStates) /\ call \in StCallKinds
    BY DEF StInv, StCallsOK, StTypes
  <1>2. call.at = "closing"
    BY DEF CloseState
  <1>3. call \in StClosing /\ call # Free
    BY <1>1, <1>2, StKinds
  <1>4. /\ call.node \in DOMAIN stStates /\ stStates[call.node].from = call.when
        /\ \A i \in call.todo : i \in DOMAIN stStates /\ stStates[i].from <= call.when
    BY <1>1, <1>2 DEF StCallOK
  <1>5. call.node \in Nat /\ call.when \in StTimes /\ call.todo \in SUBSET Nat
    BY <1>3 DEF StClosing
  <1>6. stStates \in Seq(StRow) /\ StRowsOK(stStates)
    BY <1>1 DEF StTypes, StRows
  <1>7. StUndisturbed(call, stStates) => /\ stStates[call.node].to = Open /\ call.node \notin call.todo
                                         /\ OneLiveBut(stStates, call.node, call.todo)
    BY <1>2 DEF StUndisturbed
  <1>8. CASE call.todo = {}
    <2>1. stStates' = stStates /\ Goes(c, Free)
      BY <1>8 DEF CloseState
    <2>2. StUndisturbed(call, stStates) => OneLive(stStates)
      BY <1>7, <1>8 DEF OneLive, OneLiveBut
    <2>3. /\ stCall' = [stCall EXCEPT ![c] = Free] /\ stOverlapped' \in BOOLEAN
          /\ ~stOverlapped' => /\ ~stOverlapped /\ \A d \in StCallers \ {c} : stCall[d] = Free
                               /\ StReaches(stStates) /\ StUndisturbed(call, stStates)
      BY <2>1, <1>3, StGoesAlone
    <2>4. Free \in StCallKinds /\ StCallOK(Free, stStates') /\ (OneLive(stStates') => StUndisturbed(Free, stStates'))
      BY DEF StCallKinds, Free, StCallOK, StUndisturbed
    <2>5. ~stOverlapped' => /\ ~stOverlapped /\ \A d \in StCallers \ {c} : stCall[d] = Free
                            /\ StReaches(stStates') /\ StUndisturbed(Free, stStates')
      BY <2>1, <2>2, <2>3, <2>4
    <2>6. stStates' \in Seq(StRow) /\ StGrown(stStates, stStates') /\ StRowsOK(stStates')
      BY <2>1, <1>6, StGrownSame
    <2> QED BY <2>3, <2>4, <2>5, <2>6, StMoves
  <1>9. CASE call.todo # {}
    <2>1. PICK i \in call.todo : Ends(i, call.node, call.when) /\ Goes(c, [call EXCEPT !.todo = @ \ {i}])
      BY <1>9 DEF CloseState
    <2> DEFINE next == [call EXCEPT !.todo = @ \ {i}]
    <2>2. i \in DOMAIN stStates /\ stStates[i].from <= call.when
      BY <1>4
    <2>3. /\ next \in StClosing /\ next.at = "closing" /\ next.node = call.node /\ next.when = call.when
          /\ next.todo = call.todo \ {i}
      BY <1>3 DEF StClosing
    <2> HIDE DEF next
    <2>4. stStates' = [stStates EXCEPT ![i].to = call.when, ![i].by = call.node]
      BY <2>1 DEF Ends
    <2>5. /\ stStates' \in Seq(StRow) /\ StGrown(stStates, stStates') /\ StRowsOK(stStates')
          /\ DOMAIN stStates' = DOMAIN stStates
          /\ stStates'[i].to # Open /\ \A j \in DOMAIN stStates \ {i} : stStates'[j] = stStates[j]
          /\ \A j \in DOMAIN stStates : stStates'[j].key = stStates[j].key /\ stStates'[j].from = stStates[j].from
          /\ StReaches(stStates) /\ stStates[call.node].to = Open /\ call.node # i => StReaches(stStates')
      <3>1. stStates' = StWithEnd(stStates, i, call.node, call.when)
        BY <2>4 DEF StWithEnd
      <3>2. StWellEnded(stStates, StWithEnd(stStates, i, call.node, call.when), i, call.node)
        BY <2>2, <1>4, <1>5, <1>6, StEnded
      <3> QED BY <3>1, <3>2 DEF StWellEnded
    <2>6. StCallOK(next, stStates')
      BY <2>3, <2>5, <1>4 DEF StCallOK
    <2>7. StUndisturbed(call, stStates) => StUndisturbed(next, stStates')
      <3> SUFFICES ASSUME StUndisturbed(call, stStates) PROVE StUndisturbed(next, stStates')
        OBVIOUS
      <3>1. call.node # i /\ stStates'[call.node].to = Open /\ next.node \notin next.todo
        BY <1>4, <1>7, <2>3, <2>5
      <3>2. LiveOf(stStates') = LiveOf(stStates) \ {i}
        BY <2>5 DEF LiveOf
      <3>3. \A j \in LiveOf(stStates') : stStates'[j].key = stStates[j].key
        BY <2>5 DEF LiveOf
      <3>4. OneLiveBut(stStates', call.node, next.todo)
        BY <1>7, <3>2, <3>3, <2>3 DEF OneLiveBut
      <3> QED BY <2>3, <3>1, <3>4 DEF StUndisturbed
    <2>8. /\ stCall' = [stCall EXCEPT ![c] = next] /\ stOverlapped' \in BOOLEAN
          /\ ~stOverlapped' => /\ ~stOverlapped /\ \A d \in StCallers \ {c} : stCall[d] = Free
                               /\ StReaches(stStates) /\ StUndisturbed(call, stStates)
      BY <2>1, <1>3, StGoesAlone DEF next
    <2>9. ~stOverlapped' => /\ ~stOverlapped /\ \A d \in StCallers \ {c} : stCall[d] = Free
                            /\ StReaches(stStates') /\ StUndisturbed(next, stStates')
      BY <1>7, <2>5, <2>7, <2>8
    <2>10. next \in StCallKinds
      BY <2>3 DEF StCallKinds
    <2> QED BY <2>5, <2>6, <2>8, <2>9, <2>10, StMoves
  <1> QED BY <1>8, <1>9

LEMMA StNextKeeps == ASSUME StInv, [StNext]_stVars PROVE StInv'
  <1>1. ASSUME UNCHANGED stVars PROVE StInv'
    BY <1>1 DEF stVars, StInv, StTypes, StRows, StCallsOK, StAlone
  <1>2. ASSUME StNext PROVE StInv'
    <2>1. PICK c \in StCallers :
            \/ \E key \in StKeys, text \in StTexts, when \in StTimes, S \in {{}} \cup {{i} : i \in StIds} :
                 RecordState(c, key, text, when, S)
            \/ AddState(c)
            \/ CheckNamed(c)
            \/ CloseState(c)
            \/ \E old, by \in StIds : SupersedeState(c, old, by)
            \/ ReadReplacement(c)
      BY <1>2, Zenon DEF StNext
    <2>2. ASSUME NEW key \in StKeys, NEW text \in StTexts, NEW when \in StTimes, NEW S \in {{}} \cup {{i} : i \in StIds},
                 RecordState(c, key, text, when, S)
          PROVE  StInv'
      BY <2>2, StRecordKeeps
    <2>3. ASSUME NEW old \in StIds, NEW by \in StIds, SupersedeState(c, old, by) PROVE StInv'
      BY <2>3, StSupersedeKeeps
    <2> QED BY <2>1, <2>2, <2>3, StAddKeeps, StCheckNamedKeeps, StCloseKeeps, StReadReplacementKeeps
  <1> QED BY <1>1, <1>2

\* The rows of current states are in order and what each recording, caught between
\* two of its calls, has read and has still to close agrees with them.
THEOREM AnswersStInv == Spec => []StInv
  <1>1. Init => StInv
    BY StInitInv DEF Init
  <1>2. StInv /\ [Next]_vars => StInv'
    BY OnePartMoves, StNextKeeps
  <1> QED BY <1>1, <1>2, PTL DEF Spec

\* Late news never overturns newer news: whatever closed a state began no earlier
\* than it, and the state ends at the very instant that one began, for any
\* callers, keys and instants and however recordings interleave
\* (src/state.ts:18-19).
THEOREM AnswersClosedByNewer == Spec => []ClosedByNewer
  <1>1. StInv => ClosedByNewer
    BY DEF StInv, StRows, StRowsOK, ClosedByNewer, StIds
  <1> QED BY <1>1, AnswersStInv, PTL

\* Recordings that never overlapped leave one live state of a key, and from every
\* state that was replaced the live one can be reached, for any number of
\* recordings (src/state.ts:2).
THEOREM AnswersOneStateAtLast == Spec => []OneStateAtLast
  <1>1. ASSUME StInv PROVE OneStateAtLast
    <2>1. Quiet => OneLive(stStates) /\ StReaches(stStates)
      BY <1>1 DEF StInv, StAlone, Quiet
    <2>2. LiveStates = LiveOf(stStates)
      BY DEF LiveStates, LiveOf, StIds
    <2>3. OneLivePerKey
      BY <2>1, <2>2 DEF OneLivePerKey, OneLive
    <2>4. LeadsToLive
      BY <2>1 DEF LeadsToLive, StReaches, StIds
    <2> QED BY <2>3, <2>4 DEF OneStateAtLast
  <1> QED BY <1>1, AnswersStInv, PTL

-----------------------------------------------------------------------------
(* Mental models.                                                          *)

MmFact ==
  [at : {"new", "live", "aside", "ended", "erased"}, learned : 0 .. MmMaxClock, own : BOOLEAN, text : {1, 2}]
MmQuotes == UNION {[S -> {1, 2}] : S \in SUBSET MmFacts}
MmAnswer ==
  [there : BOOLEAN, sources : SUBSET MmFacts, quotes : MmQuotes, shown : SUBSET MmFacts, newestAt : Nat, from : Nat,
   to : Nat, read : SUBSET MmFacts, withdrawn : BOOLEAN]
MmAsking ==
  [at : {"asking"}, now : Nat \ {0}, shown : SUBSET MmFacts, newestAt : Nat, text : MmQuotes, read : SUBSET MmFacts,
   previous : Nat]
MmSaving == [at : {"added", "closing", "closed"}, now : Nat \ {0}, previous : Nat, saved : Nat]
MmStep == {Models!Ready} \cup MmAsking \cup MmSaving

MmTypes ==
  /\ mmFacts \in [MmFacts -> MmFact] /\ mmAnswers \in Seq(MmAnswer)
  /\ mmModel \in [there : BOOLEAN, last : Nat]
  /\ mmRefresh \in [MmRefreshers -> MmStep] /\ mmAlone \in BOOLEAN /\ mmClock \in 1 .. MmMaxClock

\* What this store learned, and was not there when a refresh read it, it learned
\* no earlier than then.
MmSaw(facts, clock, from, read) ==
  /\ from <= clock
  /\ \A f \in MmFacts \ read : facts[f].at # "new" /\ facts[f].own => facts[f].learned >= from

\* An answer was dated and ended no later than now, and one that was withdrawn
\* has ended.
MmDated(answer, clock) ==
  answer.from <= clock /\ answer.to <= clock /\ (answer.withdrawn => answer.to # Models!Always)

MmAnswersOK(facts, answers, clock) ==
  \A a \in DOMAIN answers : MmDated(answers[a], clock) /\ MmSaw(facts, clock, answers[a].from, answers[a].read)

MmStepOK(facts, step, clock) ==
  /\ step.at # "ready" => step.now <= clock
  /\ step.at = "asking" => /\ MmSaw(facts, clock, step.now, step.read)
                           /\ step.text \in [step.shown -> {1, 2}]
MmStepsOK == \A r \in MmRefreshers : MmStepOK(mmFacts, mmRefresh[r], mmClock)

\* The answers that are open, and which they may be while one refresh after the
\* other runs: the last that was added, or the one before it that is being closed.
MmOpen(answers) == {a \in DOMAIN answers : answers[a].there /\ answers[a].to = Models!Always}
MmInOrder(answers) == \A a, b \in DOMAIN answers : a < b => answers[a].from <= answers[b].from
MmLastOpen(answers) == \A a \in MmOpen(answers) : a = Len(answers)
MmFollows(step, answers) ==
  /\ step.at = "ready" => MmLastOpen(answers)
  /\ step.at = "asking" => /\ \A a \in DOMAIN answers : answers[a].from <= step.now
                           /\ \A a \in MmOpen(answers) : a = Len(answers) /\ a = step.previous
  /\ step.at \in {"added", "closing"} => /\ step.saved = Len(answers)
                                         /\ \A a \in MmOpen(answers) : a \in {step.saved, step.previous}
  /\ step.at = "closed" => step.saved = Len(answers) /\ \A a \in MmOpen(answers) : a = step.saved
MmOne ==
  mmAlone =>
    /\ \A q, r \in MmRefreshers : mmRefresh[q] # Models!Ready /\ mmRefresh[r] # Models!Ready => q = r
    /\ MmInOrder(mmAnswers)
    /\ (\A r \in MmRefreshers : mmRefresh[r] = Models!Ready) => MmLastOpen(mmAnswers)
    /\ \A r \in MmRefreshers : mmRefresh[r] # Models!Ready => MmFollows(mmRefresh[r], mmAnswers)

MmInv ==
  MmTypes /\ MmAnswersOK(mmFacts, mmAnswers, mmClock) /\ MmStepsOK /\ MmOne

LEMMA MmInitInv == Models!MmInit => MmInv
  <1> SUFFICES ASSUME Models!MmInit PROVE MmInv
    OBVIOUS
  <1>1. /\ mmFacts = [f \in MmFacts |-> [at |-> "new", learned |-> 0, own |-> FALSE, text |-> 1]]
        /\ mmAnswers = <<>> /\ DOMAIN mmAnswers = {} /\ mmModel = [there |-> TRUE, last |-> 0]
        /\ mmRefresh = [r \in MmRefreshers |-> Models!Ready] /\ mmClock = 1 /\ mmAlone = TRUE
    BY DEF Models!MmInit, Models!NoAnswer
  <1>2. mmFacts \in [MmFacts -> MmFact]
    BY <1>1, ClockAssumption DEF MmFact
  <1>3. mmAnswers \in Seq(MmAnswer)
    BY <1>1
  <1>4. mmRefresh \in [MmRefreshers -> MmStep]
    BY <1>1 DEF MmStep
  <1>5. MmTypes
    BY <1>1, <1>2, <1>3, <1>4, ClockAssumption DEF MmTypes
  <1>6. MmAnswersOK(mmFacts, mmAnswers, mmClock)
    BY <1>1 DEF MmAnswersOK
  <1>7. MmStepsOK
    BY <1>1 DEF MmStepsOK, MmStepOK, Models!Ready
  <1>8. MmOne
    BY <1>1 DEF MmOne, MmInOrder, MmLastOpen, MmOpen
  <1> QED BY <1>5, <1>6, <1>7, <1>8 DEF MmInv

LEMMA MmSteps ==
  ASSUME NEW step \in MmStep
  PROVE  /\ step.at = "asking" => step \in MmAsking
         /\ step.at \in {"added", "closing", "closed"} => step \in MmSaving
         /\ step.at # "ready" => step # Models!Ready
         /\ step = Models!Ready => step.at = "ready"
         /\ step.at \in {"ready", "asking", "added", "closing", "closed"}
  <1>1. Models!Ready.at = "ready"
    BY DEF Models!Ready
  <1>2. (step \in MmAsking => step.at = "asking") /\ (step \in MmSaving => step.at \in {"added", "closing", "closed"})
    BY DEF MmAsking, MmSaving
  <1> QED BY <1>1, <1>2 DEF MmStep

\* Facts come, end and are edited, and answers are closed, withdrawn and removed.
MmFactsGo(facts, new, clock) ==
  \A f \in MmFacts : new[f].at # "new" =>
    \/ facts[f].at # "new" /\ new[f].learned = facts[f].learned /\ new[f].own = facts[f].own
    \/ ~new[f].own
    \/ new[f].learned = clock
MmLost(old, new, clock) ==
  /\ new.from = old.from /\ new.newestAt = old.newestAt /\ new.read = old.read
  /\ new.there => old.there
  /\ new.to = Models!Always => old.to = Models!Always
  /\ new.to <= clock /\ (new.withdrawn => new.to # Models!Always)
MmLose(answers, new, clock) ==
  new \in Seq(MmAnswer) /\ DOMAIN new = DOMAIN answers /\ \A a \in DOMAIN answers : MmLost(answers[a], new[a], clock)

LEMMA MmSawStays ==
  ASSUME NEW facts \in [MmFacts -> MmFact], NEW new \in [MmFacts -> MmFact], NEW clock \in Nat, NEW later \in Nat,
         NEW from \in Nat, NEW read, clock <= later, MmFactsGo(facts, new, clock), MmSaw(facts, clock, from, read)
  PROVE  MmSaw(new, later, from, read)
  <1> SUFFICES ASSUME NEW f \in MmFacts \ read, new[f].at # "new", new[f].own PROVE new[f].learned >= from
    BY DEF MmSaw
  <1>1. new[f].learned \in Nat /\ facts[f].learned \in Nat
    BY ClockAssumption DEF MmFact
  <1> QED BY <1>1 DEF MmSaw, MmFactsGo

LEMMA SameLength ==
  ASSUME NEW S, NEW s \in Seq(S), NEW t \in Seq(S), DOMAIN s = DOMAIN t
  PROVE  Len(s) = Len(t)
  <1> DEFINE m == Len(s) n == Len(t)
  <1>1. m \in Nat /\ n \in Nat /\ DOMAIN s = 1 .. m /\ DOMAIN t = 1 .. n
    OBVIOUS
  <1>2. 1 .. m = 1 .. n
    BY <1>1
  <1> HIDE DEF m, n
  <1>3. m = n
    BY <1>1, <1>2
  <1> QED BY <1>3 DEF m, n

LEMMA MmLoseKeeps ==
  ASSUME NEW answers \in Seq(MmAnswer), NEW new, NEW clock \in Nat, MmLose(answers, new, clock)
  PROVE  /\ Len(new) = Len(answers) /\ MmOpen(new) \subseteq MmOpen(answers)
         /\ MmInOrder(answers) => MmInOrder(new)
         /\ MmLastOpen(answers) => MmLastOpen(new)
         /\ \A step \in MmStep : MmFollows(step, answers) => MmFollows(step, new)
  <1>1. DOMAIN new = DOMAIN answers /\ Len(new) = Len(answers)
    <2>1. new \in Seq(MmAnswer) /\ DOMAIN new = DOMAIN answers
      BY DEF MmLose
    <2> QED BY <2>1, SameLength
  <1>2. MmOpen(new) \subseteq MmOpen(answers)
    BY <1>1 DEF MmLose, MmLost, MmOpen
  <1>3. \A a \in DOMAIN answers : new[a].from = answers[a].from
    BY DEF MmLose, MmLost
  <1>4. MmInOrder(answers) => MmInOrder(new)
    BY <1>1, <1>3 DEF MmInOrder
  <1>5. MmLastOpen(answers) => MmLastOpen(new)
    BY <1>1, <1>2 DEF MmLastOpen
  <1>6. \A step \in MmStep : MmFollows(step, answers) => MmFollows(step, new)
    BY <1>1, <1>2, <1>3, <1>5 DEF MmFollows
  <1> QED BY <1>1, <1>2, <1>4, <1>5, <1>6

\* What changes the store outside of the refreshes keeps the invariant.
LEMMA MmStoreMoves ==
  ASSUME MmInv, mmRefresh' = mmRefresh, mmAlone' = mmAlone, mmClock' \in 1 .. MmMaxClock, mmClock <= mmClock',
         mmFacts' \in [MmFacts -> MmFact], MmFactsGo(mmFacts, mmFacts', mmClock),
         MmLose(mmAnswers, mmAnswers', mmClock'), mmModel' \in [there : BOOLEAN, last : Nat]
  PROVE  MmInv'
  <1>1. /\ mmFacts \in [MmFacts -> MmFact] /\ mmAnswers \in Seq(MmAnswer)
        /\ mmClock \in Nat \ {0} /\ mmClock' \in Nat \ {0} /\ mmRefresh \in [MmRefreshers -> MmStep]
    BY ClockAssumption DEF MmInv, MmTypes
  <1>2. MmTypes'
    BY <1>1 DEF MmInv, MmTypes, MmLose
  <1>3. MmAnswersOK(mmFacts', mmAnswers', mmClock')
    <2> SUFFICES ASSUME NEW a \in DOMAIN mmAnswers'
                 PROVE  MmDated(mmAnswers'[a], mmClock') /\ MmSaw(mmFacts', mmClock', mmAnswers'[a].from, mmAnswers'[a].read)
      BY DEF MmAnswersOK
    <2>1. a \in DOMAIN mmAnswers /\ MmLost(mmAnswers[a], mmAnswers'[a], mmClock')
      BY DEF MmLose
    <2>2. MmDated(mmAnswers[a], mmClock) /\ MmSaw(mmFacts, mmClock, mmAnswers[a].from, mmAnswers[a].read)
      BY <2>1 DEF MmInv, MmAnswersOK
    <2>3. mmAnswers[a] \in MmAnswer
      BY <1>1, <2>1
    <2>4. mmAnswers[a].from \in Nat
      BY <2>3 DEF MmAnswer
    <2>5. MmDated(mmAnswers'[a], mmClock')
      BY <1>1, <2>1, <2>2, <2>4 DEF MmDated, MmLost
    <2>6. MmSaw(mmFacts', mmClock', mmAnswers[a].from, mmAnswers[a].read)
      BY <1>1, <2>2, <2>4, MmSawStays
    <2> QED BY <2>1, <2>5, <2>6 DEF MmLost
  <1>4. MmStepsOK'
    <2> SUFFICES ASSUME NEW r \in MmRefreshers PROVE MmStepOK(mmFacts', mmRefresh[r], mmClock')
      BY DEF MmStepsOK
    <2> DEFINE step == mmRefresh[r]
    <2>1. step \in MmStep /\ MmStepOK(mmFacts, step, mmClock)
      BY <1>1 DEF MmInv, MmStepsOK
    <2> HIDE DEF step
    <2>2. step.at # "ready" => step.now \in Nat
      BY <2>1, MmSteps DEF MmAsking, MmSaving
    <2>3. step.at = "asking" => MmSaw(mmFacts', mmClock', step.now, step.read)
      BY <1>1, <2>1, <2>2, MmSawStays DEF MmStepOK
    <2>4. MmStepOK(mmFacts', step, mmClock')
      BY <1>1, <2>1, <2>2, <2>3 DEF MmStepOK
    <2> QED BY <2>4 DEF step
  <1>5. MmOne'
    <2> SUFFICES ASSUME mmAlone
                 PROVE  /\ \A q, r \in MmRefreshers : mmRefresh[q] # Models!Ready /\ mmRefresh[r] # Models!Ready => q = r
                        /\ MmInOrder(mmAnswers')
                        /\ (\A r \in MmRefreshers : mmRefresh[r] = Models!Ready) => MmLastOpen(mmAnswers')
                        /\ \A r \in MmRefreshers : mmRefresh[r] # Models!Ready => MmFollows(mmRefresh[r], mmAnswers')
      BY DEF MmOne
    <2>1. /\ \A q, r \in MmRefreshers : mmRefresh[q] # Models!Ready /\ mmRefresh[r] # Models!Ready => q = r
          /\ MmInOrder(mmAnswers)
          /\ (\A r \in MmRefreshers : mmRefresh[r] = Models!Ready) => MmLastOpen(mmAnswers)
          /\ \A r \in MmRefreshers : mmRefresh[r] # Models!Ready => MmFollows(mmRefresh[r], mmAnswers)
      BY DEF MmInv, MmOne
    <2>2. /\ MmInOrder(mmAnswers) => MmInOrder(mmAnswers')
          /\ MmLastOpen(mmAnswers) => MmLastOpen(mmAnswers')
          /\ \A step \in MmStep : MmFollows(step, mmAnswers) => MmFollows(step, mmAnswers')
      BY <1>1, MmLoseKeeps
    <2>3. \A r \in MmRefreshers : mmRefresh[r] \in MmStep
      BY <1>1
    <2> QED BY <2>1, <2>2, <2>3
  <1> QED BY <1>2, <1>3, <1>4, <1>5 DEF MmInv

\* An answer that ends, is withdrawn or is removed is no more than it was.
LEMMA MmAnswerLost ==
  ASSUME NEW old \in MmAnswer, NEW clock \in Nat \ {0}, MmDated(old, clock)
  PROVE  /\ MmLost(old, old, clock)
         /\ [old EXCEPT !.there = FALSE] \in MmAnswer /\ MmLost(old, [old EXCEPT !.there = FALSE], clock)
         /\ old.to # Models!Always =>
              [old EXCEPT !.withdrawn = TRUE] \in MmAnswer /\ MmLost(old, [old EXCEPT !.withdrawn = TRUE], clock)
         /\ \A to \in 1 .. clock :
              [old EXCEPT !.to = to] \in MmAnswer /\ MmLost(old, [old EXCEPT !.to = to], clock)
         /\ [old EXCEPT !.to = clock, !.withdrawn = TRUE] \in MmAnswer
         /\ MmLost(old, [old EXCEPT !.to = clock, !.withdrawn = TRUE], clock)
  <1> USE DEF MmAnswer, MmDated, MmLost, Models!Always
  <1>1. MmLost(old, old, clock)
    OBVIOUS
  <1>2. [old EXCEPT !.there = FALSE] \in MmAnswer /\ MmLost(old, [old EXCEPT !.there = FALSE], clock)
    OBVIOUS
  <1>3. old.to # Models!Always =>
          [old EXCEPT !.withdrawn = TRUE] \in MmAnswer /\ MmLost(old, [old EXCEPT !.withdrawn = TRUE], clock)
    OBVIOUS
  <1>4. ASSUME NEW to \in 1 .. clock
        PROVE  [old EXCEPT !.to = to] \in MmAnswer /\ MmLost(old, [old EXCEPT !.to = to], clock)
    OBVIOUS
  <1>5. /\ [old EXCEPT !.to = clock, !.withdrawn = TRUE] \in MmAnswer
        /\ MmLost(old, [old EXCEPT !.to = clock, !.withdrawn = TRUE], clock)
    <2> DEFINE mid == [old EXCEPT !.to = clock]
    <2>1. mid \in MmAnswer /\ MmLost(old, mid, clock) /\ mid.to = clock /\ [old EXCEPT !.to = clock, !.withdrawn = TRUE] = [mid EXCEPT !.withdrawn = TRUE]
      OBVIOUS
    <2> HIDE DEF mid
    <2>2. [mid EXCEPT !.withdrawn = TRUE] \in MmAnswer /\ MmLost(old, [mid EXCEPT !.withdrawn = TRUE], clock)
      BY <2>1
    <2> QED BY <2>1, <2>2
  <1> HIDE DEF MmAnswer, MmDated, MmLost
  <1> QED BY <1>1, <1>2, <1>3, <1>4, <1>5

\* One answer is replaced, or each is by what it becomes.
LEMMA MmOneLost ==
  ASSUME NEW answers \in Seq(MmAnswer), NEW clock \in Nat \ {0}, \A a \in DOMAIN answers : MmDated(answers[a], clock),
         NEW i \in DOMAIN answers, NEW new \in MmAnswer, MmLost(answers[i], new, clock)
  PROVE  MmLose(answers, [answers EXCEPT ![i] = new], clock)
  <1> DEFINE t == [answers EXCEPT ![i] = new]
  <1>1. t \in Seq(MmAnswer) /\ DOMAIN t = DOMAIN answers /\ t[i] = new /\ \A a \in DOMAIN answers \ {i} : t[a] = answers[a]
    OBVIOUS
  <1>2. ASSUME NEW a \in DOMAIN answers PROVE MmLost(answers[a], answers[a], clock)
    <2>1. answers[a] \in MmAnswer
      OBVIOUS
    <2> QED BY <2>1, MmAnswerLost
  <1> HIDE DEF t
  <1>3. MmLose(answers, t, clock)
    BY <1>1, <1>2 DEF MmLose
  <1> QED BY <1>3 DEF t

LEMMA MmEachLost ==
  ASSUME NEW answers \in Seq(MmAnswer), NEW clock, NEW new, new = [a \in DOMAIN answers |-> new[a]],
         \A a \in DOMAIN answers : new[a] \in MmAnswer /\ MmLost(answers[a], new[a], clock)
  PROVE  MmLose(answers, new, clock)
  <1>1. DOMAIN answers = 1 .. Len(answers) /\ Len(answers) \in Nat
    OBVIOUS
  <1>2. new \in [1 .. Len(answers) -> MmAnswer]
    BY <1>1
  <1>3. new \in Seq(MmAnswer) /\ DOMAIN new = DOMAIN answers
    BY <1>1, <1>2
  <1> QED BY <1>3 DEF MmLose

LEMMA MmNow ==
  ASSUME MmInv
  PROVE  /\ mmFacts \in [MmFacts -> MmFact] /\ mmAnswers \in Seq(MmAnswer) /\ mmClock \in Nat \ {0}
         /\ mmRefresh \in [MmRefreshers -> MmStep] /\ mmModel \in [there : BOOLEAN, last : Nat]
         /\ mmClock \in 1 .. MmMaxClock /\ MmFactsGo(mmFacts, mmFacts, mmClock)
         /\ \A a \in DOMAIN mmAnswers : MmDated(mmAnswers[a], mmClock) /\ mmAnswers[a] \in MmAnswer
         /\ MmLose(mmAnswers, mmAnswers, mmClock)
  <1>1. /\ mmFacts \in [MmFacts -> MmFact] /\ mmAnswers \in Seq(MmAnswer) /\ mmClock \in Nat \ {0}
        /\ mmRefresh \in [MmRefreshers -> MmStep] /\ mmModel \in [there : BOOLEAN, last : Nat]
        /\ mmClock \in 1 .. MmMaxClock
    BY ClockAssumption DEF MmInv, MmTypes
  <1>2. MmFactsGo(mmFacts, mmFacts, mmClock)
    BY DEF MmFactsGo
  <1>3. \A a \in DOMAIN mmAnswers : MmDated(mmAnswers[a], mmClock) /\ mmAnswers[a] \in MmAnswer
    BY <1>1 DEF MmInv, MmAnswersOK
  <1>4. MmLose(mmAnswers, mmAnswers, mmClock)
    BY <1>1, <1>3, MmAnswerLost DEF MmLose
  <1> QED BY <1>1, <1>2, <1>3, <1>4

\* A fact changes, and one that comes or stays is stamped now or is not this
\* store's own.
LEMMA MmFactBecomes ==
  ASSUME NEW facts \in [MmFacts -> MmFact], NEW f \in MmFacts, NEW clock, NEW new \in MmFact,
         \/ facts[f].at # "new" /\ new.learned = facts[f].learned /\ new.own = facts[f].own
         \/ ~new.own
         \/ new.learned = clock
  PROVE  /\ [facts EXCEPT ![f] = new] \in [MmFacts -> MmFact]
         /\ MmFactsGo(facts, [facts EXCEPT ![f] = new], clock)
  <1> DEFINE t == [facts EXCEPT ![f] = new]
  <1>1. t \in [MmFacts -> MmFact] /\ t[f] = new /\ \A g \in MmFacts \ {f} : t[g] = facts[g]
    OBVIOUS
  <1> HIDE DEF t
  <1>2. MmFactsGo(facts, t, clock)
    BY <1>1 DEF MmFactsGo
  <1> QED BY <1>1, <1>2 DEF t

\* A fact comes with the stamp of this moment.
LEMMA MmAddFactKeeps == ASSUME MmInv, NEW f \in MmFacts, Models!AddFact(f) PROVE MmInv'
  <1> DEFINE new == [mmFacts[f] EXCEPT !.at = "live", !.learned = mmClock, !.own = TRUE]
  <1>1. /\ mmFacts' = [mmFacts EXCEPT ![f] = new]
        /\ UNCHANGED <<mmAnswers, mmModel, mmRefresh, mmVerify, mmClock, mmAlone, mmDelete, mmChanges>>
    BY DEF Models!AddFact
  <1>2. mmFacts[f] \in MmFact /\ mmFacts \in [MmFacts -> MmFact] /\ mmClock \in 1 .. MmMaxClock
    BY MmNow
  <1>3. new \in MmFact /\ new.learned = mmClock
    <2> DEFINE live == [mmFacts[f] EXCEPT !.at = "live"]
               stamped == [live EXCEPT !.learned = mmClock]
    <2>1. live \in MmFact
      BY <1>2 DEF MmFact
    <2> HIDE DEF live
    <2>2. stamped \in MmFact /\ stamped.learned = mmClock
      BY <1>2, <2>1 DEF MmFact
    <2> HIDE DEF stamped
    <2>3. [stamped EXCEPT !.own = TRUE] \in MmFact /\ [stamped EXCEPT !.own = TRUE].learned = mmClock
      BY <2>2 DEF MmFact
    <2> QED BY <2>3 DEF live, stamped
  <1> HIDE DEF new
  <1>4. mmFacts' \in [MmFacts -> MmFact] /\ MmFactsGo(mmFacts, mmFacts', mmClock)
    BY <1>1, <1>2, <1>3, MmFactBecomes
  <1> QED BY <1>1, <1>4, MmNow, MmStoreMoves

\* A fact comes with another stamp, and is none of those that count.
LEMMA MmBringFactKeeps == ASSUME MmInv, NEW f \in MmFacts, Models!BringFact(f) PROVE MmInv'
  <1>1. PICK learned \in 1 .. MmMaxClock :
          mmFacts' = [mmFacts EXCEPT ![f].at = "live", ![f].learned = learned, ![f].own = FALSE]
    BY DEF Models!BringFact
  <1> DEFINE new == [mmFacts[f] EXCEPT !.at = "live", !.learned = learned, !.own = FALSE]
  <1>2. /\ mmFacts' = [mmFacts EXCEPT ![f] = new]
        /\ UNCHANGED <<mmAnswers, mmModel, mmRefresh, mmVerify, mmClock, mmAlone, mmDelete, mmChanges>>
    BY <1>1 DEF Models!BringFact
  <1>3. mmFacts[f] \in MmFact /\ mmFacts \in [MmFacts -> MmFact]
    BY MmNow
  <1>4. new \in MmFact /\ ~new.own
    <2> DEFINE live == [mmFacts[f] EXCEPT !.at = "live"]
               stamped == [live EXCEPT !.learned = learned]
    <2>1. live \in MmFact
      BY <1>3 DEF MmFact
    <2> HIDE DEF live
    <2>2. stamped \in MmFact
      BY <1>1, <2>1 DEF MmFact
    <2> HIDE DEF stamped
    <2>3. [stamped EXCEPT !.own = FALSE] \in MmFact /\ ~[stamped EXCEPT !.own = FALSE].own
      BY <2>2 DEF MmFact
    <2> QED BY <2>3 DEF live, stamped
  <1> HIDE DEF new
  <1>5. mmFacts' \in [MmFacts -> MmFact] /\ MmFactsGo(mmFacts, mmFacts', mmClock)
    BY <1>2, <1>3, <1>4, MmFactBecomes
  <1> QED BY <1>2, <1>5, MmNow, MmStoreMoves

LEMMA MmEditFactKeeps == ASSUME MmInv, NEW f \in MmFacts, Models!EditFact(f) PROVE MmInv'
  <1> DEFINE new == [mmFacts[f] EXCEPT !.text = 2]
  <1>1. /\ mmFacts' = [mmFacts EXCEPT ![f] = new] /\ mmFacts[f].at \in {"live", "aside"}
        /\ UNCHANGED <<mmAnswers, mmModel, mmRefresh, mmVerify, mmClock, mmAlone, mmDelete>>
    BY DEF Models!EditFact
  <1>2. mmFacts[f] \in MmFact
    BY MmNow
  <1>3. new \in MmFact /\ new.learned = mmFacts[f].learned /\ new.own = mmFacts[f].own
    BY <1>2 DEF MmFact
  <1> HIDE DEF new
  <1>4. mmFacts' \in [MmFacts -> MmFact] /\ MmFactsGo(mmFacts, mmFacts', mmClock)
    BY <1>1, <1>3, MmNow, MmFactBecomes
  <1> QED BY <1>1, <1>4, MmNow, MmStoreMoves

LEMMA MmLeaveKeeps == ASSUME MmInv, NEW f \in MmFacts, Models!LeaveScope(f) PROVE MmInv'
  <1> DEFINE new == [mmFacts[f] EXCEPT !.at = "aside"]
  <1>1. /\ mmFacts' = [mmFacts EXCEPT ![f] = new] /\ mmFacts[f].at \in {"live"}
        /\ UNCHANGED <<mmAnswers, mmModel, mmRefresh, mmVerify, mmClock, mmAlone, mmDelete>>
    BY DEF Models!LeaveScope
  <1>2. mmFacts[f] \in MmFact
    BY MmNow
  <1>3. new \in MmFact /\ new.learned = mmFacts[f].learned /\ new.own = mmFacts[f].own
    BY <1>2 DEF MmFact
  <1> HIDE DEF new
  <1>4. mmFacts' \in [MmFacts -> MmFact] /\ MmFactsGo(mmFacts, mmFacts', mmClock)
    BY <1>1, <1>3, MmNow, MmFactBecomes
  <1> QED BY <1>1, <1>4, MmNow, MmStoreMoves

LEMMA MmReturnKeeps == ASSUME MmInv, NEW f \in MmFacts, Models!ReturnToScope(f) PROVE MmInv'
  <1> DEFINE new == [mmFacts[f] EXCEPT !.at = "live"]
  <1>1. /\ mmFacts' = [mmFacts EXCEPT ![f] = new] /\ mmFacts[f].at \in {"aside", "ended"}
        /\ UNCHANGED <<mmAnswers, mmModel, mmRefresh, mmVerify, mmClock, mmAlone, mmDelete, mmChanges>>
    BY DEF Models!ReturnToScope
  <1>2. mmFacts[f] \in MmFact
    BY MmNow
  <1>3. new \in MmFact /\ new.learned = mmFacts[f].learned /\ new.own = mmFacts[f].own
    BY <1>2 DEF MmFact
  <1> HIDE DEF new
  <1>4. mmFacts' \in [MmFacts -> MmFact] /\ MmFactsGo(mmFacts, mmFacts', mmClock)
    BY <1>1, <1>3, MmNow, MmFactBecomes
  <1> QED BY <1>1, <1>4, MmNow, MmStoreMoves

LEMMA MmEraseFactKeeps == ASSUME MmInv, NEW f \in MmFacts, Models!EraseFact(f) PROVE MmInv'
  <1> DEFINE new == [mmFacts[f] EXCEPT !.at = "erased"]
             less(a) == IF a \in Models!Resting(f) THEN [mmAnswers[a] EXCEPT !.there = FALSE] ELSE mmAnswers[a]
  <1>1. /\ mmFacts' = [mmFacts EXCEPT ![f] = new] /\ mmFacts[f].at \in {"live", "aside", "ended"}
        /\ mmAnswers' = [a \in DOMAIN mmAnswers |-> less(a)]
        /\ UNCHANGED <<mmModel, mmRefresh, mmVerify, mmClock, mmAlone, mmDelete>>
    BY DEF Models!EraseFact
  <1>2. mmFacts[f] \in MmFact /\ mmClock \in Nat /\ mmAnswers \in Seq(MmAnswer)
    BY MmNow
  <1>3. new \in MmFact /\ new.learned = mmFacts[f].learned /\ new.own = mmFacts[f].own
    BY <1>2 DEF MmFact
  <1>4. \A a \in DOMAIN mmAnswers : less(a) \in MmAnswer /\ MmLost(mmAnswers[a], less(a), mmClock)
    BY MmNow, MmAnswerLost
  <1> HIDE DEF new, less
  <1>5. MmLose(mmAnswers, mmAnswers', mmClock)
    <2>1. mmAnswers' = [a \in DOMAIN mmAnswers |-> mmAnswers'[a]]
      BY <1>1
    <2>2. \A a \in DOMAIN mmAnswers : mmAnswers'[a] \in MmAnswer /\ MmLost(mmAnswers[a], mmAnswers'[a], mmClock)
      BY <1>1, <1>4
    <2> QED BY <1>2, <2>1, <2>2, MmEachLost
  <1>6. mmFacts' \in [MmFacts -> MmFact] /\ MmFactsGo(mmFacts, mmFacts', mmClock)
    BY <1>1, <1>3, MmNow, MmFactBecomes
  <1> QED BY <1>1, <1>2, <1>5, <1>6, MmNow, MmStoreMoves

LEMMA MmEndFactKeeps == ASSUME MmInv, NEW f \in MmFacts, Models!EndFact(f) PROVE MmInv'
  <1> DEFINE new == [mmFacts[f] EXCEPT !.at = "ended"]
             less(a) == IF a \notin Models!Resting(f) THEN mmAnswers[a]
                        ELSE IF mmAnswers[a].to = Models!Always
                             THEN [mmAnswers[a] EXCEPT !.to = mmClock, !.withdrawn = TRUE]
                             ELSE [mmAnswers[a] EXCEPT !.withdrawn = TRUE]
  <1>1. /\ mmFacts' = [mmFacts EXCEPT ![f] = new] /\ mmFacts[f].at \in {"live", "aside"}
        /\ mmAnswers' = [a \in DOMAIN mmAnswers |-> less(a)]
        /\ UNCHANGED <<mmModel, mmRefresh, mmVerify, mmClock, mmAlone, mmDelete>>
    BY DEF Models!EndFact
  <1>2. mmFacts[f] \in MmFact /\ mmClock \in Nat /\ mmAnswers \in Seq(MmAnswer)
    BY MmNow
  <1>3. new \in MmFact /\ new.learned = mmFacts[f].learned /\ new.own = mmFacts[f].own
    BY <1>2 DEF MmFact
  <1>4. \A a \in DOMAIN mmAnswers : less(a) \in MmAnswer /\ MmLost(mmAnswers[a], less(a), mmClock)
    BY MmNow, MmAnswerLost
  <1> HIDE DEF new, less
  <1>5. MmLose(mmAnswers, mmAnswers', mmClock)
    <2>1. mmAnswers' = [a \in DOMAIN mmAnswers |-> mmAnswers'[a]]
      BY <1>1
    <2>2. \A a \in DOMAIN mmAnswers : mmAnswers'[a] \in MmAnswer /\ MmLost(mmAnswers[a], mmAnswers'[a], mmClock)
      BY <1>1, <1>4
    <2> QED BY <1>2, <2>1, <2>2, MmEachLost
  <1>6. mmFacts' \in [MmFacts -> MmFact] /\ MmFactsGo(mmFacts, mmFacts', mmClock)
    BY <1>1, <1>3, MmNow, MmFactBecomes
  <1> QED BY <1>1, <1>2, <1>5, <1>6, MmNow, MmStoreMoves

LEMMA MmRetractKeeps == ASSUME MmInv, Models!RetractUnsupported PROVE MmInv'
  <1>1. PICK i \in mmVerify :
          /\ IF i \in Models!Answers
               THEN /\ mmAnswers' = [mmAnswers EXCEPT ![i].to = mmClock, ![i].withdrawn = TRUE]
                    /\ mmVerify' = mmVerify \ {i}
               ELSE UNCHANGED mmAnswers /\ mmVerify' = {}
          /\ UNCHANGED <<mmFacts, mmModel, mmRefresh, mmClock, mmAlone, mmDelete, mmChanges>>
    BY DEF Models!RetractUnsupported
  <1>2. MmLose(mmAnswers, mmAnswers', mmClock)
    <2>1. CASE i \in Models!Answers
      <3> DEFINE new == [mmAnswers[i] EXCEPT !.to = mmClock, !.withdrawn = TRUE]
      <3>1. i \in DOMAIN mmAnswers
        BY <2>1 DEF Models!Answers
      <3>2. mmAnswers' = [mmAnswers EXCEPT ![i] = new]
        BY <1>1, <2>1
      <3>3. new \in MmAnswer /\ MmLost(mmAnswers[i], new, mmClock)
        BY <3>1, MmNow, MmAnswerLost
      <3> HIDE DEF new
      <3> QED BY <3>1, <3>2, <3>3, MmNow, MmOneLost
    <2>2. CASE i \notin Models!Answers
      BY <1>1, <2>2, MmNow
    <2> QED BY <2>1, <2>2
  <1> QED BY <1>1, <1>2, MmNow, MmStoreMoves

LEMMA MmDeleteAnswerKeeps == ASSUME MmInv, Models!DeleteAnswer PROVE MmInv'
  <1>1. PICK i \in mmDelete.left : mmAnswers' = [mmAnswers EXCEPT ![i].there = FALSE]
    BY DEF Models!DeleteAnswer
  <1>2. UNCHANGED <<mmFacts, mmModel, mmRefresh, mmVerify, mmClock, mmAlone, mmChanges>>
    BY DEF Models!DeleteAnswer
  <1>3. MmLose(mmAnswers, mmAnswers', mmClock)
    <2>1. CASE i \in DOMAIN mmAnswers
      <3> DEFINE new == [mmAnswers[i] EXCEPT !.there = FALSE]
      <3>1. mmAnswers' = [mmAnswers EXCEPT ![i] = new]
        BY <1>1
      <3>2. new \in MmAnswer /\ MmLost(mmAnswers[i], new, mmClock)
        BY <2>1, MmNow, MmAnswerLost
      <3> HIDE DEF new
      <3> QED BY <2>1, <3>1, <3>2, MmNow, MmOneLost
    <2>2. CASE i \notin DOMAIN mmAnswers
      <3>1. mmAnswers' = mmAnswers
        BY <1>1, <2>2, MmNow
      <3> QED BY <3>1, MmNow
    <2> QED BY <2>1, <2>2
  <1> QED BY <1>2, <1>3, MmNow, MmStoreMoves

LEMMA MmRestKeeps ==
  ASSUME MmInv, Models!StartVerify \/ Models!StartDelete \/ Models!DeleteDefinition
  PROVE  MmInv'
  <1>1. /\ UNCHANGED <<mmFacts, mmAnswers, mmRefresh, mmClock, mmAlone>>
        /\ mmModel' = mmModel \/ mmModel' = [mmModel EXCEPT !.there = FALSE]
    BY DEF Models!StartVerify, Models!StartDelete, Models!DeleteDefinition
  <1>2. MmTypes'
    BY <1>1 DEF MmInv, MmTypes
  <1> QED BY <1>1, <1>2 DEF MmInv, MmStepsOK, MmOne

LEMMA MmTickKeeps == ASSUME MmInv, Models!MmTick PROVE MmInv'
  <1>1. UNCHANGED <<mmFacts, mmAnswers, mmModel, mmRefresh, mmAlone>> /\ mmClock < MmMaxClock /\ mmClock' = mmClock + 1
    BY DEF Models!MmTick
  <1>2. mmClock' \in 1 .. MmMaxClock /\ mmClock' \in Nat /\ mmClock <= mmClock' /\ mmClock \in Nat
    BY <1>1, MmNow, ClockAssumption
  <1>3. MmLose(mmAnswers, mmAnswers', mmClock')
    <2> SUFFICES ASSUME NEW a \in DOMAIN mmAnswers PROVE MmLost(mmAnswers[a], mmAnswers[a], mmClock')
      BY <1>1, MmNow DEF MmLose
    <2>1. mmAnswers[a] \in MmAnswer /\ MmLost(mmAnswers[a], mmAnswers[a], mmClock)
      BY MmNow DEF MmLose
    <2>2. mmAnswers[a].to \in Nat
      BY <2>1 DEF MmAnswer
    <2> QED BY <1>2, <2>1, <2>2 DEF MmLost
  <1> QED BY <1>1, <1>2, <1>3, MmNow, MmStoreMoves

\* A step of one refresh keeps the invariant if what it does next fits the
\* answers as they are then.
LEMMA MmRefreshMoves ==
  ASSUME MmInv, NEW r \in MmRefreshers, NEW step \in MmStep, mmRefresh' = [mmRefresh EXCEPT ![r] = step],
         mmFacts' = mmFacts, mmClock' = mmClock, mmModel' \in [there : BOOLEAN, last : Nat], mmAlone' \in BOOLEAN,
         mmAnswers' \in Seq(MmAnswer), MmAnswersOK(mmFacts, mmAnswers', mmClock), MmStepOK(mmFacts, step, mmClock),
         mmAlone' => /\ mmAlone /\ \A q \in MmRefreshers \ {r} : mmRefresh[q] = Models!Ready
                     /\ MmInOrder(mmAnswers') /\ MmFollows(step, mmAnswers')
  PROVE  MmInv'
  <1>1. MmTypes /\ mmRefresh \in [MmRefreshers -> MmStep]
    BY DEF MmInv, MmTypes
  <1>2. mmRefresh'[r] = step /\ (\A q \in MmRefreshers \ {r} : mmRefresh'[q] = mmRefresh[q]) /\ mmRefresh' \in [MmRefreshers -> MmStep]
    BY <1>1
  <1>3. MmTypes'
    BY <1>1, <1>2 DEF MmTypes
  <1>4. MmStepsOK'
    BY <1>2 DEF MmInv, MmStepsOK
  <1>5. MmOne'
    <2> SUFFICES ASSUME mmAlone'
                 PROVE  /\ \A p, q \in MmRefreshers : mmRefresh'[p] # Models!Ready /\ mmRefresh'[q] # Models!Ready => p = q
                        /\ MmInOrder(mmAnswers')
                        /\ (\A q \in MmRefreshers : mmRefresh'[q] = Models!Ready) => MmLastOpen(mmAnswers')
                        /\ \A q \in MmRefreshers : mmRefresh'[q] # Models!Ready => MmFollows(mmRefresh'[q], mmAnswers')
      BY DEF MmOne
    <2>1. \A q \in MmRefreshers \ {r} : mmRefresh'[q] = Models!Ready
      BY <1>2
    <2>2. step = Models!Ready => MmLastOpen(mmAnswers')
      BY MmSteps DEF MmFollows
    <2> QED BY <1>2, <2>1, <2>2
  <1>6. MmAnswersOK(mmFacts', mmAnswers', mmClock')
    OBVIOUS
  <1> QED BY <1>3, <1>4, <1>5, <1>6 DEF MmInv

\* A refresh that goes on alone does so in what it left.
LEMMA MmBusyAlone ==
  ASSUME MmInv, NEW r \in MmRefreshers, mmRefresh[r].at # "ready", mmAlone
  PROVE  /\ \A q \in MmRefreshers \ {r} : mmRefresh[q] = Models!Ready
         /\ MmInOrder(mmAnswers) /\ MmFollows(mmRefresh[r], mmAnswers)
  <1>1. mmRefresh[r] # Models!Ready
    BY MmNow, MmSteps
  <1> QED BY <1>1 DEF MmInv, MmOne

LEMMA MmReadyFits == Models!Ready \in MmStep /\ MmStepOK(mmFacts, Models!Ready, mmClock)
  BY DEF MmStep, MmStepOK, Models!Ready

LEMMA MmMaximum ==
  ASSUME NEW S \in SUBSET Nat, S # {}, NEW top \in Nat, \A x \in S : x <= top
  PROVE  Models!MaxOf(S) \in S /\ \A x \in S : x <= Models!MaxOf(S)
  <1> DEFINE T == {top - x : x \in S}
  <1>1. T \in SUBSET Nat /\ T # {}
    <2>1. \A x \in S : top - x \in Nat
      OBVIOUS
    <2> QED BY <2>1
  <1>2. PICK least \in T : \A y \in T : least <= y
    <2> DEFINE Less == {pair \in Nat \X Nat : pair[1] < pair[2]}
    <2>1. IsWellFoundedOn(Less, Nat)
      BY NatLessThanWellFounded DEF OpToRel
    <2>2. \A x, y \in Nat : <<y, x>> \notin Less => x <= y
      OBVIOUS
    <2> HIDE DEF T, Less
    <2>3. PICK least \in T : \A y \in T : ~ (<<y, least>> \in Less)
      BY <1>1, <2>1, WFMin
    <2> QED BY <1>1, <2>2, <2>3
  <1>3. PICK m \in S : least = top - m
    BY <1>2
  <1>4. \A x \in S : x <= m
    <2> TAKE x \in S
    <2>1. top - x \in T
      OBVIOUS
    <2>2. least <= top - x
      BY <1>2, <2>1
    <2> QED BY <1>3, <2>2
  <1> QED BY <1>3, <1>4 DEF Models!MaxOf

LEMMA MmLatestIs ==
  ASSUME mmAnswers \in Seq(MmAnswer), NEW a \in Models!Answers, \A b \in Models!Answers \ {a} : Models!Later(a, b)
  PROVE  Models!Latest = a
  <1>1. \A b \in Models!Answers : b \in Nat /\ b \in DOMAIN mmAnswers /\ mmAnswers[b] \in MmAnswer
    BY DEF Models!Answers
  <1>2. \A b \in Models!Answers : b \in Nat /\ mmAnswers[b].from \in Nat
    BY <1>1 DEF MmAnswer
  <1>3. \A b \in Models!Answers \ {a} : ~Models!Later(b, a)
    BY <1>2 DEF Models!Later
  <1> DEFINE Best(b) == \A c \in Models!Answers \ {b} : Models!Later(b, c)
  <1>4. \A b \in Models!Answers : Best(b) => b = a
    BY <1>3
  <1>5. Best(a)
    OBVIOUS
  <1>6. Models!Latest = CHOOSE b \in Models!Answers : Best(b)
    BY DEF Models!Latest
  <1> HIDE DEF Best
  <1> QED BY <1>4, <1>5, <1>6

\* Among the answers there are, one is the latest.
LEMMA MmLatestExists ==
  ASSUME MmInv
  PROVE  \/ Models!Answers = {} /\ Models!Latest = Models!NoAnswer
         \/ Models!Latest \in Models!Answers
  <1>1. mmAnswers \in Seq(MmAnswer) /\ mmClock \in Nat
    BY MmNow
  <1>2. CASE Models!Answers = {}
    BY <1>2 DEF Models!Latest
  <1>3. CASE Models!Answers # {}
    <2>1. \A b \in Models!Answers : b \in Nat /\ b <= Len(mmAnswers) /\ mmAnswers[b].from \in Nat /\ mmAnswers[b].from <= mmClock
      <3>1. \A b \in Models!Answers : b \in DOMAIN mmAnswers /\ b \in Nat /\ b <= Len(mmAnswers) /\ mmAnswers[b] \in MmAnswer
        BY <1>1 DEF Models!Answers
      <3>2. \A b \in Models!Answers : MmDated(mmAnswers[b], mmClock)
        BY <3>1, MmNow
      <3> QED BY <3>1, <3>2 DEF MmAnswer, MmDated
    <2> DEFINE F == {mmAnswers[b].from : b \in Models!Answers}
               newest == Models!MaxOf(F)
               N == {b \in Models!Answers : mmAnswers[b].from = newest}
               a == Models!MaxOf(N)
    <2>2. F \in SUBSET Nat /\ F # {} /\ \A x \in F : x <= mmClock
      BY <1>3, <2>1
    <2>3. newest \in F /\ \A x \in F : x <= newest
      <3> HIDE DEF F
      <3> QED BY <1>1, <2>2, MmMaximum
    <2> HIDE DEF newest
    <2>4. N \in SUBSET Nat /\ N # {} /\ \A x \in N : x <= Len(mmAnswers)
      BY <2>1, <2>3
    <2>5. a \in N /\ \A x \in N : x <= a
      <3>1. Len(mmAnswers) \in Nat
        BY <1>1
      <3> HIDE DEF N
      <3> QED BY <3>1, <2>4, MmMaximum
    <2> HIDE DEF a
    <2>6. \A b \in Models!Answers : mmAnswers[b].from <= newest
      BY <2>3
    <2>7. \A b \in Models!Answers \ {a} : Models!Later(a, b)
      BY <2>1, <2>5, <2>6 DEF Models!Later
    <2>8. Models!Latest = a
      BY <1>1, <2>5, <2>7, MmLatestIs
    <2> QED BY <2>5, <2>8
  <1> QED BY <1>2, <1>3

LEMMA MmStartKeeps == ASSUME MmInv, NEW r \in MmRefreshers, Models!StartRefresh(r) PROVE MmInv'
  <1> DEFINE prior == IF Models!Latest # Models!NoAnswer /\ mmAnswers[Models!Latest].to = Models!Always
                      THEN Models!Latest ELSE Models!NoAnswer
             step(shown) == [at |-> "asking", now |-> mmClock, shown |-> shown, newestAt |-> Models!LearnedOf(shown),
                             text |-> [f \in shown |-> mmFacts[f].text], read |-> Models!Came, previous |-> prior]
  <1>1. PICK shown \in Models!ShownOf(Models!FactsFor) :
          shown # {} /\ mmRefresh' = [mmRefresh EXCEPT ![r] = step(shown)]
    BY DEF Models!StartRefresh, Models!Does
  <1>2. /\ mmRefresh[r] = Models!Ready /\ UNCHANGED <<mmFacts, mmAnswers, mmModel, mmClock>>
        /\ mmAlone' = (mmAlone /\ \A q \in MmRefreshers \ {r} : mmRefresh[q] = Models!Ready)
    BY DEF Models!StartRefresh
  <1>3. /\ mmFacts \in [MmFacts -> MmFact] /\ mmAnswers \in Seq(MmAnswer) /\ mmClock \in Nat \ {0}
        /\ mmModel \in [there : BOOLEAN, last : Nat] /\ mmAlone \in BOOLEAN
    BY MmNow DEF MmInv, MmTypes
  <1>4. shown \in SUBSET MmFacts
    BY DEF Models!ShownOf, Models!FactsFor, Models!LiveFacts
  <1>5. \A f \in MmFacts : mmFacts[f].learned \in Nat /\ mmFacts[f].learned <= MmMaxClock /\ mmFacts[f].text \in {1, 2}
    BY <1>3, ClockAssumption DEF MmFact
  <1> DEFINE newestAt == Models!LearnedOf(shown)
  <1>6. newestAt \in Nat
    <2> DEFINE S == {mmFacts[f].learned : f \in shown}
    <2>1. S \in SUBSET Nat /\ S # {} /\ \A x \in S : x <= MmMaxClock
      BY <1>1, <1>4, <1>5
    <2>2. newestAt = Models!MaxOf(S)
      BY DEF Models!LearnedOf
    <2> HIDE DEF S, newestAt
    <2>3. Models!MaxOf(S) \in S
      BY <2>1, ClockAssumption, MmMaximum
    <2> QED BY <2>1, <2>2, <2>3
  <1>7. MmSaw(mmFacts, mmClock, mmClock, Models!Came)
    BY <1>3 DEF MmSaw, Models!Came
  <1>8. [f \in shown |-> mmFacts[f].text] \in [shown -> {1, 2}]
    BY <1>4, <1>5
  <1>9. Models!Latest \in Nat /\ (MmInOrder(mmAnswers) => \A a \in MmOpen(mmAnswers) : a = Len(mmAnswers) => prior = a)
    <2>1. \A a \in MmOpen(mmAnswers) : a = Len(mmAnswers) /\ MmInOrder(mmAnswers) => Models!Latest = a
      <3> SUFFICES ASSUME NEW a \in MmOpen(mmAnswers), a = Len(mmAnswers), MmInOrder(mmAnswers) PROVE Models!Latest = a
        OBVIOUS
      <3>1. a \in Models!Answers /\ a \in DOMAIN mmAnswers
        BY DEF MmOpen, Models!Answers
      <3>2. \A b \in DOMAIN mmAnswers : mmAnswers[b] \in MmAnswer /\ b \in Nat /\ b <= a
        BY <1>3
      <3>3. \A b \in DOMAIN mmAnswers \ {a} : b < a /\ mmAnswers[b].from <= mmAnswers[a].from
        BY <3>1, <3>2 DEF MmInOrder
      <3>4. \A b \in DOMAIN mmAnswers : mmAnswers[b].from \in Nat
        BY <3>2 DEF MmAnswer
      <3>5. \A b \in Models!Answers \ {a} : Models!Later(a, b)
        BY <3>1, <3>2, <3>3, <3>4 DEF Models!Later, Models!Answers
      <3> QED BY <1>3, <3>1, <3>5, MmLatestIs
    <2>2. \A a \in MmOpen(mmAnswers) : a # Models!NoAnswer /\ mmAnswers[a].to = Models!Always
      BY <1>3 DEF MmOpen, Models!NoAnswer
    <2>3. Models!Latest \in Nat
      BY <1>3, MmLatestExists DEF Models!NoAnswer, Models!Answers
    <2> QED BY <2>1, <2>2, <2>3
  <1>10. step(shown) \in MmAsking
    <2>1. prior \in Nat
      BY <1>9 DEF Models!NoAnswer
    <2>2. Models!Came \in SUBSET MmFacts
      BY DEF Models!Came
    <2>3. [f \in shown |-> mmFacts[f].text] \in MmQuotes
      BY <1>4, <1>8 DEF MmQuotes
    <2> HIDE DEF prior
    <2> QED BY <1>3, <1>4, <1>6, <2>1, <2>2, <2>3 DEF MmAsking
  <1>11. MmStepOK(mmFacts, step(shown), mmClock)
    BY <1>3, <1>7, <1>8 DEF MmStepOK
  <1>12. mmAlone' => /\ mmAlone /\ \A q \in MmRefreshers \ {r} : mmRefresh[q] = Models!Ready
                     /\ MmInOrder(mmAnswers) /\ MmLastOpen(mmAnswers)
    BY <1>2 DEF MmInv, MmOne
  <1>13. \A a \in DOMAIN mmAnswers : mmAnswers[a].from <= mmClock
    BY MmNow DEF MmDated
  <1>14. mmAlone' => MmFollows(step(shown), mmAnswers)
    <2> HIDE DEF prior
    <2> QED BY <1>9, <1>12, <1>13 DEF MmFollows, MmLastOpen
  <1> DEFINE new == step(shown)
  <1>15. new \in MmStep
    BY <1>10 DEF MmStep
  <1>16. mmRefresh' = [mmRefresh EXCEPT ![r] = new] /\ MmStepOK(mmFacts, new, mmClock) /\ (mmAlone' => MmFollows(new, mmAnswers))
    BY <1>1, <1>11, <1>14
  <1> HIDE DEF new
  <1>17. MmAnswersOK(mmFacts, mmAnswers, mmClock)
    BY DEF MmInv
  <1> QED BY <1>2, <1>3, <1>12, <1>15, <1>16, <1>17, MmRefreshMoves

LEMMA MmRefuseKeeps == ASSUME MmInv, NEW r \in MmRefreshers, Models!Refuse(r) PROVE MmInv'
  <1>1. /\ mmRefresh[r].at = "asking" /\ mmRefresh' = [mmRefresh EXCEPT ![r] = Models!Ready]
        /\ UNCHANGED <<mmFacts, mmAnswers, mmModel, mmClock, mmAlone>>
    BY DEF Models!Refuse, Models!Does
  <1>2. mmAlone => /\ \A q \in MmRefreshers \ {r} : mmRefresh[q] = Models!Ready
                   /\ MmInOrder(mmAnswers) /\ MmFollows(mmRefresh[r], mmAnswers)
    BY <1>1, MmBusyAlone
  <1>3. MmFollows(mmRefresh[r], mmAnswers) => MmFollows(Models!Ready, mmAnswers)
    BY <1>1 DEF MmFollows, MmLastOpen, Models!Ready
  <1>4. MmAnswersOK(mmFacts, mmAnswers, mmClock) /\ mmAlone \in BOOLEAN
    BY DEF MmInv, MmTypes
  <1> QED BY <1>1, <1>2, <1>3, <1>4, MmNow, MmReadyFits, MmRefreshMoves

LEMMA MmAddAnswerKeeps == ASSUME MmInv, NEW r \in MmRefreshers, Models!AddAnswer(r) PROVE MmInv'
  <1> DEFINE ask == mmRefresh[r]
             new(sources) ==
               [there |-> TRUE, sources |-> sources, quotes |-> [f \in sources |-> ask.text[f]], shown |-> ask.shown,
                newestAt |-> ask.newestAt, from |-> ask.now, to |-> Models!Always, read |-> ask.read, withdrawn |-> FALSE]
             n == Len(mmAnswers) + 1
             step == [at |-> "added", now |-> ask.now, previous |-> ask.previous, saved |-> n]
  <1>1. PICK sources \in (SUBSET ask.shown) \ {{}} : mmAnswers' = Append(mmAnswers, new(sources))
    BY DEF Models!AddAnswer
  <1>2. /\ ask.at = "asking" /\ mmRefresh' = [mmRefresh EXCEPT ![r] = step]
        /\ UNCHANGED <<mmFacts, mmModel, mmClock, mmAlone>>
    BY DEF Models!AddAnswer, Models!Does
  <1>3. ask \in MmAsking /\ mmAnswers \in Seq(MmAnswer)
    BY <1>2, MmNow, MmSteps
  <1>4. /\ ask.now \in Nat \ {0} /\ ask.shown \in SUBSET MmFacts /\ ask.newestAt \in Nat /\ ask.read \in SUBSET MmFacts
        /\ ask.previous \in Nat /\ n \in Nat
    BY <1>3 DEF MmAsking
  <1>5. /\ MmSaw(mmFacts, mmClock, ask.now, ask.read) /\ ask.now <= mmClock
        /\ ask.text \in [ask.shown -> {1, 2}]
    BY <1>2 DEF MmInv, MmStepsOK, MmStepOK
  <1> DEFINE answer == new(sources)
  <1>6. answer \in MmAnswer
    <2>1. [f \in sources |-> ask.text[f]] \in MmQuotes
      <3>1. [f \in sources |-> ask.text[f]] \in [sources -> {1, 2}]
        BY <1>5
      <3>2. sources \in SUBSET MmFacts
        BY <1>4
      <3> QED BY <3>1, <3>2 DEF MmQuotes
    <2>2. sources \in SUBSET MmFacts
      BY <1>4
    <2> HIDE DEF ask
    <2> QED BY <1>4, <2>1, <2>2 DEF MmAnswer, Models!Always
  <1>7. /\ answer.read = ask.read /\ answer.from = ask.now /\ answer.to = 0 /\ ~answer.withdrawn
    BY DEF Models!Always
  <1>8. mmAnswers' = Append(mmAnswers, answer)
    BY <1>1
  <1> HIDE DEF answer, new
  <1>9. /\ mmAnswers' \in Seq(MmAnswer) /\ Len(mmAnswers') = n /\ DOMAIN mmAnswers' = DOMAIN mmAnswers \cup {n}
        /\ mmAnswers'[n] = answer /\ \A a \in DOMAIN mmAnswers : mmAnswers'[a] = mmAnswers[a] /\ a < n
    BY <1>3, <1>6, <1>8
  <1>10. MmAnswersOK(mmFacts, mmAnswers', mmClock)
    <2>1. MmAnswersOK(mmFacts, mmAnswers, mmClock)
      BY DEF MmInv
    <2>2. MmDated(answer, mmClock) /\ MmSaw(mmFacts, mmClock, answer.from, answer.read)
      BY <1>5, <1>7, MmNow DEF MmDated
    <2> QED BY <1>9, <2>1, <2>2 DEF MmAnswersOK
  <1>11. step \in MmStep /\ MmStepOK(mmFacts, step, mmClock)
    BY <1>4, <1>5 DEF MmStep, MmSaving, MmStepOK
  <1>12. mmAlone => /\ \A q \in MmRefreshers \ {r} : mmRefresh[q] = Models!Ready
                    /\ MmInOrder(mmAnswers) /\ MmFollows(ask, mmAnswers)
    BY <1>2, MmBusyAlone
  <1>13. MmInOrder(mmAnswers) /\ MmFollows(ask, mmAnswers) => MmInOrder(mmAnswers')
    <2> SUFFICES ASSUME MmInOrder(mmAnswers), MmFollows(ask, mmAnswers), NEW a \in DOMAIN mmAnswers', NEW b \in DOMAIN mmAnswers', a < b
                 PROVE  mmAnswers'[a].from <= mmAnswers'[b].from
      BY DEF MmInOrder
    <2>1. CASE b = n
      <3>1. a \in DOMAIN mmAnswers
        BY <1>4, <1>9, <2>1
      <3> QED BY <1>2, <1>7, <1>9, <2>1, <3>1 DEF MmFollows
    <2>2. CASE b # n
      <3>1. a \in DOMAIN mmAnswers /\ b \in DOMAIN mmAnswers
        BY <1>3, <1>4, <1>9, <2>2
      <3> QED BY <1>9, <3>1 DEF MmInOrder
    <2> QED BY <2>1, <2>2
  <1>14. MmFollows(ask, mmAnswers) => MmFollows(step, mmAnswers')
    <2>1. MmOpen(mmAnswers') \subseteq MmOpen(mmAnswers) \cup {n}
      BY <1>9 DEF MmOpen
    <2> QED BY <1>2, <1>9, <2>1 DEF MmFollows
  <1>15. mmAlone \in BOOLEAN
    BY DEF MmInv, MmTypes
  <1> HIDE DEF step, ask
  <1> QED BY <1>2, <1>9, <1>10, <1>11, <1>12, <1>13, <1>14, <1>15, MmNow, MmRefreshMoves

LEMMA MmCheckPreviousKeeps == ASSUME MmInv, NEW r \in MmRefreshers, Models!CheckPrevious(r) PROVE MmInv'
  <1> DEFINE ask == mmRefresh[r]
             still == ask.previous \in Models!Answers /\ mmAnswers[ask.previous].to = Models!Always
             step == [ask EXCEPT !.at = IF still THEN "closing" ELSE "closed"]
  <1>1. /\ ask.at = "added" /\ mmRefresh' = [mmRefresh EXCEPT ![r] = step]
        /\ UNCHANGED <<mmFacts, mmAnswers, mmModel, mmClock, mmAlone>>
    BY DEF Models!CheckPrevious, Models!Does
  <1>2. ask \in MmSaving
    BY <1>1, MmNow, MmSteps
  <1>3. /\ step \in MmSaving /\ step.saved = ask.saved /\ step.previous = ask.previous /\ step.now = ask.now
        /\ step.at = (IF still THEN "closing" ELSE "closed")
    BY <1>2 DEF MmSaving
  <1>4. step \in MmStep /\ MmStepOK(mmFacts, step, mmClock) /\ ask.now <= mmClock
    <2>1. ask.now <= mmClock
      BY <1>1 DEF MmInv, MmStepsOK, MmStepOK
    <2>2. step.now = ask.now
      BY <1>2 DEF MmSaving
    <2> HIDE DEF step, ask
    <2> QED BY <1>3, <2>1, <2>2 DEF MmStep, MmStepOK
  <1>5. mmAlone => /\ \A q \in MmRefreshers \ {r} : mmRefresh[q] = Models!Ready
                   /\ MmInOrder(mmAnswers) /\ MmFollows(ask, mmAnswers)
    BY <1>1, MmBusyAlone
  <1>6. ask.previous \in MmOpen(mmAnswers) => still
    BY DEF MmOpen, Models!Answers
  <1> HIDE DEF step, still, ask
  <1>7. MmFollows(ask, mmAnswers) => MmFollows(step, mmAnswers)
    BY <1>1, <1>3, <1>6 DEF MmFollows
  <1>8. MmAnswersOK(mmFacts, mmAnswers, mmClock) /\ mmAlone \in BOOLEAN
    BY DEF MmInv, MmTypes
  <1> QED BY <1>1, <1>4, <1>5, <1>7, <1>8, MmNow, MmRefreshMoves

LEMMA MmClosePreviousKeeps == ASSUME MmInv, NEW r \in MmRefreshers, Models!ClosePrevious(r) PROVE MmInv'
  <1> DEFINE ask == mmRefresh[r]
             step == [ask EXCEPT !.at = "closed"]
  <1>1. /\ ask.at = "closing" /\ UNCHANGED <<mmFacts, mmModel, mmClock>>
        /\ IF ask.previous \in Models!Answers
             THEN /\ mmAnswers' = [mmAnswers EXCEPT ![ask.previous].to = ask.now]
                  /\ mmRefresh' = [mmRefresh EXCEPT ![r] = step]
                  /\ UNCHANGED mmAlone
             ELSE mmAnswers' = mmAnswers /\ mmRefresh' = [mmRefresh EXCEPT ![r] = Models!Ready] /\ mmAlone' = FALSE
    BY DEF Models!ClosePrevious, Models!Does
  <1>2. ask \in MmSaving
    BY <1>1, MmNow, MmSteps
  <1>3. /\ step \in MmSaving /\ step.saved = ask.saved /\ step.previous = ask.previous /\ step.at = "closed"
        /\ ask.now \in Nat \ {0}
    BY <1>2 DEF MmSaving
  <1>4. step \in MmStep /\ MmStepOK(mmFacts, step, mmClock) /\ ask.now <= mmClock
    <2>1. ask.now <= mmClock
      BY <1>1 DEF MmInv, MmStepsOK, MmStepOK
    <2>2. step.now = ask.now
      BY <1>2 DEF MmSaving
    <2> HIDE DEF step, ask
    <2> QED BY <1>3, <2>1, <2>2 DEF MmStep, MmStepOK
  <1>5. MmAnswersOK(mmFacts, mmAnswers, mmClock) /\ mmAlone \in BOOLEAN
    BY DEF MmInv, MmTypes
  <1>6. CASE ask.previous \notin Models!Answers
    BY <1>1, <1>5, <1>6, MmNow, MmReadyFits, MmRefreshMoves
  <1>7. CASE ask.previous \in Models!Answers
    <2> DEFINE i == ask.previous now == ask.now
               new == [mmAnswers[i] EXCEPT !.to = now]
    <2>1. i \in DOMAIN mmAnswers /\ mmAnswers \in Seq(MmAnswer) /\ mmClock \in Nat \ {0}
      BY <1>7, MmNow DEF Models!Answers
    <2>2. now \in Nat \ {0} /\ now <= mmClock
      BY <1>3, <1>4
    <2>3. mmAnswers' = [mmAnswers EXCEPT ![i] = new]
      BY <1>1, <1>7
    <2> HIDE DEF now
    <2>4. new \in MmAnswer /\ MmLost(mmAnswers[i], new, mmClock) /\ new.to = now
      <3>1. mmAnswers[i] \in MmAnswer /\ MmDated(mmAnswers[i], mmClock) /\ now \in 1 .. mmClock
        BY <2>1, <2>2, MmNow
      <3>2. new \in MmAnswer /\ MmLost(mmAnswers[i], new, mmClock)
        BY <3>1, <2>1, MmAnswerLost
      <3>3. new.to = now
        BY <3>1 DEF MmAnswer
      <3> QED BY <3>2, <3>3
    <2> HIDE DEF new, i
    <2>5. MmLose(mmAnswers, mmAnswers', mmClock)
      BY <2>1, <2>3, <2>4, MmNow, MmOneLost
    <2>6. mmAnswers'[i].to # Models!Always
      BY <2>1, <2>2, <2>3, <2>4 DEF Models!Always
    <2>7. /\ Len(mmAnswers') = Len(mmAnswers) /\ MmOpen(mmAnswers') \subseteq MmOpen(mmAnswers)
          /\ MmInOrder(mmAnswers) => MmInOrder(mmAnswers')
      BY <2>1, <2>5, MmLoseKeeps
    <2>8. i \notin MmOpen(mmAnswers')
      BY <2>6 DEF MmOpen
    <2>9. mmAnswers' \in Seq(MmAnswer) /\ MmAnswersOK(mmFacts, mmAnswers', mmClock)
      <3>1. mmAnswers' \in Seq(MmAnswer) /\ DOMAIN mmAnswers' = DOMAIN mmAnswers
            /\ \A a \in DOMAIN mmAnswers : MmLost(mmAnswers[a], mmAnswers'[a], mmClock)
        BY <2>5 DEF MmLose
      <3> QED BY <1>5, <3>1 DEF MmAnswersOK, MmLost, MmDated
    <2>10. mmAlone => /\ \A q \in MmRefreshers \ {r} : mmRefresh[q] = Models!Ready
                      /\ MmInOrder(mmAnswers) /\ MmFollows(ask, mmAnswers)
      BY <1>1, MmBusyAlone
    <2>11. MmFollows(ask, mmAnswers) => MmFollows(step, mmAnswers')
      <3>1. i = ask.previous
        BY DEF i
      <3> HIDE DEF ask, step
      <3> QED BY <1>1, <1>3, <2>7, <2>8, <3>1 DEF MmFollows
    <2>12. mmRefresh' = [mmRefresh EXCEPT ![r] = step] /\ mmAlone' = mmAlone
      BY <1>1, <1>7
    <2> HIDE DEF ask, step
    <2> QED BY <1>1, <1>4, <1>5, <2>7, <2>9, <2>10, <2>11, <2>12, MmNow, MmRefreshMoves
  <1> QED BY <1>6, <1>7

LEMMA MmNoteAnswerKeeps == ASSUME MmInv, NEW r \in MmRefreshers, Models!NoteAnswer(r) PROVE MmInv'
  <1> DEFINE ask == mmRefresh[r]
  <1>1. /\ ask.at = "closed" /\ UNCHANGED <<mmFacts, mmAnswers, mmClock, mmAlone>>
        /\ mmModel' = (IF mmModel.there THEN [mmModel EXCEPT !.last = ask.saved] ELSE mmModel)
        /\ mmRefresh' = [mmRefresh EXCEPT ![r] = Models!Ready]
    BY DEF Models!NoteAnswer, Models!Does
  <1>2. ask \in MmSaving
    BY <1>1, MmNow, MmSteps
  <1>3. mmModel' \in [there : BOOLEAN, last : Nat]
    BY <1>1, <1>2, MmNow DEF MmSaving
  <1>4. mmAlone => /\ \A q \in MmRefreshers \ {r} : mmRefresh[q] = Models!Ready
                   /\ MmInOrder(mmAnswers) /\ MmFollows(ask, mmAnswers)
    BY <1>1, MmBusyAlone
  <1>5. MmFollows(ask, mmAnswers) => MmFollows(Models!Ready, mmAnswers)
    BY <1>1 DEF MmFollows, MmLastOpen, Models!Ready
  <1>6. MmAnswersOK(mmFacts, mmAnswers, mmClock) /\ mmAlone \in BOOLEAN
    BY DEF MmInv, MmTypes
  <1> QED BY <1>1, <1>3, <1>4, <1>5, <1>6, MmNow, MmReadyFits, MmRefreshMoves

LEMMA MmStopKeeps == ASSUME MmInv, NEW r \in MmRefreshers, Models!StopRefresh(r) PROVE MmInv'
  <1>1. /\ UNCHANGED <<mmFacts, mmAnswers, mmModel, mmClock>> /\ mmAlone' = FALSE
        /\ mmRefresh' = [mmRefresh EXCEPT ![r] = Models!Ready]
    BY DEF Models!StopRefresh, Models!Does
  <1>2. MmAnswersOK(mmFacts, mmAnswers, mmClock)
    BY DEF MmInv
  <1> QED BY <1>1, <1>2, MmNow, MmReadyFits, MmRefreshMoves

LEMMA MmNextKeeps == ASSUME MmInv, [Models!MmNext]_ModelsVars PROVE MmInv'
  <1>1. ASSUME UNCHANGED ModelsVars PROVE MmInv'
    BY <1>1 DEF ModelsVars, MmInv, MmTypes, MmStepsOK, MmOne
  <1>2. ASSUME Models!MmNext PROVE MmInv'
    <2>1. ASSUME NEW r \in MmRefreshers,
                 \/ Models!StartRefresh(r) \/ Models!Refuse(r) \/ Models!AddAnswer(r) \/ Models!CheckPrevious(r)
                 \/ Models!ClosePrevious(r) \/ Models!NoteAnswer(r) \/ Models!StopRefresh(r)
          PROVE  MmInv'
      BY <2>1, MmStartKeeps, MmRefuseKeeps, MmAddAnswerKeeps, MmCheckPreviousKeeps, MmClosePreviousKeeps,
         MmNoteAnswerKeeps, MmStopKeeps
    <2>2. ASSUME NEW f \in MmFacts,
                 \/ Models!AddFact(f) \/ Models!BringFact(f) \/ Models!LeaveScope(f) \/ Models!ReturnToScope(f)
                 \/ Models!EndFact(f) \/ Models!EraseFact(f) \/ Models!EditFact(f)
          PROVE  MmInv'
      BY <2>2, MmAddFactKeeps, MmBringFactKeeps, MmLeaveKeeps, MmReturnKeeps, MmEndFactKeeps, MmEraseFactKeeps,
         MmEditFactKeeps
    <2>3. ASSUME \/ Models!StartVerify \/ Models!RetractUnsupported \/ Models!StartDelete \/ Models!DeleteAnswer
                 \/ Models!DeleteDefinition \/ Models!MmTick
          PROVE  MmInv'
      BY <2>3, MmRestKeeps, MmRetractKeeps, MmDeleteAnswerKeeps, MmTickKeeps
    <2> QED BY <1>2, <2>1, <2>2, <2>3, Zenon DEF Models!MmNext
  <1> QED BY <1>1, <1>2

\* What this store learned by its own clock, and was not there when an answer's
\* refresh read it, bears a stamp no earlier than that reading, whatever facts
\* of other stamps come in between and however facts leave the scope and return
\* (src/mental-models.ts:230-257, 375-420).
THEOREM AnswersMmInv == Spec => [](part = "models" => MmInv)
  <1>1. Init => (part = "models" => MmInv)
    BY MmInitInv DEF Init
  <1>2. (part = "models" => MmInv) /\ [Next]_vars => (part = "models" => MmInv)'
    BY OnePartMoves, MmNextKeeps
  <1> QED BY <1>1, <1>2, PTL DEF Spec

\* A mental model reads as fresh only when its answer was shown every live fact
\* that this store learned, by its own clock, after the answer's refresh had read
\* it - unless it was shown a stamp ahead of that clock - and only when that
\* answer was never withdrawn; and refreshes that never overlap or stop half-way
\* leave one answer open.  For any number of facts, refreshes and answers, beside
\* facts of any other stamp, on a clock that is not set back
\* (src/mental-models.ts:230-257, 400-412).
THEOREM AnswersFreshIsFresh == Spec => []FreshIsFresh
  <1>1. ASSUME MmInv PROVE /\ Models!FreshSawWhatCame /\ Models!NotFreshOnceWithdrawn /\ Models!OneOpenAnswer
    <2> DEFINE a == Models!Latest
    <2>1. Models!Fresh => a \in DOMAIN mmAnswers
      BY <1>1, MmLatestExists DEF Models!Fresh, Models!FreshWith, Models!Answers
    <2>2. Models!Fresh => /\ mmAnswers[a].to = Models!Always \/ mmAnswers[a].to > mmClock
                          /\ Models!UnseenBy(a) = {}
      BY DEF Models!Fresh, Models!FreshWith
    <2>3. Models!Fresh => /\ mmAnswers[a] \in MmAnswer /\ MmDated(mmAnswers[a], mmClock)
                          /\ MmSaw(mmFacts, mmClock, mmAnswers[a].from, mmAnswers[a].read)
      BY <1>1, <2>1, MmNow DEF MmInv, MmAnswersOK
    <2>4. mmFacts \in [MmFacts -> MmFact] /\ mmClock \in Nat /\ mmAnswers \in Seq(MmAnswer)
      BY <1>1, MmNow
    <2>5. Models!FreshSawWhatCame
      <3> SUFFICES ASSUME Models!Fresh, NEW f \in Models!FactsFor, f \notin mmAnswers[a].read,
                          mmFacts[f].own, mmAnswers[a].newestAt <= mmAnswers[a].from
                   PROVE  f \in mmAnswers[a].shown
        BY DEF Models!FreshSawWhatCame
      <3>1. f \in MmFacts /\ mmFacts[f].at = "live" /\ mmFacts[f] \in MmFact
        BY <2>4 DEF Models!FactsFor, Models!LiveFacts
      <3>2. mmFacts[f].learned \in Nat /\ mmAnswers[a].newestAt \in Nat /\ mmAnswers[a].from \in Nat
        BY <2>3, <3>1, ClockAssumption DEF MmFact, MmAnswer
      <3>3. mmFacts[f].learned >= mmAnswers[a].newestAt
        BY <2>3, <3>1, <3>2 DEF MmSaw
      <3>4. f \notin Models!UnseenBy(a)
        BY <2>2
      <3> QED BY <3>2, <3>3, <3>4 DEF Models!UnseenBy
    <2>6. Models!NotFreshOnceWithdrawn
      <3>1. Models!Fresh => mmAnswers[a].to \in Nat
        BY <2>3 DEF MmAnswer
      <3> QED BY <2>2, <2>3, <2>4, <3>1 DEF Models!NotFreshOnceWithdrawn, MmDated
    <2>7. Models!OneOpenAnswer
      <3> SUFFICES ASSUME mmAlone, \A r \in MmRefreshers : mmRefresh[r] = Models!Ready,
                          NEW x \in Models!Answers, NEW y \in Models!Answers,
                          mmAnswers[x].to = Models!Always, mmAnswers[y].to = Models!Always
                   PROVE  x = y
        BY DEF Models!OneOpenAnswer
      <3>1. MmLastOpen(mmAnswers)
        BY <1>1 DEF MmInv, MmOne
      <3>2. x \in MmOpen(mmAnswers) /\ y \in MmOpen(mmAnswers)
        BY DEF MmOpen, Models!Answers
      <3> QED BY <3>1, <3>2 DEF MmLastOpen
    <2> QED BY <2>5, <2>6, <2>7
  <1>2. (part = "models" => MmInv) => FreshIsFresh
    BY <1>1 DEF FreshIsFresh
  <1> QED BY <1>2, AnswersMmInv, PTL

-----------------------------------------------------------------------------
(* Governed reads.                                                         *)

GrHeld == Reads!GrFact \cup {Reads!Absent}
GrPaging ==
  [at : {"cursor", "rows"}, reader : GrReaders, asked : {"all", "label", "words"}, limit : Nat, after : {0} \cup GrIds,
   ask : Nat]
GrFirst == [at : {"first"}, reader : GrReaders, id : GrIds, try : Nat]
GrHistory ==
  [at : {"versions", "again", "versionsAgain", "moved"}, reader : GrReaders, id : GrIds, try : Nat, fact : Reads!GrFact,
   versions : Seq(Nat), during : SUBSET (GrHeld \X Seq(Nat))]
GrOwnEnd == [at : {"own end"}, reader : GrReaders, id : GrIds]
GrEdges == [at : {"edges"}, reader : GrReaders, id : GrIds, seen : SUBSET GrIds]
GrEnds ==
  [at : {"ends"}, reader : GrReaders, id : GrIds, seen : SUBSET GrIds, todo : SUBSET GrLinks, out : SUBSET GrLinks]
GrVectors == [at : {"vectors"}, reader : GrReaders, visible : SUBSET GrIds, seen : SUBSET GrIds]
GrKinds ==
  {Reads!NoRead} \cup GrPaging \cup GrFirst \cup GrHistory \cup GrOwnEnd \cup GrEdges \cup GrEnds \cup GrVectors

GrTypes ==
  /\ grFacts \in [GrIds -> GrHeld] /\ grVersions \in [GrIds -> Seq(Nat)] /\ grEdges \subseteq GrLinks
  /\ grCopy \in GrCopies /\ grRead \in GrKinds /\ grChanges \in Nat

\* What marks a change was used by no change to come.
GrStamped(facts, versions, changes) ==
  \A i \in GrIds : /\ facts[i] # Reads!Absent => facts[i].anchor <= changes
                   /\ \A k \in DOMAIN versions[i] : versions[i][k] <= changes

\* A history as it was read, one half after the other, was whole at an instant of
\* the read, or it will not be found unchanged when it is read again: the fact
\* has changed since, or the first of its versions is gone for good.
GrMet(read) == <<read.fact, read.versions>> \in read.during
GrGone(read, versions) ==
  read.versions # <<>> /\ \A k \in DOMAIN versions[read.id] : versions[read.id][k] # read.versions[1]
GrHistoryOK(read, facts, versions, changes) ==
  read.at \in {"versions", "again", "versionsAgain"} =>
    /\ read.fact.anchor <= changes
    /\ read.versions # <<>> => read.versions[1] <= changes
    /\ <<facts[read.id], versions[read.id]>> \in read.during
    /\ read.at = "again" => GrMet(read) \/ facts[read.id] # read.fact \/ GrGone(read, versions)
    /\ read.at = "versionsAgain" => GrMet(read) \/ GrGone(read, versions)

\* All that the reader sees, and all that the answer will tell of, was seen.
GrSeenNow(facts, r) == {i \in GrIds : Reads!GrSees(facts, i, r)}
GrSeenOK(read, facts) ==
  /\ read.at \in {"edges", "ends", "vectors"} => GrSeenNow(facts, read.reader) \subseteq read.seen
  /\ read.at \in {"edges", "ends"} => read.id \in read.seen
  /\ read.at = "ends" => UNION read.out \subseteq read.seen
  /\ read.at = "vectors" => read.visible \subseteq read.seen

GrAnswerOK == Reads!HistoryAsJudged /\ Reads!NoHiddenFactTold /\ Reads!ExportsWithinReads

GrReadOK == GrHistoryOK(grRead, grFacts, grVersions, grChanges) /\ GrSeenOK(grRead, grFacts)
GrInv == GrTypes /\ GrStamped(grFacts, grVersions, grChanges) /\ GrReadOK /\ GrAnswerOK

LEMMA GrReadKinds ==
  ASSUME NEW read \in GrKinds
  PROVE  /\ read.at \in {"cursor", "rows"} => read \in GrPaging
         /\ read.at = "first" => read \in GrFirst
         /\ read.at \in {"versions", "again", "versionsAgain", "moved"} => read \in GrHistory
         /\ read.at = "own end" => read \in GrOwnEnd
         /\ read.at = "edges" => read \in GrEdges
         /\ read.at = "ends" => read \in GrEnds
         /\ read.at = "vectors" => read \in GrVectors
  <1>1. Reads!NoRead.at = "none"
    BY DEF Reads!NoRead
  <1>2. /\ read \in GrPaging => read.at \in {"cursor", "rows"}
        /\ read \in GrFirst => read.at = "first"
        /\ read \in GrHistory => read.at \in {"versions", "again", "versionsAgain", "moved"}
        /\ read \in GrOwnEnd => read.at = "own end"
        /\ read \in GrEdges => read.at = "edges"
        /\ read \in GrEnds => read.at = "ends"
        /\ read \in GrVectors => read.at = "vectors"
    BY DEF GrPaging, GrFirst, GrHistory, GrOwnEnd, GrEdges, GrEnds, GrVectors
  <1> QED BY <1>1, <1>2 DEF GrKinds

LEMMA GrNoReadFits ==
  ASSUME NEW facts, NEW versions, NEW changes
  PROVE  Reads!NoRead \in GrKinds /\ GrHistoryOK(Reads!NoRead, facts, versions, changes) /\ GrSeenOK(Reads!NoRead, facts)
  BY DEF GrKinds, Reads!NoRead, GrHistoryOK, GrSeenOK

LEMMA GrInitInv == Reads!GrInit => GrInv
  <1> SUFFICES ASSUME Reads!GrInit PROVE GrInv
    OBVIOUS
  <1>1. /\ grCopy \in GrCopies /\ grFacts = grCopy /\ grVersions = [i \in GrIds |-> <<>>]
        /\ (grEdges = {} \/ grEdges = GrLinks) /\ grRead = Reads!NoRead /\ grAnswer = Reads!NoAnswer /\ grChanges = 0
    BY DEF Reads!GrInit
  <1>2. grFacts \in [GrIds -> GrHeld] /\ \A i \in GrIds : grFacts[i] # Reads!Absent => grFacts[i].anchor = 0
    BY <1>1, CopiesAssumption DEF GrHeld
  <1>3. grVersions \in [GrIds -> Seq(Nat)]
    BY <1>1
  <1>4. GrTypes
    BY <1>1, <1>2, <1>3, GrNoReadFits DEF GrTypes
  <1>5. GrStamped(grFacts, grVersions, grChanges)
    BY <1>1, <1>2 DEF GrStamped
  <1>6. GrReadOK
    BY <1>1, GrNoReadFits DEF GrReadOK
  <1>7. GrAnswerOK
    BY <1>1 DEF GrAnswerOK, Reads!NoAnswer, Reads!HistoryAsJudged, Reads!NoHiddenFactTold, Reads!ExportsWithinReads
  <1> QED BY <1>4, <1>5, <1>6, <1>7 DEF GrInv

\* A change of one fact: it is gone, or imported again without its versions, or
\* keeps them and is marked by a stamp that no other change has.
GrChangeFits(i, fact, versions) ==
  /\ fact \in GrHeld
  /\ fact # Reads!Absent => fact.anchor <= grChanges + 1
  /\ versions \in {<<>>, Append(grVersions[i], grChanges + 1)}
  /\ \/ fact \in {Reads!Absent, grFacts[i]}
     \/ versions = <<>>
     \/ fact.anchor = grChanges + 1

LEMMA GrStampsGo ==
  ASSUME GrInv, NEW i \in GrIds, NEW fact, NEW versions, GrChangeFits(i, fact, versions),
         grFacts' = [grFacts EXCEPT ![i] = fact], grVersions' = [grVersions EXCEPT ![i] = versions],
         grChanges' = grChanges + 1
  PROVE  /\ grFacts' \in [GrIds -> GrHeld] /\ grVersions' \in [GrIds -> Seq(Nat)] /\ grChanges' \in Nat
         /\ GrStamped(grFacts', grVersions', grChanges')
         /\ grFacts'[i] = fact /\ grVersions'[i] = versions
         /\ \A j \in GrIds \ {i} : grFacts'[j] = grFacts[j] /\ grVersions'[j] = grVersions[j]
         /\ \A k \in DOMAIN versions : \/ k \in DOMAIN grVersions[i] /\ versions[k] = grVersions[i][k]
                                       \/ versions[k] = grChanges + 1
  <1>1. grFacts \in [GrIds -> GrHeld] /\ grVersions \in [GrIds -> Seq(Nat)] /\ grChanges \in Nat
    BY DEF GrInv, GrTypes
  <1>2. grVersions[i] \in Seq(Nat) /\ fact \in GrHeld
    BY <1>1 DEF GrChangeFits
  <1>3. /\ versions \in Seq(Nat)
        /\ \A k \in DOMAIN versions : \/ k \in DOMAIN grVersions[i] /\ versions[k] = grVersions[i][k]
                                      \/ versions[k] = grChanges + 1
    <2>1. CASE versions = <<>>
      BY <2>1
    <2>2. CASE versions = Append(grVersions[i], grChanges + 1)
      <3> DEFINE s == grVersions[i] x == grChanges + 1
      <3>1. s \in Seq(Nat) /\ x \in Nat /\ versions = Append(s, x)
        BY <1>1, <1>2, <2>2
      <3> HIDE DEF s, x
      <3>2. versions \in Seq(Nat) /\ \A k \in DOMAIN versions : (k \in DOMAIN s /\ versions[k] = s[k]) \/ versions[k] = x
        BY <3>1
      <3> QED BY <3>2 DEF s, x
    <2> QED BY <2>1, <2>2 DEF GrChangeFits
  <1>4. grFacts' \in [GrIds -> GrHeld] /\ grVersions' \in [GrIds -> Seq(Nat)] /\ grChanges' \in Nat
    BY <1>1, <1>2, <1>3
  <1>5. /\ grFacts'[i] = fact /\ grVersions'[i] = versions
        /\ \A j \in GrIds \ {i} : grFacts'[j] = grFacts[j] /\ grVersions'[j] = grVersions[j]
    BY <1>1
  <1>6. GrStamped(grFacts', grVersions', grChanges')
    <2> SUFFICES ASSUME NEW j \in GrIds
                 PROVE  /\ grFacts'[j] # Reads!Absent => grFacts'[j].anchor <= grChanges + 1
                        /\ \A k \in DOMAIN grVersions'[j] : grVersions'[j][k] <= grChanges + 1
      BY DEF GrStamped
    <2>1. /\ grFacts[j] # Reads!Absent => grFacts[j].anchor <= grChanges
          /\ \A k \in DOMAIN grVersions[j] : grVersions[j][k] <= grChanges
      BY DEF GrInv, GrStamped
    <2>2. /\ grFacts[j] # Reads!Absent => grFacts[j].anchor \in Nat
          /\ \A k \in DOMAIN grVersions[j] : grVersions[j][k] \in Nat
      <3>1. grFacts[j] \in GrHeld /\ grVersions[j] \in Seq(Nat)
        BY <1>1
      <3>2. grFacts[j] # Reads!Absent => grFacts[j].anchor \in Nat
        BY <3>1 DEF GrHeld, Reads!GrFact
      <3> QED BY <3>1, <3>2
    <2>3. CASE j = i
      BY <1>1, <1>3, <1>5, <2>1, <2>2, <2>3 DEF GrChangeFits
    <2>4. CASE j # i
      BY <1>1, <1>5, <2>1, <2>2, <2>4
    <2> QED BY <2>3, <2>4
  <1> QED BY <1>3, <1>4, <1>5, <1>6

\* The fact being read did not change, or changed as one may.
GrMoved(id, facts, versions, facts1, versions1, changes) ==
  /\ facts1[id] \in GrHeld /\ versions1[id] \in Seq(Nat)
  /\ \/ facts1[id] \in {Reads!Absent, facts[id]}
     \/ versions1[id] = <<>>
     \/ facts1[id].anchor = changes + 1
  /\ \A k \in DOMAIN versions1[id] : \/ k \in DOMAIN versions[id] /\ versions1[id][k] = versions[id][k]
                                   \/ versions1[id][k] = changes + 1

\* The read, having seen that.
GrSaw(read, facts1, versions1) == [read EXCEPT !.during = @ \cup {<<facts1[read.id], versions1[read.id]>>}]

\* A history read while its fact changes: what was whole at an instant stays so,
\* and what changed does not come back as it was.
LEMMA GrHistoryKeeps ==
  ASSUME NEW read, read \in GrHistory, read.at # "moved", NEW facts, NEW versions, NEW facts1, NEW versions1,
         NEW changes \in Nat, GrHistoryOK(read, facts, versions, changes),
         GrMoved(read.id, facts, versions, facts1, versions1, changes)
  PROVE  /\ GrSaw(read, facts1, versions1) \in GrHistory
         /\ GrHistoryOK(GrSaw(read, facts1, versions1), facts1, versions1, changes + 1)
  <1> DEFINE read1 == GrSaw(read, facts1, versions1)
  <1>0. /\ facts1[read.id] \in GrHeld /\ versions1[read.id] \in Seq(Nat)
        /\ \/ facts1[read.id] \in {Reads!Absent, facts[read.id]}
           \/ versions1[read.id] = <<>>
           \/ facts1[read.id].anchor = changes + 1
        /\ \A k \in DOMAIN versions1[read.id] :
             \/ k \in DOMAIN versions[read.id] /\ versions1[read.id][k] = versions[read.id][k]
             \/ versions1[read.id][k] = changes + 1
    BY DEF GrMoved
  <1> DEFINE pair == <<facts1[read.id], versions1[read.id]>>
  <1>1. pair \in GrHeld \X Seq(Nat)
    BY <1>0
  <1>2. read1 = [read EXCEPT !.during = @ \cup {pair}]
    BY DEF GrSaw
  <1> HIDE DEF pair, read1
  <1>3. /\ read1 \in GrHistory
        /\ read1.at = read.at /\ read1.id = read.id /\ read1.fact = read.fact /\ read1.versions = read.versions
        /\ read1.during = read.during \cup {pair}
    <2> DEFINE pairs == SUBSET (GrHeld \X Seq(Nat)) now == read.during \cup {pair} stamps == Seq(Nat)
    <2>1. read.during \in pairs /\ now \in pairs
      BY <1>1 DEF GrHistory
    <2>2. read \in [at : {"versions", "again", "versionsAgain", "moved"}, reader : GrReaders, id : GrIds, try : Nat,
                   fact : Reads!GrFact, versions : stamps, during : pairs]
      BY DEF GrHistory
    <2>3. read1 = [read EXCEPT !.during = now]
      BY <1>2
    <2> HIDE DEF pairs, now, stamps
    <2>4. /\ read1 \in [at : {"versions", "again", "versionsAgain", "moved"}, reader : GrReaders, id : GrIds, try : Nat,
                       fact : Reads!GrFact, versions : stamps, during : pairs]
          /\ read1.at = read.at /\ read1.id = read.id /\ read1.fact = read.fact /\ read1.versions = read.versions
          /\ read1.during = now
      BY <2>1, <2>2, <2>3
    <2> QED BY <2>4 DEF GrHistory, pairs, now, stamps
  <1>4. /\ read.fact \in Reads!GrFact /\ read.versions \in Seq(Nat)
        /\ read.at \in {"versions", "again", "versionsAgain"}
    BY DEF GrHistory
  <1>5. /\ read.fact.anchor <= changes /\ read.fact.anchor \in Nat
        /\ read.versions # <<>> => (read.versions[1] <= changes /\ read.versions[1] \in Nat)
    BY <1>4 DEF GrHistoryOK, Reads!GrFact
  <1>6. read.fact # Reads!Absent
    BY <1>4 DEF Reads!GrFact, Reads!Absent
  <1>7. GrMet(read) => GrMet(read1)
    BY <1>3 DEF GrMet
  <1>8. GrGone(read, versions) => GrGone(read1, versions1)
    <2> SUFFICES ASSUME GrGone(read, versions), NEW k \in DOMAIN versions1[read.id]
                 PROVE  versions1[read.id][k] # read.versions[1]
      BY <1>3 DEF GrGone
    <2>1. /\ read.versions[1] <= changes /\ read.versions[1] \in Nat
          /\ \A j \in DOMAIN versions[read.id] : versions[read.id][j] # read.versions[1]
      BY <1>4, <1>5 DEF GrGone
    <2>2. changes + 1 # read.versions[1]
      BY <2>1
    <2>3. \/ k \in DOMAIN versions[read.id] /\ versions1[read.id][k] = versions[read.id][k]
          \/ versions1[read.id][k] = changes + 1
      BY <1>0
    <2> QED BY <2>1, <2>2, <2>3
  <1>9. facts[read.id] # read.fact => GrMet(read1) \/ facts1[read.id] # read.fact \/ GrGone(read1, versions1)
    <2> SUFFICES ASSUME facts[read.id] # read.fact, facts1[read.id] = read.fact
                 PROVE  GrMet(read1) \/ GrGone(read1, versions1)
      OBVIOUS
    <2>1. versions1[read.id] = <<>>
      BY <1>0, <1>5, <1>6
    <2>2. CASE read.versions = <<>>
      <3>1. pair = <<read.fact, read.versions>>
        BY <2>1, <2>2 DEF pair
      <3> QED BY <3>1, <1>3 DEF GrMet
    <2>3. CASE read.versions # <<>>
      <3>1. DOMAIN versions1[read1.id] = {}
        BY <1>3, <2>1
      <3> QED BY <2>3, <3>1, <1>3 DEF GrGone
    <2> QED BY <2>2, <2>3
  <1>10. /\ read.fact.anchor <= changes + 1
         /\ read.versions # <<>> => read.versions[1] <= changes + 1
    BY <1>5
  <1>11. <<facts1[read.id], versions1[read.id]>> \in read1.during
    BY <1>3 DEF pair
  <1>12. read.at = "again" => GrMet(read) \/ facts[read.id] # read.fact \/ GrGone(read, versions)
    BY DEF GrHistoryOK
  <1>13. read.at = "versionsAgain" => GrMet(read) \/ GrGone(read, versions)
    BY DEF GrHistoryOK
  <1> QED BY <1>3, <1>7, <1>8, <1>9, <1>10, <1>11, <1>12, <1>13 DEF GrHistoryOK, read1

\* What a read saw grows with what its reader sees.
LEMMA GrSeenKeeps ==
  ASSUME NEW read \in GrKinds, read.at \in {"edges", "ends", "vectors"}, NEW facts, NEW facts1, GrSeenOK(read, facts),
         NEW read1, read1 = [read EXCEPT !.seen = @ \cup GrSeenNow(facts1, read.reader)]
  PROVE  read1 \in GrKinds /\ read1.at = read.at /\ GrSeenOK(read1, facts1)
  <1> DEFINE now == GrSeenNow(facts1, read.reader)
  <1>1. now \subseteq GrIds
    BY DEF GrSeenNow
  <1> HIDE DEF now
  <1>2. CASE read.at = "edges"
    <2>1. read \in GrEdges /\ read1 = [read EXCEPT !.seen = @ \cup now]
      BY <1>2, GrReadKinds DEF now
    <2>2. /\ read1 \in GrEdges /\ read1.at = read.at /\ read1.id = read.id /\ read1.reader = read.reader
          /\ read1.seen = read.seen \cup now
      BY <1>1, <2>1 DEF GrEdges
    <2> QED BY <1>2, <2>2 DEF GrSeenOK, GrKinds, now
  <1>3. CASE read.at = "ends"
    <2>1. read \in GrEnds /\ read1 = [read EXCEPT !.seen = @ \cup now]
      BY <1>3, GrReadKinds DEF now
    <2>2. /\ read1 \in GrEnds /\ read1.at = read.at /\ read1.id = read.id /\ read1.reader = read.reader
          /\ read1.out = read.out /\ read1.seen = read.seen \cup now
      BY <1>1, <2>1 DEF GrEnds
    <2> QED BY <1>3, <2>2 DEF GrSeenOK, GrKinds, now
  <1>4. CASE read.at = "vectors"
    <2>1. read \in GrVectors /\ read1 = [read EXCEPT !.seen = @ \cup now]
      BY <1>4, GrReadKinds DEF now
    <2>2. /\ read1 \in GrVectors /\ read1.at = read.at /\ read1.reader = read.reader
          /\ read1.visible = read.visible /\ read1.seen = read.seen \cup now
      BY <1>1, <2>1 DEF GrVectors
    <2> QED BY <1>4, <2>2 DEF GrSeenOK, GrKinds, now
  <1> QED BY <1>2, <1>3, <1>4

\* No change of a fact lets a read go wrong.
LEMMA GrChangeKeeps ==
  ASSUME GrInv, NEW i \in GrIds, NEW fact, NEW versions, GrChangeFits(i, fact, versions), Reads!GrChange(i, fact, versions)
  PROVE  GrInv'
  <1>1. /\ grFacts' = [grFacts EXCEPT ![i] = fact] /\ grVersions' = [grVersions EXCEPT ![i] = versions]
        /\ grChanges' = grChanges + 1 /\ grEdges' \subseteq grEdges /\ UNCHANGED <<grCopy, grAnswer>>
        /\ Reads!Witness(grFacts', grVersions')
    BY DEF Reads!GrChange
  <1>2. /\ grFacts' \in [GrIds -> GrHeld] /\ grVersions' \in [GrIds -> Seq(Nat)] /\ grChanges' \in Nat
        /\ GrStamped(grFacts', grVersions', grChanges')
        /\ grFacts'[i] = fact /\ grVersions'[i] = versions
        /\ \A j \in GrIds \ {i} : grFacts'[j] = grFacts[j] /\ grVersions'[j] = grVersions[j]
        /\ \A k \in DOMAIN versions : \/ k \in DOMAIN grVersions[i] /\ versions[k] = grVersions[i][k]
                                      \/ versions[k] = grChanges + 1
    BY <1>1, GrStampsGo
  <1>3. /\ grRead \in GrKinds /\ grChanges \in Nat /\ grEdges' \subseteq GrLinks /\ grCopy' \in GrCopies
        /\ GrHistoryOK(grRead, grFacts, grVersions, grChanges) /\ GrSeenOK(grRead, grFacts)
    BY <1>1 DEF GrInv, GrTypes, GrReadOK
  <1>4. grRead' \in GrKinds /\ GrHistoryOK(grRead', grFacts', grVersions', grChanges') /\ GrSeenOK(grRead', grFacts')
    <2>1. CASE grRead.at \in {"versions", "again", "versionsAgain"}
      <3>1. grRead \in GrHistory /\ grRead.id \in GrIds
        BY <1>3, <2>1, GrReadKinds DEF GrHistory
      <3>2. grRead' = GrSaw(grRead, grFacts', grVersions')
        BY <1>1, <2>1 DEF Reads!Witness, GrSaw
      <3>3. GrMoved(grRead.id, grFacts, grVersions, grFacts', grVersions', grChanges)
        BY <1>2, <3>1 DEF GrChangeFits, GrMoved
      <3>4. grRead.at # "moved" /\ grChanges \in Nat /\ GrHistoryOK(grRead, grFacts, grVersions, grChanges)
        BY <1>3, <2>1
      <3>5. grRead' \in GrHistory /\ GrHistoryOK(grRead', grFacts', grVersions', grChanges + 1)
        BY <3>1, <3>2, <3>3, <3>4, GrHistoryKeeps
      <3> QED BY <1>1, <3>5 DEF GrKinds, GrHistory, GrSeenOK
    <2>2. CASE grRead.at \in {"edges", "ends", "vectors"}
      <3>1. grRead' = [grRead EXCEPT !.seen = @ \cup GrSeenNow(grFacts', grRead.reader)]
        BY <1>1, <2>2 DEF Reads!Witness, GrSeenNow
      <3>2. grRead' \in GrKinds /\ grRead'.at = grRead.at /\ GrSeenOK(grRead', grFacts')
        BY <1>3, <2>2, <3>1, GrSeenKeeps
      <3> QED BY <2>2, <3>2 DEF GrHistoryOK
    <2>3. CASE grRead.at \notin {"versions", "again", "versionsAgain", "edges", "ends", "vectors"}
      <3>1. grRead' = grRead
        BY <1>1, <2>3 DEF Reads!Witness
      <3> QED BY <1>3, <2>3, <3>1 DEF GrHistoryOK, GrSeenOK
    <2> QED BY <2>1, <2>2, <2>3
  <1>5. GrAnswerOK'
    BY <1>1 DEF GrInv, GrAnswerOK, Reads!HistoryAsJudged, Reads!NoHiddenFactTold, Reads!ExportsWithinReads, Reads!GrSees,
                Reads!Present, Reads!View, Reads!PersonalRead, Reads!AuditRead, Reads!AuditExport, Reads!WeakHidden,
                Reads!Redacted
  <1> QED BY <1>2, <1>3, <1>4, <1>5 DEF GrInv, GrTypes, GrReadOK

\* Nor does a change of anything else.
LEMMA GrOtherKeeps ==
  ASSUME GrInv, grChanges' \in {grChanges, grChanges + 1}, grEdges' \subseteq GrLinks,
         UNCHANGED <<grFacts, grVersions, grCopy, grRead, grAnswer>>
  PROVE  GrInv'
  <1>1. GrTypes'
    BY DEF GrInv, GrTypes
  <1>2. /\ \A i \in GrIds : /\ grFacts[i] # Reads!Absent => (grFacts[i].anchor \in Nat /\ grFacts[i].anchor <= grChanges)
                            /\ \A k \in DOMAIN grVersions[i] : grVersions[i][k] \in Nat /\ grVersions[i][k] <= grChanges
        /\ grChanges \in Nat
    <2>1. grChanges \in Nat /\ GrStamped(grFacts, grVersions, grChanges)
      BY DEF GrInv, GrTypes
    <2>2. ASSUME NEW i \in GrIds PROVE grFacts[i] \in GrHeld /\ grVersions[i] \in Seq(Nat)
      BY DEF GrInv, GrTypes
    <2>3. \A i \in GrIds : grFacts[i] # Reads!Absent => grFacts[i].anchor \in Nat
      BY <2>2 DEF GrHeld, Reads!GrFact
    <2>4. \A i \in GrIds : \A k \in DOMAIN grVersions[i] : grVersions[i][k] \in Nat
      BY <2>2
    <2> QED BY <2>1, <2>3, <2>4 DEF GrStamped
  <1>3. GrStamped(grFacts', grVersions', grChanges')
    BY <1>2 DEF GrStamped
  <1>4. GrReadOK'
    <2>1. grRead \in GrKinds /\ GrHistoryOK(grRead, grFacts, grVersions, grChanges) /\ GrSeenOK(grRead, grFacts)
      BY DEF GrInv, GrTypes, GrReadOK
    <2>2. grRead.at \in {"versions", "again", "versionsAgain"} =>
            (grRead.fact.anchor \in Nat /\ (grRead.versions # <<>> => grRead.versions[1] \in Nat))
      <3> SUFFICES ASSUME grRead.at \in {"versions", "again", "versionsAgain"}
                   PROVE  grRead.fact.anchor \in Nat /\ (grRead.versions # <<>> => grRead.versions[1] \in Nat)
        OBVIOUS
      <3>1. grRead.fact \in Reads!GrFact /\ grRead.versions \in Seq(Nat)
        BY <2>1, GrReadKinds DEF GrHistory
      <3> QED BY <3>1 DEF Reads!GrFact
    <2>3. GrHistoryOK(grRead, grFacts, grVersions, grChanges')
      BY <1>2, <2>1, <2>2 DEF GrHistoryOK
    <2> QED BY <2>1, <2>3 DEF GrReadOK
  <1>5. GrAnswerOK'
    BY DEF GrInv, GrAnswerOK, Reads!HistoryAsJudged, Reads!NoHiddenFactTold, Reads!ExportsWithinReads, Reads!GrSees,
                Reads!Present, Reads!View, Reads!PersonalRead, Reads!AuditRead, Reads!AuditExport, Reads!WeakHidden,
                Reads!Redacted
  <1> QED BY <1>1, <1>3, <1>4, <1>5 DEF GrInv

LEMMA GrChangesKeep ==
  ASSUME GrInv, NEW r \in GrReaders, NEW i \in GrIds,
         \/ \E class \in {"Private", "Sensitive"} : Reads!Classify(r, i, class)
         \/ Reads!EraseFact(r, i)
         \/ Reads!ImportFact(r, i)
         \/ Reads!RestoreVersion(r, i)
         \/ Reads!KeepVector(r, i)
  PROVE  GrInv'
  <1>1. /\ grFacts \in [GrIds -> GrHeld] /\ grChanges \in Nat /\ grCopy \in GrCopies /\ grEdges \subseteq GrLinks
        /\ grFacts[i] # Reads!Absent => grFacts[i].anchor <= grChanges
    BY DEF GrInv, GrTypes, GrStamped
  <1>2. ASSUME NEW class \in {"Private", "Sensitive"}, Reads!Classify(r, i, class) PROVE GrInv'
    <2> DEFINE fact == [grFacts[i] EXCEPT !.class = class, !.anchor = grChanges + 1]
               versions == Append(grVersions[i], grChanges + 1)
    <2>1. grFacts[i] # Reads!Absent /\ Reads!GrChange(i, fact, versions)
      BY <1>2 DEF Reads!Classify, Reads!GrSees, Reads!Present
    <2>2. grFacts[i] \in Reads!GrFact
      BY <1>1, <2>1 DEF GrHeld
    <2>3. fact \in Reads!GrFact /\ fact.anchor = grChanges + 1
      <3> DEFINE put == [grFacts[i] EXCEPT !.class = class]
      <3>1. put \in Reads!GrFact
        BY <2>2 DEF Reads!GrFact
      <3>2. fact = [put EXCEPT !.anchor = grChanges + 1]
        OBVIOUS
      <3> HIDE DEF put, fact
      <3> QED BY <1>1, <3>1, <3>2 DEF Reads!GrFact
    <2> HIDE DEF fact
    <2>4. GrChangeFits(i, fact, versions)
      BY <1>1, <2>3 DEF GrChangeFits, GrHeld
    <2> QED BY <2>1, <2>4, GrChangeKeeps
  <1>3. CASE Reads!EraseFact(r, i)
    <2>1. Reads!GrChange(i, Reads!Absent, <<>>)
      BY <1>3 DEF Reads!EraseFact
    <2>2. GrChangeFits(i, Reads!Absent, <<>>)
      BY DEF GrChangeFits, GrHeld
    <2> QED BY <2>1, <2>2, GrChangeKeeps
  <1>4. CASE Reads!ImportFact(r, i)
    <2>1. Reads!GrChange(i, grCopy[i], <<>>)
      BY <1>4 DEF Reads!ImportFact
    <2>2. grCopy[i] \in GrHeld /\ (grCopy[i] # Reads!Absent => grCopy[i].anchor = 0)
      BY <1>1, CopiesAssumption DEF GrHeld
    <2>3. GrChangeFits(i, grCopy[i], <<>>)
      BY <1>1, <2>2 DEF GrChangeFits
    <2> QED BY <2>1, <2>3, GrChangeKeeps
  <1>5. CASE Reads!RestoreVersion(r, i)
    <2> DEFINE versions == Append(grVersions[i], grChanges + 1)
    <2>1. grFacts[i] # Reads!Absent /\ Reads!GrChange(i, grFacts[i], versions)
      BY <1>5 DEF Reads!RestoreVersion, Reads!GrSees, Reads!Present
    <2>2. grFacts[i] \in GrHeld /\ grFacts[i].anchor \in Nat
      BY <1>1, <2>1 DEF GrHeld, Reads!GrFact
    <2>3. GrChangeFits(i, grFacts[i], versions)
      BY <1>1, <2>1, <2>2 DEF GrChangeFits
    <2> QED BY <2>1, <2>3, GrChangeKeeps
  <1>6. CASE Reads!KeepVector(r, i)
    <2>1. /\ grChanges' = grChanges + 1 /\ grEdges' = grEdges
          /\ UNCHANGED <<grFacts, grVersions, grCopy, grRead, grAnswer>>
      BY <1>6 DEF Reads!KeepVector, Reads!GrLinkChange
    <2> QED BY <1>1, <2>1, GrOtherKeeps
  <1> QED BY <1>2, <1>3, <1>4, <1>5, <1>6

LEMMA GrLinksKeep ==
  ASSUME GrInv, \/ \E r \in GrReaders, e \in GrLinks : Reads!AddEdge(r, e) \/ Reads!DeleteEdge(r, e)
                \/ Reads!SetLock
  PROVE  GrInv'
  <1>1. grEdges \subseteq GrLinks
    BY DEF GrInv, GrTypes
  <1>2. ASSUME NEW r \in GrReaders, NEW e \in GrLinks, Reads!AddEdge(r, e) \/ Reads!DeleteEdge(r, e) PROVE GrInv'
    <2>1. /\ grChanges' = grChanges + 1 /\ grEdges' \subseteq GrLinks
          /\ UNCHANGED <<grFacts, grVersions, grCopy, grRead, grAnswer>>
      BY <1>1, <1>2 DEF Reads!AddEdge, Reads!DeleteEdge, Reads!GrLinkChange
    <2> QED BY <2>1, GrOtherKeeps
  <1>3. CASE Reads!SetLock
    <2>1. /\ grChanges' = grChanges + 1 /\ grEdges' \subseteq GrLinks
          /\ UNCHANGED <<grFacts, grVersions, grCopy, grRead, grAnswer>>
      BY <1>1, <1>3 DEF Reads!SetLock
    <2> QED BY <2>1, GrOtherKeeps
  <1> QED BY <1>2, <1>3

\* A step of a read that gives no answer, and one that gives one.
LEMMA GrGoesOn ==
  ASSUME GrInv, NEW read, grRead' = read, read \in GrKinds, GrHistoryOK(read, grFacts, grVersions, grChanges),
         GrSeenOK(read, grFacts), UNCHANGED <<grFacts, grVersions, grEdges, grCopy, grAnswer, grChanges>>
  PROVE  GrInv'
  <1>1. GrAnswerOK'
    BY DEF GrInv, GrAnswerOK, Reads!HistoryAsJudged, Reads!NoHiddenFactTold, Reads!ExportsWithinReads, Reads!GrSees,
                Reads!Present, Reads!View, Reads!PersonalRead, Reads!AuditRead, Reads!AuditExport, Reads!WeakHidden,
                Reads!Redacted
  <1> QED BY <1>1 DEF GrInv, GrTypes, GrStamped, GrReadOK

LEMMA GrIsGiven ==
  ASSUME GrInv, grRead' \in {Reads!NoRead, grRead}, GrAnswerOK',
         UNCHANGED <<grFacts, grVersions, grEdges, grCopy, grChanges>>
  PROVE  GrInv'
  <1>1. GrHistoryOK(grRead', grFacts, grVersions, grChanges) /\ GrSeenOK(grRead', grFacts) /\ grRead' \in GrKinds
    BY GrNoReadFits DEF GrInv, GrTypes, GrReadOK
  <1> QED BY <1>1 DEF GrInv, GrTypes, GrStamped, GrReadOK

\* An answer of no fact, and a page, are not about any of this.
LEMMA GrOtherAnswer ==
  ASSUME GrInv, NEW answer, Reads!GrAnswers(answer), answer.kind \in {"empty", "page"}
  PROVE  GrInv'
  <1>1. /\ grRead' = Reads!NoRead /\ grAnswer' = answer
        /\ UNCHANGED <<grFacts, grVersions, grEdges, grCopy, grChanges>>
    BY DEF Reads!GrAnswers
  <1>2. GrAnswerOK'
    BY <1>1 DEF GrAnswerOK, Reads!HistoryAsJudged, Reads!NoHiddenFactTold, Reads!ExportsWithinReads
  <1> QED BY <1>1, <1>2, GrIsGiven

LEMMA GrPagesKeep ==
  ASSUME GrInv,
         \/ \E r \in GrReaders, asked \in {"all", "label", "words"}, limit \in 1..2, after \in {0} \cup GrIds :
              Reads!AskPage(r, asked, limit, after)
         \/ Reads!CheckCursor \/ Reads!ReadRows
  PROVE  GrInv'
  <1>1. grRead \in GrKinds
    BY DEF GrInv, GrTypes
  <1>2. ASSUME NEW read \in GrPaging PROVE /\ read \in GrKinds /\ GrSeenOK(read, grFacts)
                                           /\ GrHistoryOK(read, grFacts, grVersions, grChanges)
    BY DEF GrKinds, GrPaging, GrSeenOK, GrHistoryOK
  <1>3. ASSUME NEW r \in GrReaders, NEW asked \in {"all", "label", "words"}, NEW limit \in 1..2,
               NEW after \in {0} \cup GrIds, Reads!AskPage(r, asked, limit, after)
        PROVE  GrInv'
    <2>1. grRead' \in GrPaging /\ UNCHANGED <<grFacts, grVersions, grEdges, grCopy, grAnswer, grChanges>>
      BY <1>3 DEF Reads!AskPage, Reads!GrBegins, GrPaging
    <2> QED BY <1>2, <2>1, GrGoesOn
  <1>4. CASE Reads!CheckCursor
    <2>1. CASE Reads!GrAnswers([kind |-> "empty"])
      BY <2>1, GrOtherAnswer
    <2>2. CASE Reads!GrGoes([grRead EXCEPT !.at = "rows"])
      <3>1. grRead \in GrPaging
        BY <1>1, <1>4, GrReadKinds DEF Reads!CheckCursor
      <3>2. grRead' \in GrPaging /\ UNCHANGED <<grFacts, grVersions, grEdges, grCopy, grAnswer, grChanges>>
        BY <2>2, <3>1 DEF Reads!GrGoes, GrPaging
      <3> QED BY <1>2, <3>2, GrGoesOn
    <2> QED BY <1>4, <2>1, <2>2 DEF Reads!CheckCursor
  <1>5. CASE Reads!ReadRows
    <2>1. ASSUME NEW page, Reads!PageAnswer(grRead, page) PROVE GrInv'
      BY <2>1, GrOtherAnswer DEF Reads!PageAnswer
    <2>2. CASE Reads!GrGoes([grRead EXCEPT !.ask = 2 * @])
      <3>1. grRead \in GrPaging
        BY <1>1, <1>5, GrReadKinds DEF Reads!ReadRows
      <3>2. grRead' \in GrPaging /\ UNCHANGED <<grFacts, grVersions, grEdges, grCopy, grAnswer, grChanges>>
        BY <2>2, <3>1 DEF Reads!GrGoes, GrPaging
      <3> QED BY <1>2, <3>2, GrGoesOn
    <2>3. (\E page : Reads!PageAnswer(grRead, page)) \/ Reads!GrGoes([grRead EXCEPT !.ask = 2 * @])
      BY <1>5 DEF Reads!ReadRows
    <2> QED BY <2>1, <2>2, <2>3
  <1> QED BY <1>3, <1>4, <1>5

LEMMA GrHistoriesKeep ==
  ASSUME GrInv,
         \/ \E r \in GrReaders, i \in GrIds : Reads!AskHistory(r, i)
         \/ Reads!ReadFact \/ Reads!ReadVersions \/ Reads!ReadFactAgain \/ Reads!ReadVersionsAgain
  PROVE  GrInv'
  <1>1. /\ grRead \in GrKinds /\ grFacts \in [GrIds -> GrHeld] /\ grVersions \in [GrIds -> Seq(Nat)] /\ grChanges \in Nat
        /\ GrHistoryOK(grRead, grFacts, grVersions, grChanges)
        /\ GrStamped(grFacts, grVersions, grChanges)
    BY DEF GrInv, GrTypes, GrReadOK
  <1>2. ASSUME NEW read \in GrFirst PROVE /\ read \in GrKinds /\ GrSeenOK(read, grFacts)
                                          /\ GrHistoryOK(read, grFacts, grVersions, grChanges)
    BY DEF GrKinds, GrFirst, GrSeenOK, GrHistoryOK
  <1>3. ASSUME NEW read \in GrHistory PROVE read \in GrKinds /\ GrSeenOK(read, grFacts)
    BY DEF GrKinds, GrHistory, GrSeenOK
  <1>4. Reads!Withheld => GrInv'
    BY GrOtherAnswer DEF Reads!Withheld
  <1>5. ASSUME NEW r \in GrReaders, NEW i \in GrIds, Reads!AskHistory(r, i) PROVE GrInv'
    <2>1. grRead' \in GrFirst /\ UNCHANGED <<grFacts, grVersions, grEdges, grCopy, grAnswer, grChanges>>
      BY <1>5 DEF Reads!AskHistory, Reads!GrBegins, GrFirst
    <2> QED BY <1>2, <2>1, GrGoesOn
  <1>6. CASE Reads!ReadFact
    <2>1. CASE grFacts[grRead.id] # Reads!Absent
      <3> DEFINE i == grRead.id
      <3>1. grRead.reader \in GrReaders /\ i \in GrIds /\ grRead.try \in Nat
        BY <1>1, <1>6, GrReadKinds DEF Reads!ReadFact, GrFirst
      <3>2. grFacts[i] \in Reads!GrFact /\ grVersions[i] \in Seq(Nat) /\ grFacts[i].anchor <= grChanges
        BY <1>1, <2>1, <3>1 DEF GrHeld, GrStamped
      <3>3. /\ grRead' = [at |-> "versions", reader |-> grRead.reader, id |-> i, try |-> grRead.try,
                          fact |-> grFacts[i], versions |-> <<>>, during |-> {<<grFacts[i], grVersions[i]>>}]
            /\ UNCHANGED <<grFacts, grVersions, grEdges, grCopy, grAnswer, grChanges>>
        BY <1>6, <2>1 DEF Reads!ReadFact, Reads!GrGoes
      <3> HIDE DEF i
      <3>4. grRead' \in GrHistory
        <4> DEFINE pairs == SUBSET (GrHeld \X Seq(Nat)) now == {<<grFacts[i], grVersions[i]>>} stamps == Seq(Nat)
        <4>1. now \in pairs /\ <<>> \in stamps
          BY <3>2 DEF GrHeld
        <4>2. grRead' = [at |-> "versions", reader |-> grRead.reader, id |-> i, try |-> grRead.try,
                         fact |-> grFacts[i], versions |-> <<>>, during |-> now]
          BY <3>3
        <4> HIDE DEF pairs, now, stamps
        <4>3. grRead' \in [at : {"versions", "again", "versionsAgain", "moved"}, reader : GrReaders, id : GrIds, try : Nat,
                           fact : Reads!GrFact, versions : stamps, during : pairs]
          BY <3>1, <3>2, <4>1, <4>2 DEF i
        <4> QED BY <4>3 DEF GrHistory, pairs, stamps
      <3>5. GrHistoryOK(grRead', grFacts, grVersions, grChanges)
        BY <3>2, <3>3 DEF GrHistoryOK
      <3> QED BY <1>3, <3>3, <3>4, <3>5, GrGoesOn
    <2> QED BY <1>4, <1>6, <2>1 DEF Reads!ReadFact
  <1>7. CASE Reads!ReadVersions
    <2>1. grRead \in GrHistory /\ grRead.at = "versions"
      BY <1>1, <1>7, GrReadKinds DEF Reads!ReadVersions
    <2> DEFINE versions == grVersions[grRead.id] asked == [grRead EXCEPT !.at = "again"]
    <2>2. /\ grRead' = [asked EXCEPT !.versions = versions]
          /\ UNCHANGED <<grFacts, grVersions, grEdges, grCopy, grAnswer, grChanges>>
      BY <1>7 DEF Reads!ReadVersions, Reads!GrGoes
    <2>3. /\ grRead.id \in GrIds /\ versions \in Seq(Nat)
          /\ (versions # <<>> => versions[1] <= grChanges)
      <3>1. grRead.id \in GrIds
        BY <2>1 DEF GrHistory
      <3>2. versions \in Seq(Nat) /\ \A k \in DOMAIN versions : versions[k] <= grChanges
        BY <1>1, <3>1 DEF GrStamped
      <3> QED BY <3>1, <3>2
    <2>4. /\ asked \in GrHistory /\ asked.at = "again" /\ asked.id = grRead.id /\ asked.fact = grRead.fact
          /\ asked.during = grRead.during
      BY <2>1 DEF GrHistory
    <2> HIDE DEF asked, versions
    <2>5. /\ grRead' \in GrHistory /\ grRead'.at = "again" /\ grRead'.id = grRead.id /\ grRead'.fact = grRead.fact
          /\ grRead'.versions = versions /\ grRead'.during = grRead.during
      BY <2>2, <2>3, <2>4 DEF GrHistory
    <2>6. grRead.fact.anchor <= grChanges /\ <<grFacts[grRead.id], versions>> \in grRead.during
      BY <1>1, <2>1 DEF GrHistoryOK, versions
    <2>7. GrMet(grRead') \/ grFacts[grRead.id] # grRead.fact
      BY <2>5, <2>6 DEF GrMet
    <2>8. GrHistoryOK(grRead', grFacts, grVersions, grChanges)
      BY <2>3, <2>5, <2>6, <2>7 DEF GrHistoryOK, versions
    <2> QED BY <1>3, <2>2, <2>5, <2>8, GrGoesOn
  <1>8. CASE Reads!ReadFactAgain
    <2>1. grRead \in GrHistory /\ grRead.at = "again"
      BY <1>1, <1>8, GrReadKinds DEF Reads!ReadFactAgain
    <2> DEFINE at == IF grFacts[grRead.id] = grRead.fact THEN "versionsAgain" ELSE "moved"
    <2>2. grRead' = [grRead EXCEPT !.at = at] /\ UNCHANGED <<grFacts, grVersions, grEdges, grCopy, grAnswer, grChanges>>
      BY <1>8 DEF Reads!ReadFactAgain, Reads!GrGoes
    <2>3. /\ grRead' \in GrHistory /\ grRead'.at = at /\ grRead'.id = grRead.id /\ grRead'.fact = grRead.fact
          /\ grRead'.versions = grRead.versions /\ grRead'.during = grRead.during
      BY <2>1, <2>2 DEF GrHistory
    <2>4. /\ grRead.fact.anchor <= grChanges /\ (grRead.versions # <<>> => grRead.versions[1] <= grChanges)
          /\ <<grFacts[grRead.id], grVersions[grRead.id]>> \in grRead.during
          /\ GrMet(grRead) \/ grFacts[grRead.id] # grRead.fact \/ GrGone(grRead, grVersions)
      BY <1>1, <2>1 DEF GrHistoryOK
    <2>5. at = "versionsAgain" => GrMet(grRead') \/ GrGone(grRead', grVersions)
      BY <2>3, <2>4 DEF GrMet, GrGone
    <2>6. GrHistoryOK(grRead', grFacts, grVersions, grChanges)
      BY <2>3, <2>4, <2>5 DEF GrHistoryOK
    <2> QED BY <1>3, <2>2, <2>3, <2>6, GrGoesOn
  <1>9. CASE Reads!ReadVersionsAgain
    <2>1. grRead \in GrHistory /\ grRead.at \in {"versionsAgain", "moved"}
      BY <1>1, <1>9, GrReadKinds DEF Reads!ReadVersionsAgain
    <2>2. CASE grRead.at = "moved" \/ grVersions[grRead.id] # grRead.versions
      <3>1. Reads!Again
        BY <1>9, <2>2 DEF Reads!ReadVersionsAgain
      <3>2. CASE grRead.try # GrTries
        <4>1. grRead' \in GrFirst /\ UNCHANGED <<grFacts, grVersions, grEdges, grCopy, grAnswer, grChanges>>
          BY <2>1, <3>1, <3>2 DEF Reads!Again, Reads!GrGoes, GrFirst, GrHistory
        <4> QED BY <1>2, <4>1, GrGoesOn
      <3> QED BY <1>4, <3>1, <3>2 DEF Reads!Again
    <2>3. CASE grRead.at = "versionsAgain" /\ grVersions[grRead.id] = grRead.versions
      <3>1. GrMet(grRead)
        <4>1. GrMet(grRead) \/ GrGone(grRead, grVersions)
          BY <1>1, <2>3 DEF GrHistoryOK
        <4>2. ~GrGone(grRead, grVersions)
          <5>1. grRead.versions \in Seq(Nat)
            BY <2>1 DEF GrHistory
          <5>2. grRead.versions # <<>> => 1 \in DOMAIN grRead.versions
            BY <5>1
          <5> QED BY <2>3, <5>2 DEF GrGone
        <4> QED BY <4>1, <4>2
      <3>2. CASE Reads!View(grRead.fact, grRead.reader, "recall") # "whole"
        BY <1>4, <1>9, <2>3, <3>2 DEF Reads!ReadVersionsAgain
      <3>3. CASE Reads!View(grRead.fact, grRead.reader, "recall") = "whole"
        <4>1. /\ grAnswer' = [kind |-> "history", reader |-> grRead.reader, fact |-> grRead.fact,
                              versions |-> grRead.versions, during |-> grRead.during]
              /\ grRead' = Reads!NoRead /\ UNCHANGED <<grFacts, grVersions, grEdges, grCopy, grChanges>>
          BY <1>9, <2>3, <3>3 DEF Reads!ReadVersionsAgain, Reads!GrAnswers
        <4>2. Reads!HistoryAsJudged'
          <5>1. /\ <<grAnswer'.fact, grAnswer'.versions>> \in grAnswer'.during
                /\ Reads!View(grAnswer'.fact, grAnswer'.reader, "recall") = "whole"
            BY <3>1, <3>3, <4>1 DEF GrMet
          <5> QED BY <5>1 DEF Reads!HistoryAsJudged, Reads!View, Reads!PersonalRead, Reads!AuditRead, Reads!AuditExport,
                              Reads!WeakHidden, Reads!Redacted
        <4>3. GrAnswerOK'
          BY <4>1, <4>2 DEF GrAnswerOK, Reads!NoHiddenFactTold, Reads!ExportsWithinReads
        <4> QED BY <4>1, <4>3, GrIsGiven
      <3> QED BY <3>2, <3>3
    <2> QED BY <2>1, <2>2, <2>3
  <1> QED BY <1>5, <1>6, <1>7, <1>8, <1>9

LEMMA GrEdgesKeep ==
  ASSUME GrInv,
         \/ \E r \in GrReaders, i \in GrIds : Reads!AskEdges(r, i)
         \/ Reads!ReadOwnEnd \/ Reads!ReadEdges \/ Reads!ReadOtherEnd
  PROVE  GrInv'
  <1>1. /\ grRead \in GrKinds /\ grEdges \subseteq GrLinks /\ GrSeenOK(grRead, grFacts)
    BY DEF GrInv, GrTypes, GrReadOK
  <1>2. ASSUME NEW r \in GrReaders, NEW i \in GrIds, Reads!AskEdges(r, i) PROVE GrInv'
    <2>1. /\ grRead' = [at |-> "own end", reader |-> r, id |-> i]
          /\ UNCHANGED <<grFacts, grVersions, grEdges, grCopy, grAnswer, grChanges>>
      BY <1>2 DEF Reads!AskEdges, Reads!GrBegins
    <2>2. grRead' \in GrKinds /\ GrSeenOK(grRead', grFacts) /\ GrHistoryOK(grRead', grFacts, grVersions, grChanges)
      BY <2>1 DEF GrKinds, GrOwnEnd, GrSeenOK, GrHistoryOK
    <2> QED BY <2>1, <2>2, GrGoesOn
  <1>3. CASE Reads!ReadOwnEnd
    <2>1. grRead.reader \in GrReaders /\ grRead.id \in GrIds
      BY <1>1, <1>3, GrReadKinds DEF Reads!ReadOwnEnd, GrOwnEnd
    <2>2. CASE Reads!GrSees(grFacts, grRead.id, grRead.reader)
      <3>1. /\ grRead' = [at |-> "edges", reader |-> grRead.reader, id |-> grRead.id, seen |-> GrSeenNow(grFacts, grRead.reader)]
            /\ UNCHANGED <<grFacts, grVersions, grEdges, grCopy, grAnswer, grChanges>>
        BY <1>3, <2>2 DEF Reads!ReadOwnEnd, Reads!GrGoes, GrSeenNow
      <3>2. GrSeenNow(grFacts, grRead.reader) \subseteq GrIds /\ grRead.id \in GrSeenNow(grFacts, grRead.reader)
        BY <2>1, <2>2 DEF GrSeenNow
      <3>3. grRead' \in GrEdges
        BY <2>1, <3>1, <3>2 DEF GrEdges
      <3>4. grRead' \in GrKinds /\ GrSeenOK(grRead', grFacts) /\ GrHistoryOK(grRead', grFacts, grVersions, grChanges)
        BY <3>1, <3>2, <3>3 DEF GrKinds, GrSeenOK, GrHistoryOK
      <3> QED BY <3>1, <3>4, GrGoesOn
    <2> QED BY <1>3, <2>2, GrOtherAnswer DEF Reads!ReadOwnEnd, Reads!Withheld
  <1>4. CASE Reads!ReadEdges
    <2>1. grRead \in GrEdges /\ grRead.at = "edges"
      BY <1>1, <1>4, GrReadKinds DEF Reads!ReadEdges
    <2>2. /\ grRead' = [at |-> "ends", reader |-> grRead.reader, id |-> grRead.id, seen |-> grRead.seen,
                        todo |-> {e \in grEdges : grRead.id \in e}, out |-> {}]
          /\ UNCHANGED <<grFacts, grVersions, grEdges, grCopy, grAnswer, grChanges>>
      BY <1>4 DEF Reads!ReadEdges, Reads!GrGoes
    <2>3. grRead' \in GrEnds
      BY <1>1, <2>1, <2>2 DEF GrEdges, GrEnds
    <2>4. GrSeenNow(grFacts, grRead.reader) \subseteq grRead.seen /\ grRead.id \in grRead.seen
      BY <1>1, <2>1 DEF GrSeenOK
    <2>5. grRead' \in GrKinds /\ GrSeenOK(grRead', grFacts) /\ GrHistoryOK(grRead', grFacts, grVersions, grChanges)
      BY <2>2, <2>3, <2>4 DEF GrKinds, GrSeenOK, GrHistoryOK
    <2> QED BY <2>2, <2>5, GrGoesOn
  <1>5. CASE Reads!ReadOtherEnd
    <2>1. grRead \in GrEnds /\ grRead.at = "ends"
      BY <1>1, <1>5, GrReadKinds DEF Reads!ReadOtherEnd
    <2>2. /\ GrSeenNow(grFacts, grRead.reader) \subseteq grRead.seen /\ grRead.id \in grRead.seen
          /\ UNION grRead.out \subseteq grRead.seen
      BY <1>1, <2>1 DEF GrSeenOK
    <2>3. CASE grRead.todo = {}
      <3>1. /\ grAnswer' = [kind |-> "linked", ids |-> (UNION grRead.out) \cup {grRead.id}, seen |-> grRead.seen]
            /\ grRead' = Reads!NoRead /\ UNCHANGED <<grFacts, grVersions, grEdges, grCopy, grChanges>>
        BY <1>5, <2>3 DEF Reads!ReadOtherEnd, Reads!GrAnswers
      <3>2. grAnswer'.kind = "linked" /\ grAnswer'.ids \subseteq grAnswer'.seen
        <4> DEFINE ids == (UNION grRead.out) \cup {grRead.id}
        <4>1. ids \subseteq grRead.seen
          BY <2>2
        <4>2. grAnswer' = [kind |-> "linked", ids |-> ids, seen |-> grRead.seen]
          BY <3>1
        <4> HIDE DEF ids
        <4> QED BY <4>1, <4>2
      <3>3. GrAnswerOK'
        BY <3>2 DEF GrAnswerOK, Reads!HistoryAsJudged, Reads!NoHiddenFactTold, Reads!ExportsWithinReads
      <3> QED BY <3>1, <3>3, GrIsGiven
    <2>4. CASE grRead.todo # {}
      <3> DEFINE shown(e) == \A i \in e \ {grRead.id} : Reads!GrSees(grFacts, i, grRead.reader)
      <3>1. PICK e \in grRead.todo :
              /\ grRead' = [grRead EXCEPT !.todo = @ \ {e}, !.out = IF shown(e) THEN @ \cup {e} ELSE @]
              /\ UNCHANGED <<grFacts, grVersions, grEdges, grCopy, grAnswer, grChanges>>
        BY <1>5, <2>4 DEF Reads!ReadOtherEnd, Reads!GrGoes
      <3> DEFINE todo == grRead.todo \ {e} out == IF shown(e) THEN grRead.out \cup {e} ELSE grRead.out
                 less == [grRead EXCEPT !.todo = todo]
      <3>2. todo \subseteq GrLinks /\ out \subseteq GrLinks
        BY <2>1 DEF GrEnds
      <3>3. UNION out \subseteq grRead.seen
        <4>1. CASE shown(e)
          <5>1. ASSUME NEW i \in e PROVE i \in grRead.seen
            <6>1. CASE i = grRead.id
              BY <2>2, <6>1
            <6>2. CASE i # grRead.id
              <7>1. i \in GrSeenNow(grFacts, grRead.reader)
                BY <4>1, <6>2 DEF GrSeenNow, Reads!GrSees, Reads!Present
              <7> QED BY <2>2, <7>1
            <6> QED BY <6>1, <6>2
          <5> QED BY <2>2, <4>1, <5>1
        <4> QED BY <2>2, <4>1
      <3>4. /\ less \in GrEnds /\ less.at = "ends" /\ less.id = grRead.id /\ less.reader = grRead.reader
            /\ less.seen = grRead.seen
        BY <2>1, <3>2 DEF GrEnds
      <3>5. grRead' = [less EXCEPT !.out = out]
        BY <3>1
      <3> HIDE DEF todo, out, less
      <3>6. /\ grRead' \in GrEnds /\ grRead'.at = "ends" /\ grRead'.id = grRead.id /\ grRead'.reader = grRead.reader
            /\ grRead'.seen = grRead.seen /\ grRead'.out = out
        BY <3>2, <3>4, <3>5 DEF GrEnds
      <3>7. grRead' \in GrKinds /\ GrSeenOK(grRead', grFacts) /\ GrHistoryOK(grRead', grFacts, grVersions, grChanges)
        BY <2>2, <3>3, <3>6 DEF GrKinds, GrSeenOK, GrHistoryOK
      <3> QED BY <3>1, <3>7, GrGoesOn
    <2> QED BY <2>3, <2>4
  <1> QED BY <1>2, <1>3, <1>4, <1>5

LEMMA GrVectorsKeep ==
  ASSUME GrInv, (\E r \in GrReaders : Reads!AskVectors(r)) \/ Reads!ReadVectors
  PROVE  GrInv'
  <1>1. grRead \in GrKinds /\ GrSeenOK(grRead, grFacts)
    BY DEF GrInv, GrTypes, GrReadOK
  <1>2. ASSUME NEW r \in GrReaders, Reads!AskVectors(r) PROVE GrInv'
    <2> DEFINE visible == GrSeenNow(grFacts, r)
    <2>1. /\ grRead' = [at |-> "vectors", reader |-> r, visible |-> visible, seen |-> visible]
          /\ UNCHANGED <<grFacts, grVersions, grEdges, grCopy, grAnswer, grChanges>>
      BY <1>2 DEF Reads!AskVectors, Reads!GrBegins, GrSeenNow
    <2>2. visible \subseteq GrIds
      BY DEF GrSeenNow
    <2>3. grRead' \in GrVectors
      BY <2>1, <2>2 DEF GrVectors
    <2>4. grRead' \in GrKinds /\ GrSeenOK(grRead', grFacts) /\ GrHistoryOK(grRead', grFacts, grVersions, grChanges)
      BY <2>1, <2>3 DEF GrKinds, GrSeenOK, GrHistoryOK
    <2> QED BY <2>1, <2>4, GrGoesOn
  <1>3. CASE Reads!ReadVectors
    <2>1. /\ grAnswer' = [kind |-> "linked", ids |-> grVectors \cap grRead.visible, seen |-> grRead.seen]
          /\ grRead' = Reads!NoRead /\ UNCHANGED <<grFacts, grVersions, grEdges, grCopy, grChanges>>
          /\ grRead.at = "vectors"
      BY <1>3 DEF Reads!ReadVectors, Reads!GrAnswers
    <2>2. grRead.visible \subseteq grRead.seen
      BY <1>1, <2>1 DEF GrSeenOK
    <2>3. GrAnswerOK'
      BY <2>1, <2>2 DEF GrAnswerOK, Reads!HistoryAsJudged, Reads!NoHiddenFactTold, Reads!ExportsWithinReads
    <2> QED BY <2>1, <2>3, GrIsGiven
  <1> QED BY <1>2, <1>3

\* Who may export a fact may read it, and who may export all of it may read all.
LEMMA GrExportsAreReads ==
  ASSUME NEW fact, NEW r
  PROVE  /\ Reads!View(fact, r, "export") # "hidden" => Reads!View(fact, r, "recall") # "hidden"
         /\ Reads!View(fact, r, "export") = "whole" => Reads!View(fact, r, "recall") = "whole"
  BY DEF Reads!View, Reads!AuditExport, Reads!AuditRead

LEMMA GrExportsKeep ==
  ASSUME GrInv, \E r \in GrReaders : Reads!Export(r) \/ Reads!SnapshotAsOf(r)
  PROVE  GrInv'
  <1>1. PICK r \in GrReaders : Reads!Export(r) \/ Reads!SnapshotAsOf(r)
    OBVIOUS
  <1>2. PICK ids, versions, links :
          /\ grAnswer' = [kind |-> "export", reader |-> r, ids |-> ids, versions |-> versions, links |-> links,
                          facts |-> grFacts]
          /\ \A i \in ids : Reads!GrSees(grFacts, i, r)
          /\ \A i \in versions : Reads!View(grFacts[i], r, "recall") = "whole"
          /\ \A e \in links : e \subseteq ids
    <2>1. CASE Reads!Export(r)
      <3> DEFINE ids == {i \in Reads!Present(grFacts) : Reads!View(grFacts[i], r, "export") # "hidden"}
                 versions == {i \in ids : Reads!View(grFacts[i], r, "export") = "whole"}
                 links == {e \in grEdges : e \subseteq ids}
      <3>1. grAnswer' = [kind |-> "export", reader |-> r, ids |-> ids, versions |-> versions, links |-> links,
                         facts |-> grFacts]
        BY <2>1 DEF Reads!Export
      <3>2. /\ \A i \in ids : Reads!GrSees(grFacts, i, r)
            /\ \A i \in versions : Reads!View(grFacts[i], r, "recall") = "whole"
            /\ \A e \in links : e \subseteq ids
        BY GrExportsAreReads DEF Reads!GrSees
      <3> HIDE DEF ids, versions, links
      <3> QED BY <3>1, <3>2
    <2>2. CASE Reads!SnapshotAsOf(r)
      <3> DEFINE ids == {i \in Reads!Present(grFacts) : Reads!View(grFacts[i], r, "recall") = "whole"}
                 links == {e \in grEdges : e \subseteq ids}
      <3>1. grAnswer' = [kind |-> "export", reader |-> r, ids |-> ids, versions |-> ids, links |-> links,
                         facts |-> grFacts]
        BY <2>2 DEF Reads!SnapshotAsOf
      <3>2. /\ \A i \in ids : Reads!GrSees(grFacts, i, r)
            /\ \A i \in ids : Reads!View(grFacts[i], r, "recall") = "whole"
            /\ \A e \in links : e \subseteq ids
        BY DEF Reads!GrSees
      <3> HIDE DEF ids, links
      <3> QED BY <3>1, <3>2
    <2> QED BY <1>1, <2>1, <2>2
  <1>3. grRead' = grRead /\ UNCHANGED <<grFacts, grVersions, grEdges, grCopy, grChanges>>
    BY <1>1 DEF Reads!Export, Reads!SnapshotAsOf
  <1>4. Reads!ExportsWithinReads'
    <2>1. /\ \A i \in grAnswer'.ids : Reads!GrSees(grAnswer'.facts, i, grAnswer'.reader)
          /\ \A i \in grAnswer'.versions : Reads!View(grAnswer'.facts[i], grAnswer'.reader, "recall") = "whole"
          /\ \A e \in grAnswer'.links : e \subseteq grAnswer'.ids
      BY <1>2
    <2> QED BY <2>1 DEF Reads!ExportsWithinReads, Reads!GrSees, Reads!Present, Reads!View, Reads!PersonalRead,
                        Reads!AuditRead, Reads!AuditExport, Reads!WeakHidden, Reads!Redacted
  <1>5. GrAnswerOK'
    BY <1>2, <1>4 DEF GrAnswerOK, Reads!HistoryAsJudged, Reads!NoHiddenFactTold
  <1> QED BY <1>3, <1>5, GrIsGiven

LEMMA GrNextKeeps == GrInv /\ [Reads!GrNext]_ReadsVars => GrInv'
  <1> SUFFICES ASSUME GrInv, [Reads!GrNext]_ReadsVars PROVE GrInv'
    OBVIOUS
  <1>1. CASE UNCHANGED ReadsVars
    <2>1. grChanges' \in {grChanges, grChanges + 1} /\ grEdges' \subseteq GrLinks
      BY <1>1 DEF ReadsVars, GrInv, GrTypes
    <2> QED BY <1>1, <2>1, GrOtherKeeps DEF ReadsVars
  <1>2. ASSUME NEW r \in GrReaders, NEW i \in GrIds,
               \/ \E class \in {"Private", "Sensitive"} : Reads!Classify(r, i, class)
               \/ Reads!EraseFact(r, i)
               \/ Reads!ImportFact(r, i)
               \/ Reads!RestoreVersion(r, i) \/ Reads!KeepVector(r, i)
               \/ Reads!AskHistory(r, i) \/ Reads!AskEdges(r, i)
        PROVE  GrInv'
    BY <1>2, GrChangesKeep, GrHistoriesKeep, GrEdgesKeep
  <1>3. ASSUME NEW r \in GrReaders, Reads!Export(r) \/ Reads!SnapshotAsOf(r) \/ Reads!AskVectors(r) PROVE GrInv'
    BY <1>3, GrExportsKeep, GrVectorsKeep
  <1>4. (\/ \E r \in GrReaders, asked \in {"all", "label", "words"}, limit \in 1..2, after \in {0} \cup GrIds :
              Reads!AskPage(r, asked, limit, after)
         \/ Reads!CheckCursor \/ Reads!ReadRows) => GrInv'
    BY GrPagesKeep
  <1>5. ((\E r \in GrReaders, e \in GrLinks : Reads!AddEdge(r, e) \/ Reads!DeleteEdge(r, e)) \/ Reads!SetLock) => GrInv'
    BY GrLinksKeep
  <1>6. Reads!ReadFact \/ Reads!ReadVersions \/ Reads!ReadFactAgain \/ Reads!ReadVersionsAgain => GrInv'
    BY GrHistoriesKeep
  <1>7. Reads!ReadOwnEnd \/ Reads!ReadEdges \/ Reads!ReadOtherEnd \/ Reads!ReadVectors => GrInv'
    BY GrEdgesKeep, GrVectorsKeep
  <1> QED BY <1>1, <1>2, <1>3, <1>4, <1>5, <1>6, <1>7 DEF Reads!GrNext

\* A read in flight never holds a history that would pass for whole and is not,
\* nor an edge of a fact it has not seen, whatever changes between its calls.
THEOREM AnswersGrInv == Spec => [](part = "reads" => GrInv)
  <1>1. Init => (part = "reads" => GrInv)
    BY GrInitInv DEF Init
  <1>2. (part = "reads" => GrInv) /\ [Next]_vars => (part = "reads" => GrInv)'
    BY OnePartMoves, GrNextKeeps
  <1> QED BY <1>1, <1>2, PTL DEF Spec

\* A history that is given was whole at an instant of its read, with the fact the
\* policies judged; edges and vectors tell of no fact hidden all along; and an
\* export holds nothing its reader could not read: for any facts, readers, links
\* and number of tries, although facts are sealed, erased and imported between
\* the store calls of a read (src/governance/governed-store.ts:866-938).
THEOREM AnswersReadsAreAsJudged == Spec => []ReadsAreAsJudged
  <1>1. (part = "reads" => GrInv) => ReadsAreAsJudged
    BY DEF GrInv, GrAnswerOK, ReadsAreAsJudged
  <1> QED BY <1>1, AnswersGrInv, PTL
=============================================================================
