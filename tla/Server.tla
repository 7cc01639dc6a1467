-------------------------------- MODULE Server --------------------------------
(* The tool calls of the server that touch what it keeps for a connection:    *)
(* recall() with the pinned rules, pin(), unpin() and invalidate() of         *)
(* src/mcp/governance-server.ts, the rules of src/pinned.ts, and the          *)
(* connections of src/mcp/http-server.ts.                                     *)
(*                                                                          *)
(* Calls of several connections run at the same time over one store.  Each   *)
(* reads the store and acts on what it read in a later step: a recall on the *)
(* rules it rendered, the others on the fact as it was.                      *)
EXTENDS Naturals, Sequences, FiniteSets, SequencesExt

CONSTANTS SvSlots,      \* tool calls that may run at a time
          SvConnection, \* whose calls they are
          SvTexts,      \* what may be pinned
          SvSize,       \* how long each is
          SvBudget,     \* how much of the pinned tier a prompt has room for
          SvMaxShown,   \* the connections PinDeliveries remembers
          SvMaxChanges  \* bound: pins, removals and sign-ins

VARIABLES svFacts,  \* the pinned facts, oldest first: text, flag, whether current
          svCalls,  \* what each call is doing
          svShown,  \* PinDeliveries: what each connection was last shown, least recently seen first
          svTold,   \* the last pinned block each connection received
          svChanges

svVars == <<svFacts, svCalls, svShown, svTold, svChanges>>

Connections == {SvConnection[s] : s \in SvSlots}
Free == [at |-> "free"]
NoPins == [lines |-> <<>>, dropped |-> 0]

----------------------------------------------------------------------------
(* The tier *)

\* list(): the facts that carry the flag and are current.
InTier(i) == svFacts[i].flag /\ svFacts[i].current
Tier == SelectSeq([i \in DOMAIN svFacts |-> i], InTier)

\* render(): the newest first, each that still fits; the rest are counted.
Rendered ==
  FoldRight(LAMBDA i, block :
              LET used == FoldLeft(LAMBDA n, j : n + SvSize[svFacts[j].text], 0, block.lines) IN
              IF used + SvSize[svFacts[i].text] > SvBudget
                THEN [block EXCEPT !.dropped = @ + 1]
                ELSE [block EXCEPT !.lines = <<i>> \o @],
            Tier, NoPins)

\* take(): the block, unless this connection was last shown this very one.  An
\* empty tier is not remembered as shown.
ShownTo(c) == LET at == {i \in DOMAIN svShown : svShown[i].to = c} IN
              IF at = {} THEN NoPins ELSE svShown[CHOOSE i \in at : TRUE].block
Without(c) == SelectSeq(svShown, LAMBDA e : e.to # c)
Remembered(c, block) ==
  IF block = NoPins THEN Without(c)
  ELSE LET shown == Append(Without(c), [to |-> c, block |-> block]) IN
       IF Len(shown) > SvMaxShown THEN Tail(shown) ELSE shown

\* A variant that does not tell connections apart.
SentToAny(c, block) == IF \E i \in DOMAIN svShown : svShown[i].block = block THEN NoPins ELSE block

Sent(c, block) == IF ShownTo(c) = block THEN NoPins ELSE block

----------------------------------------------------------------------------
(* Tool calls *)

SvInit ==
  /\ svFacts = <<>>
  /\ svCalls = [s \in SvSlots |-> Free]
  /\ svShown = <<>>
  /\ svTold = [c \in Connections |-> NoPins]
  /\ svChanges = 0

Turns(s, step) == svCalls' = [svCalls EXCEPT ![s] = step]
Changing == svChanges < SvMaxChanges /\ svChanges' = svChanges + 1

\* recall(): the facts are found first, and a failure there ends the call.
RecallStarts(s) ==
  /\ svCalls[s] = Free
  /\ Turns(s, [at |-> "recalled"])
  /\ UNCHANGED <<svFacts, svShown, svTold, svChanges>>

RecallBreaks(s) ==
  /\ svCalls[s].at = "recalled"
  /\ Changing
  /\ Turns(s, Free)
  /\ UNCHANGED <<svFacts, svShown, svTold>>

RecallRenders(s) ==
  /\ svCalls[s].at = "recalled"
  /\ Turns(s, [at |-> "rendered", block |-> Rendered])
  /\ UNCHANGED <<svFacts, svShown, svTold, svChanges>>

\* What was shown is looked up and recorded in one step, and the call answered.
RecallAnswers(s) ==
  LET c == SvConnection[s]
      block == svCalls[s].block IN
  /\ svCalls[s].at = "rendered"
  /\ svShown' = Remembered(c, block)
  /\ svTold' = IF Sent(c, block) = NoPins THEN svTold ELSE [svTold EXCEPT ![c] = block]
  /\ Turns(s, Free)
  /\ UNCHANGED <<svFacts, svChanges>>

\* A connection signs in again: it starts anew.
SignsIn(c) ==
  /\ Changing
  /\ svShown' = Without(c)
  /\ UNCHANGED <<svFacts, svCalls, svTold>>

\* pin(): a rule of the same words in the tier is reinforced, else one is added.
PinReads(s, text) ==
  /\ svCalls[s] = Free
  /\ Changing
  /\ Turns(s, IF \E i \in DOMAIN svFacts : InTier(i) /\ svFacts[i].text = text THEN [at |-> "reinforce"] ELSE [at |-> "add", text |-> text])
  /\ UNCHANGED <<svFacts, svShown, svTold>>

PinReinforces(s) ==
  /\ svCalls[s].at = "reinforce"
  /\ Turns(s, Free)
  /\ UNCHANGED <<svFacts, svShown, svTold, svChanges>>

PinAdds(s) ==
  /\ svCalls[s].at = "add"
  /\ svFacts' = Append(svFacts, [text |-> svCalls[s].text, flag |-> TRUE, current |-> TRUE])
  /\ Turns(s, Free)
  /\ UNCHANGED <<svShown, svTold, svChanges>>

\* unpin() of what carries the flag, current or not; it clears the flag.
UnpinReads(s, i) ==
  /\ svCalls[s] = Free
  /\ Changing
  /\ svFacts[i].flag
  /\ Turns(s, [at |-> "close", fact |-> i, flag |-> FALSE])
  /\ UNCHANGED <<svFacts, svShown, svTold>>

\* invalidate() of what is current; it writes the labels back as they were read.
InvalidateReads(s, i) ==
  /\ svCalls[s] = Free
  /\ Changing
  /\ svFacts[i].current
  /\ Turns(s, [at |-> "close", fact |-> i, flag |-> svFacts[i].flag])
  /\ UNCHANGED <<svFacts, svShown, svTold>>

Closes(s) ==
  /\ svCalls[s].at = "close"
  /\ svFacts' = [svFacts EXCEPT ![svCalls[s].fact].current = FALSE, ![svCalls[s].fact].flag = svCalls[s].flag]
  /\ Turns(s, Free)
  /\ UNCHANGED <<svShown, svTold, svChanges>>

SvNext ==
  \/ \E s \in SvSlots :
       \/ RecallStarts(s)
       \/ RecallBreaks(s)
       \/ RecallRenders(s)
       \/ RecallAnswers(s)
       \/ \E text \in SvTexts : PinReads(s, text)
       \/ PinReinforces(s)
       \/ PinAdds(s)
       \/ \E i \in DOMAIN svFacts : UnpinReads(s, i) \/ InvalidateReads(s, i)
       \/ Closes(s)
  \/ \E c \in Connections : SignsIn(c)

\* Every connection goes on recalling, and a call that was made goes on.
SvFairness ==
  \A s \in SvSlots :
    /\ WF_svVars(RecallStarts(s))
    /\ WF_svVars(RecallRenders(s) \/ RecallAnswers(s) \/ PinReinforces(s) \/ PinAdds(s) \/ Closes(s))

SvSpec == SvInit /\ [][SvNext]_svVars /\ SvFairness

----------------------------------------------------------------------------
(* Properties *)

\* The type of the model's state.
SvTypeOK ==
  /\ \A i \in DOMAIN svFacts : svFacts[i].text \in SvTexts
  /\ \A s \in SvSlots : svCalls[s].at \in {"free", "recalled", "rendered", "reinforce", "add", "close"}
  /\ Len(svShown) <= SvMaxShown /\ \A c \in Connections : Cardinality({i \in DOMAIN svShown : svShown[i].to = c}) <= 1

\* Every connection that goes on recalling has, in the end, been sent the tier
\* as it is: not one an overtaken recall rendered before the last change, and
\* also when more connections come than are remembered, when it was empty at
\* first, and when a recall failed (governance-server.ts:402-419).
RulesReachEveryone ==
  <>[](\A c \in Connections : Rendered = NoPins \/ svTold[c] = Rendered)

\* A rule that was taken out of the tier is not in it again, whichever of two
\* calls that close it writes last and with the labels of which read.
UnpinnedStaysOut ==
  [][\A i \in DOMAIN svFacts : ~InTier(i) => ~(svFacts'[i].flag /\ svFacts'[i].current)]_svVars
============================================================================
