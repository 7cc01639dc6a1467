------------------------------- MODULE States -------------------------------
(* Where things stand now: src/state.ts.  A state is a fact filed under a   *)
(* key; recording one reads the live states of its key, adds the new one    *)
(* and then closes those it replaces, in separate calls of the store.  What *)
(* happens between those calls is other recordings.                         *)
EXTENDS Naturals, Sequences, FiniteSets

CONSTANTS StCallers,
          StKeys,      \* what stateKey() makes of a subject and an aspect
          StTexts,
          StTimes,     \* instants a state can begin at, a set of numbers > 0
          StMaxCalls   \* bound: calls

ASSUME StTimesAssumption == StTimes \subseteq Nat \ {0}

VARIABLES stStates,    \* every state, in the order they were added
          stCall,      \* what each caller is doing
          stCalls,
          stOverlapped \* whether two calls were ever in flight together

stVars == <<stStates, stCall, stCalls, stOverlapped>>

StIds == DOMAIN stStates
Open == 0      \* validTo of a live state
NoState == 0
Free == [at |-> "free"]

LiveStates == {i \in StIds : stStates[i].to = Open}
NewestOf(S) == {i \in S : \A j \in S : stStates[j].from <= stStates[i].from}
OldestOf(S) == {i \in S : \A j \in S : stStates[j].from >= stStates[i].from}

\* [validFrom, validTo), null = open.
HoldsAt(s, t) == s.from <= t /\ (s.to = Open \/ t < s.to)

----------------------------------------------------------------------------
(* The operations *)

StInit ==
  /\ stStates = <<>>
  /\ stCall = [c \in StCallers |-> Free]
  /\ stCalls = 0
  /\ stOverlapped = FALSE

Begins(c, call) ==
  /\ stCall[c] = Free
  /\ stCalls < StMaxCalls
  /\ stCalls' = stCalls + 1
  /\ stCall' = [stCall EXCEPT ![c] = call]
  /\ stOverlapped' = (stOverlapped \/ \E d \in StCallers \ {c} : stCall[d] # Free)
  /\ UNCHANGED stStates

Goes(c, call) == stCall' = [stCall EXCEPT ![c] = call] /\ UNCHANGED <<stCalls, stOverlapped>>

\* recordState(): the live states of the key are read.  The text the newest
\* of them has already, and nothing changes.
RecordState(c, key, text, when, replaces) ==
  LET live == {i \in LiveStates : stStates[i].key = key} IN
  Begins(c, IF \E i \in NewestOf(live) : stStates[i].text = text THEN Free
            ELSE [at |-> "read", key |-> key, text |-> text, when |-> when, replaces |-> replaces,
                  live |-> live, later |-> {i \in live : stStates[i].from > when}])

\* A variant that leaves a state open although a later one is recorded.
AddStateAsLast(c) ==
  LET call == stCall[c] IN
  /\ call.at = "read"
  /\ stStates' = Append(stStates, [key |-> call.key, text |-> call.text, from |-> call.when, to |-> Open, by |-> NoState])
  /\ Goes(c, [at |-> "added", node |-> Len(stStates) + 1, when |-> call.when, live |-> call.live,
              replaces |-> call.replaces])

\* The state is added: closed already if a later one was live, and then that
\* is all, or else open.
AddState(c) ==
  LET call == stCall[c]
      state(to, by) == [key |-> call.key, text |-> call.text, from |-> call.when, to |-> to, by |-> by]
  IN
  /\ call.at = "read"
  /\ IF call.later # {}
       THEN \E next \in OldestOf(call.later) :
              /\ stStates' = Append(stStates, state(stStates[next].from, next))
              /\ Goes(c, Free)
       ELSE /\ stStates' = Append(stStates, state(Open, NoState))
            /\ Goes(c, [at |-> "added", node |-> Len(stStates) + 1, when |-> call.when, live |-> call.live,
                        replaces |-> call.replaces])

\* The state the caller named counts if it is live and no later than the new.
Replaceable(i, when) == i \in LiveStates /\ stStates[i].from <= when

CheckNamed(c) ==
  LET call == stCall[c] IN
  /\ call.at = "added"
  /\ UNCHANGED stStates
  /\ Goes(c, [at |-> "closing", node |-> call.node, when |-> call.when,
              todo |-> {i \in call.live : stStates[i].from <= call.when}
                       \cup {i \in call.replaces : Replaceable(i, call.when)}])

\* One update each: the old state ends when the new one began.
Ends(i, node, when) == stStates' = [stStates EXCEPT ![i].to = when, ![i].by = node]

CloseState(c) ==
  LET call == stCall[c] IN
  /\ call.at = "closing"
  /\ IF call.todo = {} THEN UNCHANGED stStates /\ Goes(c, Free)
     ELSE \E i \in call.todo :
            /\ Ends(i, call.node, call.when)
            /\ Goes(c, [call EXCEPT !.todo = @ \ {i}])

\* supersedeState(): the two are read, one after the other, ...
SupersedeState(c, old, by) ==
  /\ old # by
  /\ Begins(c, [at |-> "one read", old |-> old, by |-> by, was |-> stStates[old]])

\* A variant that closes whatever is open.
MayCloseAny(old, by) == old.to = Open /\ by.to = Open

\* ... and the first ends when the second began, if both were live then.
MayClose(old, by) == old.to = Open /\ by.to = Open /\ by.from >= old.from

ReadReplacement(c) ==
  LET call == stCall[c]
      by == stStates[call.by]
  IN
  /\ call.at = "one read"
  /\ UNCHANGED stStates
  /\ Goes(c, IF MayClose(call.was, by)
               THEN [at |-> "closing", node |-> call.by, when |-> by.from, todo |-> {call.old}] ELSE Free)

StNext ==
  \E c \in StCallers :
    \/ \E key \in StKeys, text \in StTexts, when \in StTimes, S \in {{}} \cup {{i} : i \in StIds} :
         RecordState(c, key, text, when, S)
    \/ AddState(c)
    \/ CheckNamed(c)
    \/ CloseState(c)
    \/ \E old, by \in StIds : SupersedeState(c, old, by)
    \/ ReadReplacement(c)

StSpec == StInit /\ [][StNext]_stVars

----------------------------------------------------------------------------
(* Properties *)

\* The type of the states and the calls.
StTypeOK ==
  /\ \A i \in StIds : stStates[i].from \in StTimes /\ stStates[i].to \in StTimes \cup {Open} /\ stStates[i].by \in StIds \cup {NoState}
  /\ \A c \in StCallers : stCall[c].at \in {"free", "read", "added", "closing", "one read"}

\* Late news never overturns newer news, however recordings interleave: a
\* state that was closed was closed by one that began no earlier, and ends at
\* the very instant that one began (state.ts:18-19).
ClosedByNewer ==
  \A i \in StIds :
    stStates[i].to # Open =>
      stStates[i].by \in StIds /\ stStates[i].to = stStates[stStates[i].by].from /\ stStates[i].from <= stStates[i].to

Quiet == ~stOverlapped /\ \A c \in StCallers : stCall[c] = Free

\* When no two calls were ever in flight together, a key has one live state
\* at most: "ONE live memory per subject" (state.ts:2).
OneLivePerKey == Quiet => \A i, j \in LiveStates : stStates[i].key = stStates[j].key => i = j

\* ... and what replaced a state can be followed to where things stand now: no
\* closed states are closed by one another only.
LeadsToLive ==
  Quiet => \A S \in SUBSET StIds :
             (\A i \in S : stStates[i].to # Open /\ stStates[i].by \in S) => S = {}

\* "a valid-time read at any instant returns the state that held then": of a
\* key, one state at most holds at an instant.
OneHoldsAtAnyInstant ==
  Quiet => \A t \in StTimes, i, j \in StIds :
             stStates[i].key = stStates[j].key /\ HoldsAt(stStates[i], t) /\ HoldsAt(stStates[j], t) => i = j
============================================================================
