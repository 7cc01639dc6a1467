--------------------------- MODULE MCGovernedStore ---------------------------
(***************************************************************************)
(* An instance of GovernedStore.  The owner may do everything; the agent   *)
(* sees facts that are not private and may change those, but may erase     *)
(* nothing, and so bin nothing.  What is written as a secret becomes       *)
(* private.                                                                *)
(* Fact "c" was concluded from fact "a".                                   *)
(***************************************************************************)
EXTENDS GovernedStore

Labels == {"open", "secret", "private", "binned"}
Chain == [n \in Id |-> IF n = "c" THEN {"a"} ELSE {}]
Visible == {"owner"} \X Labels \cup {<<"agent", "open">>, <<"agent", "binned">>}
Writable == Actor \X {"open", "secret"}
Shaping == [l \in Labels |-> IF l = "secret" THEN "private" ELSE l]
Updatable == ({"owner"} \X Labels \X Labels) \cup {<<"agent", "open", l>> : l \in Labels}
Erasable == {"owner"} \X Labels

Made(verb, target, label, ended) == [verb |-> verb, target |-> target, image |-> [label |-> label, ended |-> ended]]
ManyAsks == {
  Made("add", "a", "open", FALSE),
  Made("add", "c", "open", FALSE),
  Made("update", "a", "private", FALSE),
  Made("update", "a", "open", TRUE),
  Made("update", "a", "binned", FALSE),
  Made("restore", "c", "secret", FALSE),
  Made("erase", "a", "open", FALSE)}
FewAsks == {
  Made("add", "a", "open", FALSE),
  Made("update", "a", "private", FALSE),
  Made("erase", "a", "open", FALSE)}

RawWrites == {[target |-> "a", image |-> [label |-> l, ended |-> FALSE]] : l \in {"open", "private"}}

\* A store with its own table, which everyone reaches through governed handles;
\* and one with a sink beside it and someone who writes fact "a" through the
\* inner store, or removes it.
Own == [ownTable |-> TRUE, raw |-> {}, asks |-> ManyAsks, maxEvents |-> 3]
Beside == [ownTable |-> FALSE, raw |-> RawWrites, asks |-> FewAsks, maxEvents |-> 1]
BothSetups == {Own, Beside}

OneQueue == [q \in Queue |-> CHOOSE d \in Database : TRUE]
=============================================================================
