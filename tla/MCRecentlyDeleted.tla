-------------------------- MODULE MCRecentlyDeleted --------------------------
(* Instances of RecentlyDeleted: facts a and b, and what was concluded from   *)
(* one of them or both.                                                       *)
EXTENDS RecentlyDeleted

ChainAndJoin == [n \in Id |-> CASE n = "a" -> {{}} [] n = "b" -> {{}, {"a"}} [] n = "c" -> {{"b"}, {"a", "b"}}]
=============================================================================
