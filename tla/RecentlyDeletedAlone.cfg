SPECIFICATION Spec
CONSTANTS
  Id = {"a", "b", "c"}
  Kept = {"FullRetention", "Archived"}
  Sources <- ChainAndJoin
  Grace = {TRUE, FALSE}
  Days = 1
  MaxNow = 1
PROPERTIES
  NoneRestoredWhileItsFactWaits
CHECK_DEADLOCK FALSE
