SPECIFICATION Spec
CONSTANTS
  Id = {"a", "b", "c"}
  Kept = {"FullRetention", "Archived"}
  Sources <- ChainAndJoin
  Grace = {TRUE, FALSE}
  Days = 1
  MaxNow = 1
INVARIANTS
  BinIsSound
  ReceiptIsTrue
PROPERTIES
  PurgesWhatIsDue
  ComesBackWhereItWas
CHECK_DEADLOCK FALSE
