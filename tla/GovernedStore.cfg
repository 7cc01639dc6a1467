SPECIFICATION FairSpec
CONSTANTS
  Id = {"a", "c"}
  Actor = {"owner", "agent"}
  Label <- Labels
  Binned = {"binned"}
  RestsOn <- Chain
  Sees <- Visible
  MayWrite <- Writable
  Shaped <- Shaping
  MayUpdate <- Updatable
  MayErase <- Erasable
  Call = {1, 2}
  Queue = {"q"}
  Database = {"d"}
  Of <- OneQueue
  Setups <- BothSetups
PROPERTIES
  Implements
  StopsOncePoisoned
  CallsTakeTurns
CHECK_DEADLOCK FALSE
