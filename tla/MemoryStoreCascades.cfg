SPECIFICATION Spec
CONSTANTS
  a = a
  b = b
  c = c
  l1 = l1
  Id = {a, b, c}
  LinkId = {}
  Model = {}
  Content = {"text"}
  Label = {l1}
  Event = {"modified"}
  Images <- CitingImages
  Clocks = {0}
  Exports = FALSE
  MaxMoment = 1
  MaxTrail = 2
INVARIANTS
  TypeOK
  HistoryJoinsUp
PROPERTIES
  ErasureTakesConclusions
  WithdrawalIsExact
CHECK_DEADLOCK FALSE
