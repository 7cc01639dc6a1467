SPECIFICATION Spec
CONSTANTS
  a = a
  b = b
  c = c
  l1 = l1
  Id = {a, b}
  LinkId = {e1}
  Model = {m1}
  Content = {"text"}
  Label = {l1}
  Event = {"modified"}
  Images <- TwoImages
  Clocks = {0, 1}
  Exports = TRUE
  MaxMoment = 1
  MaxTrail = 2
SYMMETRY IdSymmetry
INVARIANTS
  RowsHaveFacts
PROPERTIES
  RecordGrowsInOrder
CHECK_DEADLOCK FALSE
