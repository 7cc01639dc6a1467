SPECIFICATION Spec
CONSTANTS
  Store = {"origin", "copy"}
  Origin = "origin"
  x = x
  y = y
  z = z
  State <- Images
  MaxMoment = 2
  MaxChanges = 2
  MaxExports = 3
SYMMETRY ImageSymmetry
INVARIANTS
  ReadsAreTrue
CHECK_DEADLOCK FALSE
