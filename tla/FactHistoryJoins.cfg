SPECIFICATION Spec
CONSTANTS
  Store = {"origin", "copy"}
  Origin = "origin"
  x = x
  y = y
  z = z
  State <- Images
  MaxMoment = 2
  MaxChanges = 2
  MaxExports = 2
SYMMETRY ImageSymmetry
INVARIANTS
  JoinsAreMarked
CHECK_DEADLOCK FALSE
