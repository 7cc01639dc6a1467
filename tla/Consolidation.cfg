SPECIFICATION Spec
CONSTANTS
  Raw = {a, b}
  Derived = {d}
  Pass = {p, q}
  MaxProposals = 1
INVARIANTS
  StandsOrSaysWhy
PROPERTIES
  WithdrawnForGood
  ConcludedOnce
SYMMETRY IdSymmetry
CHECK_DEADLOCK FALSE
