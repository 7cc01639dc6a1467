SPECIFICATION Spec
CONSTANTS
  Raw = {a, b}
  Derived = {d}
  Pass = {p, q}
  MaxProposals = 1
PROPERTIES
  RetractedStaysRetracted
SYMMETRY IdSymmetry
CHECK_DEADLOCK FALSE
