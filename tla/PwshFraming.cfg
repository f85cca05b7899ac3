CONSTANTS
  Call = {c1, c2, c3}
  None = None
  MaxQueue = 2
  MaxRestarts = 1
SPECIFICATION Spec
SYMMETRY CallSymmetry
PROPERTY WholeLinesAreHeard
CHECK_DEADLOCK FALSE
