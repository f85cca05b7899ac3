CONSTANTS
  None = None
  a = a
  b = b
  alone = alone
  Target <- MCTarget
  Targets <- MCTargets
  Partners <- MCPartners
  Slots = 2
  Checks = 5
  MaxErrored = 1
SPECIFICATION Spec
INVARIANTS
  DriftIsMutual
  DriftIsReal
  SubjectIsTheWorst
CHECK_DEADLOCK FALSE
