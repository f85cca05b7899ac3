CONSTANTS
  Call = {c1, c2}
  Timeout <- MCTimeout
  Reserve = 1
  LeastBudget = 1
  CreateReserve = 1
  Hour = 2
SPECIFICATION Spec
INVARIANTS
  LeftOnlyByAKill
  FinallyGetsToRun
  NotOlderThanItsJob
PROPERTIES
  SweepSparesTheLiving
  EveryCallSettles
CHECK_DEADLOCK FALSE
