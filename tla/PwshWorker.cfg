CONSTANTS
  Call = {c1, c2, c3}
  None = None
  MaxQueue = 2
  MaxRestarts = 1
SPECIFICATION Spec
INVARIANTS
  SettledOnce
  SlotIsUsable
  NoOrphan
  NoStraggler
  CountedOnce
PROPERTIES
  DiesWithItsOwn
  ImplementsBroker
  EveryCallSettles
CHECK_DEADLOCK FALSE
