CONSTANTS
  None = None
  Catalog <- MCCatalog
  Wrapped = TRUE
SPECIFICATION Spec
INVARIANTS
  WorkerIsCurrent
  NotBehindAStuckOne
  FreshUnlessRefused
  WrittenIsDelivered
PROPERTIES
  StuckChecksAreCut
CHECK_DEADLOCK FALSE
