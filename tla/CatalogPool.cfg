CONSTANTS
  Call = {c1, c2, c3}
  Key = {kOps, kTypo, kBlind}
  None = None
  Fallible = {kOps, kTypo, kBlind}
  Missing = {kTypo, kBlind}
  Sighted = {kOps, kTypo}
SPECIFICATION Spec
INVARIANTS
  WarnedIffFallback
  NoPoolLeaks
  ErrorEvicts
PROPERTIES
  LateEventsSpareOthers
  FallbackLeaves
  EveryCallSettles
