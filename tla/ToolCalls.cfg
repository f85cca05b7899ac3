CONSTANTS
  c1 = c1
  c2 = c2
  i1 = i1
  i2 = i2
  Call = {c1, c2}
  Target = {i1, i2}
  TopN = 1
  ToolsOf <- MCToolsOf
  Char <- MCChar
  Text <- MCTexts
SYMMETRY MCSymmetry
SPECIFICATION Spec
INVARIANTS GuardReadsAsTheServer WarningsReachTheirCall CutsAreTold AbsenceIsKnown RepliesMatchTheData
CHECK_DEADLOCK FALSE
