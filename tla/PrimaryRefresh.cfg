CONSTANTS
  Call = {c1, c2}
  None = None
  n1 = n1
  n2 = n2
  n3 = n3
  Replica <- MCReplica
  Candidates <- MCCandidates
  Ttl = 2
  Slow = 1
  MaxFailovers = 1
SPECIFICATION HSpec
INVARIANT RefreshIsHeard
