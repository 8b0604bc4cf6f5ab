SPECIFICATION FairSpec

CONSTANTS
  c1 = c1
  c2 = c2
  i1 = i1
  i2 = i2
  None = None
  Calls = {c1}
  Ids = {i1}
  Corr <- OneId
  DedupeTtl = 2
  MaxFaults <- OneLinkLoss

PROPERTY StatusRecovers
