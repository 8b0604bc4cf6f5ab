SPECIFICATION FairSpec

CONSTANTS
  c1 = c1
  c2 = c2
  i1 = i1
  i2 = i2
  None = None
  Calls = {c1, c2}
  Ids = {i1, i2}
  Corr <- OwnIds
  DedupeTtl = 2
  MaxFaults <- EveryFault

INVARIANT TypeOK
INVARIANT WaitingIsRegistered
INVARIANT AnswersOwnRequest
INVARIANT NoStaleOnline
PROPERTY ImplementsRemoteCall
