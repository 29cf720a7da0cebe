SPECIFICATION FairSpec
CONSTANTS
  Reqs <- MCReqs
  Mixes <- MCMixes
  MaxConcurrent = 1
  Limits = {0, 1}
  MaxChunks = 2
INVARIANTS
  LimitFailsClosed
  CutNeverWhole
  SlotsConserved
  MetricsBalance
PROPERTY RequestEnds
