SPECIFICATION FairSpec
CONSTANTS
  c1 = c1
  c2 = c2
  c3 = c3
  c4 = c4
  k1 = k1
  k2 = k2
  b1 = b1
  b2 = b2
  Workers = {w1, w2}
  Clients = {c1, c3}
  KeyOf <- TwoKeys
  BodyOf <- TwoBodies
  JobIds = {1, 2}
  NoWorker = NoWorker
  NoClient = NoClient
  MaxRetries = 1
  LeaseTicks = 1
  MaxTime = 2
  MaxPosts = 2
  MaxDeaths = 2
INVARIANT TypeOK
INVARIANT SinglePipeline
INVARIANT LeaseHolderIsRunning
INVARIANT RetriesAreDeaths
PROPERTY FirstComeFirstServed
PROPERTY KeepsPromise
PROPERTY EveryJobFinishes
