SPECIFICATION Spec
CONSTANTS
  c1 = c1
  c2 = c2
  c3 = c3
  c4 = c4
  k1 = k1
  k2 = k2
  b1 = b1
  b2 = b2
  Workers = {w1}
  Clients = {c1, c2, c3, c4}
  KeyOf <- RivalKeys
  BodyOf <- RivalBodies
  JobIds = {1, 2}
  NoWorker = NoWorker
  NoClient = NoClient
  MaxRetries = 1
  LeaseTicks = 1
  MaxTime = 1
  MaxPosts = 5
  MaxDeaths = 0
INVARIANT OneJobPerKey
PROPERTY RepliesAreStable
