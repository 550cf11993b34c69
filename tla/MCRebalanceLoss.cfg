SPECIFICATION IndexerSpec
CONSTANTS
  a1 = a1
  a2 = a2
  s1 = s1
  s2 = s2
  s3 = s3
  Partition = {0, 1}
  PartitionOf <- MCPartitionOf
  Member = {1, 2}
  Incoming <- MCIncoming
  MaxBatch = 2
  MaxRetries = 1
  MaxDepartures = 1
  MaxPartitionLag = 1
  MaxTotalLag = 1
  h1 = h1
  h2 = h2
  f1 = f1
  t1 = t1
  t2 = t2
  fake = fake
  NoUpdate = NoUpdate
  Source = {h1, h2, f1, other}
  Endpoint = {h1, h2, f1}
  Faulty = {f1}
  Sig = {t1, t2, fake}
  OnChain = {t1, t2}
  IsMainnet = TRUE
  Override = 0
  WindowSize = 2
  MaxUpdates = 4
  Agent = {1, 2}
  Touches <- MCTouches
INVARIANTS NothingLost
CHECK_DEADLOCK FALSE
