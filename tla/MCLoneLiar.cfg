CONSTANTS
  p = p
  q = q
  i = i
  j = j
  s1 = s1
  s2 = s2
  a1 = a1
  a2 = a2
  conflicting = conflicting
  drift = drift
  nonReveal = nonReveal
  NoPayload = NoPayload
  Node = {1, 2, 3}
  Faulty = {3}
  Track = {conflicting, drift, nonReveal}
  Threshold <- Strikes
  ProofCode <- MCProofCode
  MaxEpoch = 3
  MaxChallenges = 1
  Truth <- MCTruth
  Lies <- MCLies
  SigThreshold = 2
  MinParticipation = 2
  RollingWindow = 2
  MaxSilent = 1
  MaxRuns = 3
  Member = {1, 2, 3, 4}
  Liars = {4}
  HonestScore <- Healthy
  LiarScores <- TwoLies
  Runners = {1, 2}
  Value = {0, 1, 2}
  Peer = {1, 2}
  Wallet = {a1, a2}
  Genesis = {a1}
  MaxEvents = 3
  MaxStarts = 2
  Slot = {s1, s2}
  Payload = {p, q, i, j}
  Possible <- TwoEach
  NoRecord = NoRecord
  n1 = n1
  n2 = n2
  n3 = n3
  r1 = r1
  r2 = r2
  v1 = v1
  hA = hA
  None = None
  Nodes = {n1, n2, n3}
  Scores = {r1, r2}
  OwnScores <- MCOwnScores
  AlgoVersion <- SameVersion
  SnapshotHash <- OneSnapshot
  Copiers = {}
  CommitDeadline = 2
  RevealDeadline = 4
  MinReveals = 2
  MaxTime = 5
  MaxCommitCalls = 1
  DefaultKey = DefaultKey
  NoRotation = NoRotation
  k1 = k1
  k2 = k2
  k3 = k3
  k4 = k4
  Pubkey <- ClusterKeys
  AdminArgs <- OracleAdmins
  AdvanceSigners <- TwoSigners
  HintArgs <- Hints
  ClusterArgs <- KeyVectors
  ConfidenceArgs <- Confidences
  TimelockArgs <- ReviewWindows
  MinTimelock = 2
  GenesisTime = 0
  LastTime = 7
  Duration = 2
  FinalizeDelay = 1
  OverwriteDelay = 3
  LastEpoch = 3
  Live <- OnlyK1
  Slack = 1
SPECIFICATION MCSpec
INVARIANT LoneLiarFramesNobody
CHECK_DEADLOCK FALSE
