CONSTANTS
  Others = {}
  a1 = a1
  h1 = h1
  h2 = h2
  d1 = d1
  d2 = d2
  d3 = d3
  p1 = p1
  Wallet = {a1}
  Hash <- MCHashes
  NoHash = NoHash
  MaxNonce = 2
  OracleCooldown = 1
  ClockStart = 1
  ClockEnd = 4
  Committer = {"owner", "node"}
  KindOf <- Kinds
  MaxAttempts = 2
  Key <- MCKeys
  NoKey = 0
  Domain <- MCDomains
  GenesisArgs <- MCGenesis
  ClusterRotationArgs <- Clusters
  SuccessorArgs <- Successors
  Partner = {p1}
  MaxClusterKeys = 5
  MinBftKeys = 3
  TransferTimelock = 2
  MaxConfigVersion = 2
  Alert = {"green", "red"}
  MaxEpoch = 2
  MaxBundles = 1
  AnchorWindow = 0
  GreenAge = 1
  EvidenceAge = 1
  ChallengeWindow = 1
SPECIFICATION CertificateStorySpec
INVARIANT RepudiatedGroundsNoSlash
CHECK_DEADLOCK FALSE
