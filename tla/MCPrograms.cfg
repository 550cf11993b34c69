CONSTANTS
  a1 = a1
  Others = {"slash"}
  DefaultKey = DefaultKey
  NoProposal = NoProposal
  adm = adm
  k1 = k1
  k2 = k2
  k3 = k3
  k4 = k4
  t1 = t1
  t2 = t2
  burn = burn
  Pubkey <- SlashKeys
  AdminArgs <- Admins
  RotationArgs <- Requests
  TimelockArgs <- ReviewWindows
  TimingArgs <- Timings
  PauseArgs <- Durations
  GenesisTime = 1
  MaxTime = 7
  MaxVersion = 3
  MinSettlementTimelock = 3
  MinRotationTimelock = 2
  MaxPause = 2
  PauseCooldown = 1
  DefaultFloor = 2
  DefaultGrace = 1
  MinFloor = 1
  MaxFloor = 7
  MinGrace = 1
  MaxGrace = 1
  Agent = {a1}
  MaxSlashes = 2
  StakeArgs <- Stakes
  CertArgs <- Certs
  Incinerator = burn
  MinStake = 10
  CertMaxAge = 2
  AppealWindow = 3
  AppealCooldown = 1
  MaxAppeals = 1
  h1 = h1
  h2 = h2
  d1 = d1
  d2 = d2
  d3 = d3
  p1 = p1
  Wallet = {a1}
  Hash <- MCHashes
  NoHash = NoHash
  MaxNonce = 2
  OracleCooldown = 1
  ClockStart = 1
  ClockEnd = 4
  Committer = {"owner", "node"}
  KindOf <- Kinds
  MaxAttempts = 2
  Key <- MCKeys
  NoKey = 0
  Domain <- MCDomains
  GenesisArgs <- MCGenesis
  ClusterRotationArgs <- Clusters
  SuccessorArgs <- Successors
  Partner = {p1}
  MaxClusterKeys = 5
  MinBftKeys = 3
  TransferTimelock = 2
  MaxConfigVersion = 2
  Alert = {"green", "red"}
  MaxEpoch = 2
  MaxBundles = 1
  AnchorWindow = 0
  GreenAge = 1
  EvidenceAge = 1
  ChallengeWindow = 1
SPECIFICATION ProgramsSpec
INVARIANTS
  BaselinesPublishedOnce
  CertificateBacked
  ChallengeIsIndependent
  EscrowedScoreIsAuditable
PROPERTIES
  RotationNeedsReviewAndConsent
  DueProcess
  ImplementsLedger
  ImplementsRegister
CHECK_DEADLOCK FALSE
