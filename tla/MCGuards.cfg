CONSTANTS
  a1 = a1
  a3 = a3
  Agent = {a1, a3}
  Score = {10, 12, 14, 16}
  Fleet = {1}
  Genesis <- MCGenesis
  Registered <- MCRegistered
  Elapsed <- MCElapsed
  MaxEpoch = 4
  HighBand = 14
  Absolute = 48
  Migration = 30
  Collapse = 30
  Share = 51
  MinAgents = 2
  MinPrior = 2
  Window = 2
  MinMove = 1
  MassDrop = 2
  MassShare = 30
  MaxDrift = 2
  MaxStep = 2
  MaxRun = 4
  MinRotation = 3
  Tolerance = 1
  MaxDelta = 3
  MaxPerHour = 2
  Hour = 1
  MinElapsed = 1
  GreenSeconds = 4
  GreenEpochs = 2
  f1 = f1
  f2 = f2
  f3 = f3
  t1 = t1
  t3 = t3
  b1 = b1
  Key = {f1, f2, f3, t1, t3, b1}
  Declared <- MCDeclared
  AllowedModels = {"flat"}
  AllowedPostures = {"none", "external"}
  Pinned <- MCPinned
  Founders = {f1, f2, f3}
  Timelock = 1
  WarnAge = 2
  MaxAge = 6
  MinHosts = 2
  MaxPerRegion = 1
  RpcEndpoint = {1, 2, 3}
  ProviderOf <- MCProvider
  Truth = "truth"
  Lie = "lie"
  NoAnswer = "none"
  Horizon = 7
  w1 = w1
  Wallet = {w1}
  Nodes = 5
  Quorum = 3
  Margin = 1
  MaxThin = 2
  Healthy = 80
  RoundWindow = 3
  Stall = 3
  Reissue = 1
  WarnQuiet = 0
  SilentQuiet = 1
  MinRecent = 3
  ToYellow = 2
  ToRed = 3
  RefuseAfter = 4
  Operation = {"LOAN_ISSUE", "LIQUIDATION_CHECK", "STATUS_READ"}
  OperationMaxAge <- MCMaxAge
  Lags = {0, 1}
  Skew = 0
  Forever = 7
  MaxChainEpoch = 1
  LogSize = 2
  Delivered = {1, 2}
  Scored = {3}
  Refused = {9}
  Worker = {1, 2}
  ApiKey = {"k1"}
  Ip = {"i1"}
  NoKey = "nokey"
  LimitOf <- MCLimitOf
  PublicLimit = 1
  Partner = {1}
  PartnerOf <- MCPartnerOf
  NoPartner = 0
  Hooked = {1}
  TrustProxy = TRUE
  WindowSeconds = 2
  CertMaxAge = 1
  MaxVelocity = 1
  WindowEpochs = 2
  Points = {1, 3}
  Operator = {1}
  ReadLimit = 1
  LastEpoch = 3
  LastSecond = 2
  Roster <- MCRoster
  Readings <- MCReadings
  Earlier <- MCEarlier
  Self = 0
  Peers = {1, 2, 3}
  Liars = {2}
  GreenFrom = 700
  YellowFrom = 400
  MinActive = 3
  MaxStepUp = 200
  Spread = 50
  Confirmations = 1
  LastRun = 2
  Transaction <- MCTransaction
  ActionOf <- MCActionOf
  Profiles <- MCProfiles
  Kernel <- MCKernel
  Scanner <- MCScanner
  Library <- MCLibrary
  CutMargin <- MCCutMargin
  Deviation <- MCDeviation
  DdmDays = 4
  Rates = {0, 60, 100}
  Cohort = {1, 2, 3, 4, 5}
  FunderOf <- MCFunder
  DealtWith <- MCDealt
  ClusterFrom = 3
  Observed = 5
  Days = 6
  Ties = 3
  Scale <- MCScale
  MinDays = 2
  MinCount = 3
  Ends = {3, 5}
  WindowLength = 4
  Jobs = 2
  OldTable <- MCOldTable
  Rated = 1
  LiveRows <- MCLive
  Settings <- MCSettings
  Editable <- MCEditable
  Pins <- MCPins
  TrustedSigners = {"ours"}
  Binaries = {1, 2, 3}
  Edits = 2
SPECIFICATION MCSpec
INVARIANTS InflationIsBounded RotationIsSafe NoLoanOnAFrozenChain EraseIsTrue GatewayIsSound ScoringIsSound EvidenceIsExact BaselinesAreSound StartUpIsSafe
CHECK_DEADLOCK FALSE
