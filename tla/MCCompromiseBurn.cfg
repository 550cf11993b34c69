CONSTANTS
  DefaultKey = DefaultKey
  NoProposal = NoProposal
  adm = adm
  k1 = k1
  k2 = k2
  k3 = k3
  k4 = k4
  t1 = t1
  t2 = t2
  burn = burn
  Pubkey <- SlashKeys
  AdminArgs <- Admins
  RotationArgs <- NoRotation
  TimelockArgs <- ReviewWindows
  TimingArgs <- Never
  PauseArgs <- Never
  GenesisTime = 1
  MaxTime = 7
  MaxVersion = 2
  MinSettlementTimelock = 3
  MinRotationTimelock = 2
  MaxPause = 2
  PauseCooldown = 1
  DefaultFloor = 2
  DefaultGrace = 1
  MinFloor = 1
  MaxFloor = 7
  MinGrace = 1
  MaxGrace = 1
  Agent = {a1}
  MaxSlashes = 2
  StakeArgs <- Stakes
  CertArgs <- Certs
  Incinerator = burn
  MinStake = 10
  CertMaxAge = 2
  AppealWindow = 3
  AppealCooldown = 1
  MaxAppeals = 1
SPECIFICATION SlashStorySpec
INVARIANT CompromiseBurnsEntireStake
CHECK_DEADLOCK FALSE
