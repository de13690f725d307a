SPECIFICATION Spec
CONSTANTS
  PoolPda = PoolPda
  VaultAuth = VaultAuth
  ZeroKey = ZeroKey
  MaxU64 = 3
  Accounts = {admin, alice}
  Users = {alice}
  Modes = {0, 1}
  LegacyPools = {FALSE, TRUE}
  Amounts = {1, 2}
  Donations = {1}
  LpMoves = {}
  Cooldowns = {0, 1}
  Caps = {0, 1}
  HwmBps = {0, 5000, 20000}
  Admins = {admin, alice}
  OracleKeys = {alice}
  PolicyKeys = {VaultAuth, alice}
  InsuranceLevels = {}
  MaxSlot = 1
  SlotsPerEpoch = 2
INVARIANTS
  TypeOK
  HandoffIsReal
PROPERTIES
  ResolutionIsFinal
  CapHolds
