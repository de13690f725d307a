SPECIFICATION HSpec
CONSTANTS
  PoolPda = PoolPda
  VaultAuth = VaultAuth
  ZeroKey = ZeroKey
  MaxU64 = 6
  Accounts = {admin, alice}
  Users = {alice}
  Modes = {0}
  LegacyPools = {FALSE}
  Amounts = {1, 2, 3}
  Donations = {}
  LpMoves = {}
  Cooldowns = {0, 2, 3}
  Caps = {0}
  HwmBps = {}
  Admins = {admin}
  OracleKeys = {}
  PolicyKeys = {}
  InsuranceLevels = {}
  MaxSlot = 6
  SlotsPerEpoch = 2
PROPERTIES
  FreshCapitalWaits
  TopUpMovesUnlockForward
