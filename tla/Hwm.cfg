SPECIFICATION HSpec
CONSTANTS
  PoolPda = PoolPda
  VaultAuth = VaultAuth
  ZeroKey = ZeroKey
  MaxU64 = 3
  Accounts = {admin, alice}
  Users = {alice}
  Modes = {0, 1}
  LegacyPools = {FALSE}
  Amounts = {1, 2, 3}
  Donations = {1}
  LpMoves = {}
  Cooldowns = {0}
  Caps = {0}
  HwmBps = {5000}
  Admins = {admin}
  OracleKeys = {}
  PolicyKeys = {VaultAuth}
  InsuranceLevels = {}
  MaxSlot = 2
  SlotsPerEpoch = 1
INVARIANT HwmNeverOverstates
PROPERTY HwmProtects
