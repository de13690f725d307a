SPECIFICATION WindDownSpec
CONSTANTS
  MaxU64 = 4
  Accounts = {admin, alice, bob}
  Users = {alice, bob}
  PoolPda = PoolPda
  VaultAuth = VaultAuth
  ZeroKey = ZeroKey
  Modes = {0}
  LegacyPools = {FALSE}
  Amounts = {2}
  Donations = {}
  LpMoves = {}
  Cooldowns = {0}
  Caps = {0}
  HwmBps = {5000}
  Admins = {admin}
  OracleKeys = {}
  PolicyKeys = {}
  InsuranceLevels = {}
  MaxSlot = 3
  SlotsPerEpoch = 1
PROPERTIES
  WindsDown
