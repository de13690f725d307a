SPECIFICATION Spec
CONSTANTS
  MaxU64 = 5
  Accounts = {admin, alice, bob}
  Users = {alice, bob}
  PoolPda = PoolPda
  VaultAuth = VaultAuth
  ZeroKey = ZeroKey
  Modes = {1}
  LegacyPools = {FALSE}
  Amounts = {1}
  Donations = {1}
  LpMoves = {}
  Cooldowns = {1}
  Caps = {0}
  HwmBps = {}
  Admins = {admin}
  OracleKeys = {}
  PolicyKeys = {}
  InsuranceLevels = {}
  MaxSlot = 2
  SlotsPerEpoch = 1
PROPERTIES
  FeesGetBooked
  DepositorsGetOut
