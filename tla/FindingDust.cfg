SPECIFICATION HSpec
CONSTANTS
  MaxU64 = 5
  Accounts = {admin, alice, bob}
  Users = {alice, bob}
  PoolPda = PoolPda
  VaultAuth = VaultAuth
  ZeroKey = ZeroKey
  Modes = {1}
  LegacyPools = {FALSE}
  Amounts = {1, 2, 3}
  Donations = {1, 2}
  LpMoves = {1}
  Cooldowns = {0}
  Caps = {0}
  HwmBps = {}
  Admins = {admin}
  OracleKeys = {}
  PolicyKeys = {}
  InsuranceLevels = {}
  MaxSlot = 0
  SlotsPerEpoch = 2
INVARIANT PreSupplyDustIsNoFee
