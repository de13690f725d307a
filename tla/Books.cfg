SPECIFICATION Spec
CONSTANTS
  MaxU64 = 5
  Accounts = {admin, alice, bob}
  Users = {alice, bob}
  PoolPda = PoolPda
  VaultAuth = VaultAuth
  ZeroKey = ZeroKey
  Modes = {0, 1}
  LegacyPools = {FALSE}
  Amounts = {1, 2, 3}
  Donations = {1, 2}
  LpMoves = {1}
  Cooldowns = {0}
  Caps = {0}
  HwmBps = {}
  Admins = {admin}
  OracleKeys = {}
  PolicyKeys = {VaultAuth, admin}
  InsuranceLevels = {0, 3}
  MaxSlot = 0
  SlotsPerEpoch = 2
SYMMETRY Symmetry
INVARIANTS
  Accounting
  Solvent
  NotOverdrawn
  EmptyTogether
  EmptyPoolIsPriced
  ParOrBetter
  Bootstrappable
  ExitIsOpen
  RecordsMatchSupply
PROPERTIES
  SharePriceNeverFalls
  InsuranceStaysInCustody
  ImplementsShareVault
