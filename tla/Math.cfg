SPECIFICATION Spec
CONSTANTS
  MaxU64 = 9
  Accounts = {}
  Users = {}
  PoolPda = PoolPda
  VaultAuth = VaultAuth
  ZeroKey = ZeroKey
  MaxArg = 6
  MaxTime = 5
INVARIANTS
  LpIsFairShare
  RoundTripNeverGains
  SplittingNeverGains
  SlotIsFlooredAverage
  ValuesAgree
  MirrorScope
