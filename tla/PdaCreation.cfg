SPECIFICATION Spec
CONSTANTS
  Slab = slab
  Admin = admin
  Users = {alice, bob}
  Strangers = {carol}
  MaxLamports = 4
  PoolRent = 3
  DepositRent = 2
  Gifts = {1, 2, 3}
INVARIANTS
  CreatedWhole
PROPERTIES
  NobodyIsLockedOut
  PaysTheShortfall
CHECK_DEADLOCK FALSE
