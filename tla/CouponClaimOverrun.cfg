SPECIFICATION FairSpec
CONSTANTS
  Claims = {k1, k2}
  Instances = {i1, i2}
  Coupons = {c1, c2}
  Users = {u1}
  Wallets = {w1}
  PayerAddress <- OnePayer
  None = None
  AcquireAttempts = 2
  VerifyAttempts = 1
  TtlMayElapse = TRUE
  LateArrival = TRUE
  MaxCrashes = 1
PROPERTIES
  LockReleasedByHolder
  ClaimEnds
CHECK_DEADLOCK FALSE
