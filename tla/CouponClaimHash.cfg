SPECIFICATION Spec
CONSTANTS
  Claims = {k1, k2}
  Instances = {i1}
  Coupons = {c1}
  Users = {u1}
  Wallets = {w1}
  PayerAddress <- OnePayer
  None = None
  AcquireAttempts = 2
  VerifyAttempts = 1
  TtlMayElapse = FALSE
  LateArrival = FALSE
  MaxCrashes = 1
INVARIANTS
  RedeemedHasHash
CHECK_DEADLOCK FALSE
