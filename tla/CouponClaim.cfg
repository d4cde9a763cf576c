SPECIFICATION Spec
CONSTANTS
  Claims = {k1, k2, k3}
  Instances = {i1, i2}
  Coupons = {c1, c2}
  Users = {u1, u2}
  Wallets = {w1}
  PayerAddress <- OnePayer
  None = None
  AcquireAttempts = 2
  VerifyAttempts = 2
  TtlMayElapse = FALSE
  LateArrival = FALSE
  MaxCrashes = 1
SYMMETRY Symmetry
INVARIANTS
  TypeOK
  OneOwner
  PaidAtMostOnce
  PayoutRecorded
  OwnerPaid
  TreasuryExclusive
  RetryIsSafe
PROPERTIES
  NoTransferDisplaced
  ImplementsLedger
CHECK_DEADLOCK FALSE
