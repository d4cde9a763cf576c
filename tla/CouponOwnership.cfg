\* Ownership: one payment; a user with two phones and another with her wallet.
\* Two crashes use up the stalls of the payment's job.
CONSTANTS
  m1 = m1
  m2 = m2
  a1 = a1
  a2 = a2
  b1 = b1
  txA = txA
  txB = txB
  w1 = w1
  w2 = w2
  alice = alice
  bob = bob
  phoneA = phoneA
  phoneA2 = phoneA2
  phoneB = phoneB
  None = None
  Messages = {m1}
  Carries <- OneCarries
  Transfers = {a1}
  TxOf <- OneTxOf
  PayerOf <- OnePayerOf
  ToMerchant = {a1}
  AboveFloor = {a1}
  Wallets = {w1, w2}
  Users = {alice, bob}
  Devices = {phoneA, phoneA2, phoneB}
  UserOf <- MCUserOf
  WalletOf <- MCWalletOf
  Instances = {i1}
  MaxStalledCount = 1
  MaxErrors = 1
  MaxCrashes = 2
SPECIFICATION FairSpec
INVARIANTS OwnerHeldPayer
PROPERTIES OwnerIsKept OrphansAreAdopted QueuedIsIssuedOrFailed
