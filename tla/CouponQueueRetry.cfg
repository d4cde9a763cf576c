\* One payment and one failed call: does Bull try again?
CONSTANTS
  m1 = m1
  m2 = m2
  a1 = a1
  a2 = a2
  b1 = b1
  txA = txA
  txB = txB
  w1 = w1
  w2 = w2
  alice = alice
  bob = bob
  phoneA = phoneA
  phoneA2 = phoneA2
  phoneB = phoneB
  None = None
  Messages = {m1}
  Carries <- OneCarries
  Transfers = {a1}
  TxOf <- OneTxOf
  PayerOf <- OnePayerOf
  ToMerchant = {a1}
  AboveFloor = {a1}
  Wallets = {w1, w2}
  Users = {alice}
  Devices = {}
  UserOf <- NoDevices
  WalletOf <- NoDevices
  Instances = {i1}
  MaxStalledCount = 1
  MaxErrors = 1
  MaxCrashes = 0
SPECIFICATION FairSpec
PROPERTIES QueuedIsIssued
CHECK_DEADLOCK FALSE
