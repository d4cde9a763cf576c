\* Delivery: two processes; a transaction with two payments and one with none.
\* Beside it, the parts that share no state with it.
CONSTANTS
  m1 = m1
  m2 = m2
  a1 = a1
  a2 = a2
  b1 = b1
  txA = txA
  txB = txB
  w1 = w1
  w2 = w2
  alice = alice
  bob = bob
  phoneA = phoneA
  phoneA2 = phoneA2
  phoneB = phoneB
  None = None
  Messages = {m1, m2}
  Carries <- MCCarries
  Transfers = {a1, a2, b1}
  TxOf <- MCTxOf
  PayerOf <- MCPayerOf
  ToMerchant = {a1, a2}
  AboveFloor = {a1, a2, b1}
  Wallets = {w1, w2}
  Users = {alice}
  Devices = {}
  UserOf <- NoDevices
  WalletOf <- NoDevices
  Instances = {i1, i2}
  MaxStalledCount = 1
  MaxErrors = 1
  MaxCrashes = 1
  MaxFaults = 1
  Pollers = {p1, p2}
  Shops = {"shopA", "shopB"}
  TxHashOf <- PaymentsTo
  Malformed = {"bad"}
  NewestFirst = TRUE
  PageLimit = 2
  MaxLosses = 1
  Spot = "spot"
  Charts = {"bitcoin:1y"}
  Callers = {q1, q2, q3}
  Upcalls = {"f1", "f2"}
  Pages = {"k1"}
  Lookups = {l1, l2}
  Tries = 3
  MaxVersion = 3
  People = {"alice", "bob"}
  MaxDecisions = 2
  Blobs = {"s", "t", "m", "l"}
  ChunksOf <- ChunksNeeded
  MaxWrites = 2
  MaxCalls = 5
  Assets = {"arb", "btc"}
  NetworkOf <- Chains
  GrainOf <- Grains
  Addresses = {"x", "b"}
  KindOf <- Kinds
  ContactNetworks = {"evm", "bitcoin"}
  Merchants = {"x"}
  Codes <- QrCodes
  Amounts = {3}
  FirstAsset = "arb"
  MaxPayments = 2
  MaxContacts = 1
  Offers = {"c1"}
  MaxClaims = 2
  Networks = {"ethereum", "bitcoin"}
  Views = {"history", "asset"}
  MaxAttempts = 2
  MaxWallets = 2
  Coins = {"eth", "btc"}
  SourceOf <- QueryOf
  Charted = {"btc"}
  Ranges = {"1d", "1w"}
  FirstRange = "1d"
  Details = {"short", "tall"}
  HeightOf <- DetailHeights
SPECIFICATION PartsSpec
INVARIANTS
  OneCouponPerTx BatchesAreFresh
  PartsTypeOK SeenIsDispatched
  ReadsWholeValue SentAsEntered ToldIsGone SyncedIsRegistered
  RestsInPlace EarlyFiguresAreReread UnknownIsNotZero
PROPERTIES
  NoWorseThanBefore HomeWaitsForDecision SavedContactIsOffered FetchedRangeIsDrawn
CHECK_DEADLOCK FALSE
