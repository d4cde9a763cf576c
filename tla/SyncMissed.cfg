\* One screen, on which two addresses resolve.
CONSTANTS
  Networks = {"ethereum", "bitcoin"}
  Views = {"history"}
  MaxAttempts = 3
  MaxWallets = 1
SPECIFICATION SyncSpec
PROPERTIES ResolvedIsSynced
CHECK_DEADLOCK FALSE
