\* One request, whose refresh may outlast a logout.
CONSTANTS
  alice = alice
  bob = bob
  r1 = r1
  r2 = r2
  t1 = t1
  t2 = t2
  None = None
  Users = {alice}
  Requests = {r1}
  Taps = {t1}
  MaxTokens = 2
SPECIFICATION FairSpec
INVARIANTS SignedOutIsEmpty
