\* Two users and two requests that may be refused at once; one tap on Logout at a time.
CONSTANTS
  alice = alice
  bob = bob
  r1 = r1
  r2 = r2
  t1 = t1
  t2 = t2
  None = None
  Users = {alice, bob}
  Requests = {r1, r2}
  Taps = {t1}
  MaxTokens = 3
SPECIFICATION FairSpec
INVARIANTS OneRefresh RetryHasNewerToken TokensBelongTogether SessionIsOwn
PROPERTIES RequestsEnd
