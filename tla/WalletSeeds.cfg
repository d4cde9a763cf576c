\* A phone, three seeds, two uploads and a restore; all of them may overlap.
CONSTANTS
  d1 = d1
  d2 = d2
  s1 = s1
  s2 = s2
  s3 = s3
  u1 = u1
  u2 = u2
  r1 = r1
  r2 = r2
  None = None
  Devices = {d1}
  Seeds = {s1, s2, s3}
  Uploads = {u1, u2}
  Restores = {r1}
  ReadsBack = TRUE
SPECIFICATION Spec
SYMMETRY Symmetries
INVARIANTS TypeOK RescueIsPossible ReportedIsStored ReadyHasWallet
PROPERTIES NoSilentReplacement
