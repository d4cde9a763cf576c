\* One phone whose user is sent to the cloud's copy and cannot read it.
CONSTANTS
  d1 = d1
  d2 = d2
  s1 = s1
  s2 = s2
  s3 = s3
  u1 = u1
  u2 = u2
  r1 = r1
  r2 = r2
  None = None
  Devices = {d1}
  Seeds = {s1, s2}
  Uploads = {u1}
  Restores = {r1}
  ReadsBack = TRUE
SPECIFICATION Spec
INVARIANTS FreshIsLastResort
