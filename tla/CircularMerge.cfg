CONSTANTS
  a = a
  b = b
  c = c
  d = d
  m1 = m1
  m2 = m2
  m3 = m3
  u1 = u1
  u2 = u2
  r1 = r1
  r2 = r2
  r3 = r3
  r4 = r4
  k1 = k1
  Profiles = {a, b, c, d}
  Masters = {m1, m2, m3}
  Existing = {a, b, c, d}
  Users = {u1}
  NoUser = NoUser
  NoProfile = NoProfile
  Requests = {r1, r2, r3, r4}
  Consumers = {k1}
  Server <- OneServer
  Deletable = {}
  Overlap = FALSE
  Failures = FALSE
SYMMETRY Symm
SPECIFICATION Spec
CHECK_DEADLOCK FALSE
INVARIANT
  FamilyHasHead
