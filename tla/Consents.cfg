CONSTANTS
  p1 = p1
  c0 = c0
  c1 = c1
  c2 = c2
  email = email
  tier = tier
  r1 = r1
  r2 = r2
  Profiles = {p1}
  Categories = {c0, c1, c2}
  Mandatory = c0
  Known = {c1}
  Covering <- TierCovered
  Consented = {c1}
  Attributes = {email, tier}
  Identity = {email}
  FirstIds <- InOrder
  AttributeIds = 3
  Payloads <- Lists
  Requests = {r1, r2}
  Arrivals = 3
  Failures = TRUE
SYMMETRY Handlers2
SPECIFICATION Spec
CHECK_DEADLOCK FALSE
INVARIANTS
  TypeOK
  RowsInSchema
  RevokedStaysRevoked
  ReadsInForce
  IdentityNeverStripped
