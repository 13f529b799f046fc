CONSTANTS
  email = email
  phone = phone
  a1 = a1
  a2 = a2
  w1 = w1
  c1 = c1
  NoRow = NoRow
  Claims = {email, phone}
  Admins = {a1}
  Workers = {w1}
  Clients = {c1}
  QueueSize = 1
  MaxChanges = 1
  MaxFetches = 2
  Failures = FALSE
SPECIFICATION Spec
PROPERTY RulesSurviveSync
CHECK_DEADLOCK FALSE
