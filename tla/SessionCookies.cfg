CONSTANTS
  u1 = u1
  u2 = u2
  b1 = b1
  b2 = b2
  r1 = r1
  r2 = r2
  Browsers = {b1, b2}
  Users = {u1, u2}
  NoUser = NoUser
  Requests = {r1, r2}
  ProfileIds = 3
  CookieIds = 3
  Visited <- BothVisited
  LoggedIn <- OneLoggedIn
  Arrivals = 4
  Failures = TRUE
  Batch = 1
SPECIFICATION Spec
CHECK_DEADLOCK FALSE
INVARIANTS
  TypeOK
  NoUseAfterLogout
PROPERTIES
  LogoutEndsSession
  ProfileKeepsUser
  InactiveCookiesGo
