SPECIFICATION Spec
CONSTANTS
  a = a
  b = b
  u = u
  v = v
  l2 = l2
  f2 = f2
  f3 = f3
  None = None
  Users = {u, v}
  Clients = {a, b}
  LoginReqs = {l1, l2}
  OAuthReqs = {}
  RefreshReqs = {f1, f2, f3}
  LogoutReqs = {g1}
  TerminateReqs = {t1}
  OthersReqs = {}
  ClientOf <- TwoClients
  UserOf <- SameUser
  Hasty = {b}
  MaxClock = 2
  TTL = 2
  MaxLost = 0
SYMMETRY Interchangeable
INVARIANTS
  SInv
  LiveSessionUsable
  CookieIsCurrent
PROPERTIES
  TerminatedForGood
CHECK_DEADLOCK FALSE
