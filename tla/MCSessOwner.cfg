SPECIFICATION Spec
CONSTANTS
  a = a
  b = b
  u = u
  v = v
  l2 = l2
  f2 = f2
  f3 = f3
  None = None
  Users = {u, v}
  Clients = {a, b}
  LoginReqs = {l1, l3}
  OAuthReqs = {o1}
  RefreshReqs = {f1}
  LogoutReqs = {g1}
  TerminateReqs = {t1}
  OthersReqs = {z1}
  ClientOf <- TwoClients
  UserOf <- OtherUser
  Hasty = {b}
  MaxClock = 2
  TTL = 2
  MaxLost = 1
SYMMETRY Interchangeable
INVARIANTS
  OneSessionPerClient
PROPERTIES
  EndedByOwner
CHECK_DEADLOCK FALSE
