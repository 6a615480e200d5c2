SPECIFICATION FairSpec
CONSTANTS
  u1 = u1
  u2 = u2
  c2 = c2
  None = None
  Users = {u1, u2}
  CreateReqs = {c1, c2}
  CancelReqs = {x1}
  EnableReqs = {}
  Events = {e1, e2}
  UserOf <- TwoUsers
  Providers = {"STRIPE"}
  MaxPays = 4
  MaxPaymentsCrash = 1
  MaxGatewayCrash = 1
  MaxStripeFail = 0
  MaxRedeliver = 0
  MaxLapse = 0
PROPERTIES
  EveryRequestAnswered
  PaidIsUpgraded
CHECK_DEADLOCK FALSE
