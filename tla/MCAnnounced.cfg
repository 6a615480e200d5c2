SPECIFICATION FairSpec
CONSTANTS
  u1 = u1
  u2 = u2
  c2 = c2
  None = None
  Users = {u1}
  CreateReqs = {c1, c2}
  CancelReqs = {}
  EnableReqs = {}
  Events = {e1, e2}
  UserOf <- OneUser
  Providers = {"STRIPE"}
  MaxPays = 2
  MaxPaymentsCrash = 0
  MaxGatewayCrash = 0
  MaxStripeFail = 0
  MaxRedeliver = 0
  MaxLapse = 0
PROPERTIES
  PaidIsAnnounced
CHECK_DEADLOCK FALSE
