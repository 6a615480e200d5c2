SPECIFICATION Spec
CONSTANTS
  u1 = u1
  u2 = u2
  c2 = c2
  None = None
  Users = {u1}
  CreateReqs = {c1, c2}
  CancelReqs = {x1}
  EnableReqs = {}
  Events = {e1, e2, e3}
  UserOf <- OneUser
  Providers = {"STRIPE"}
  MaxPays = 2
  MaxPaymentsCrash = 0
  MaxGatewayCrash = 0
  MaxStripeFail = 0
  MaxRedeliver = 1
  MaxLapse = 0
INVARIANTS
  OneRenews
  RenewalSurvives
CHECK_DEADLOCK FALSE
