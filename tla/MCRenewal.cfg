SPECIFICATION Spec
CONSTANTS
  u1 = u1
  u2 = u2
  c2 = c2
  None = None
  Users = {u1}
  CreateReqs = {c1, c2}
  CancelReqs = {x1}
  EnableReqs = {n1}
  Events = {e1, e2}
  UserOf <- OneUser
  Providers = {"STRIPE", "PAYPAL"}
  MaxPays = 2
  MaxPaymentsCrash = 0
  MaxGatewayCrash = 0
  MaxStripeFail = 1
  MaxRedeliver = 0
  MaxLapse = 1
INVARIANTS
  RenewalAgreement
  RenewalInv
SYMMETRY Interchangeable
CHECK_DEADLOCK FALSE
