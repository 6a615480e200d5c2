SPECIFICATION Spec
CONSTANTS
  u1 = u1
  u2 = u2
  c2 = c2
  None = None
  Users = {u1}
  CreateReqs = {c1, c2}
  CancelReqs = {}
  EnableReqs = {}
  Events = {e1, e2}
  UserOf <- OneUser
  Providers = {"STRIPE"}
  MaxPays = 4
  MaxPaymentsCrash = 1
  MaxGatewayCrash = 0
  MaxStripeFail = 1
  MaxRedeliver = 0
  MaxLapse = 0
INVARIANTS
  RecordsInv
  ActiveIsPaid
  SucceededIsPaid
  ConflictMeansPaid
  UrlIsPayable
PROPERTIES
  KeepsContract
  ActiveNeverDeleted
CHECK_DEADLOCK FALSE
