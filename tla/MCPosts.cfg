SPECIFICATION Spec
CONSTANTS
  u = u
  v = v
  p2 = p2
  None = None
  Users = {u, v}
  CreateReqs = {p1, p2}
  UpdateReqs = {m1}
  DeleteReqs = {d1, d2}
  UserOf <- TwoAuthors
  Photos = {1, 2}
  Texts = {t1, t2}
  MaxFail = 1
INVARIANTS
  FilesInv
  ShownPhotosExist
  DeletedIsGone
  NoOrphans
PROPERTIES
  ChangedByOwner
CHECK_DEADLOCK FALSE
