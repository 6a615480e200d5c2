SPECIFICATION Spec
CONSTANTS
  MaxRows = 4
  MaxSize = 3
  GuestSize = 2
  Lists = {"posts", "userPosts", "subscriptions", "payments"}
INVARIANTS
  PagingInv
  ShowsAll
  ShowsOnce
  LastPageHasRows
CHECK_DEADLOCK FALSE
