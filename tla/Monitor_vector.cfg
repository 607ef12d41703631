\* Both threads in sessions_.
CONSTANTS
  k1 = k1
  k2 = k2
  p1 = p1
  p2 = p2
  None = None
  Urls = {u1}
  Keys = {k1, k2}
  Pubkeys = {p1, p2}
  OwnerOf <- Derived
  Budget = 0
  MaxSubmits = 2
  MaxInbox = 1
SPECIFICATION Spec
INVARIANTS VectorNotShared
CHECK_DEADLOCK FALSE
