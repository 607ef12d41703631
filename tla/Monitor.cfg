\* Submissions, keys, retries and exit in every order, one relay.
CONSTANTS
  k1 = k1
  k2 = k2
  p1 = p1
  p2 = p2
  None = None
  Urls = {u1}
  Keys = {k1}
  Pubkeys = {p1, p2}
  OwnerOf <- Derived
  Budget = 1
  MaxSubmits = 2
  MaxInbox = 2
SPECIFICATION FairSpec
INVARIANTS TypeOK NothingRunsUnmanaged OneSubmissionManaged
PROPERTIES SubmissionsAdvance PushedKeyArrives
CHECK_DEADLOCK FALSE
