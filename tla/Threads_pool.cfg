\* More fetches than threads, of two sessions that reconnect.
CONSTANTS
  k1 = k1
  k2 = k2
  p1 = p1
  p2 = p2
  None = None
  Urls = {u1, u2}
  Keys = {}
  Pubkeys = {p1}
  OwnerOf <- Derived
  Budget = 1
  MaxSubmits = 1
  MaxInbox = 1
  Fetchers = {f1, f2}
  MaxFetches = 2
SPECIFICATION FairThreadsSpec
PROPERTIES QueuedFetchRuns
CHECK_DEADLOCK FALSE
