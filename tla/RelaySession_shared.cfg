\* Two sessions on one relay keep the contract, and make progress.
CONSTANTS
  u1 = u1
  u2 = u2
  u3 = u3
  s1 = s1
  s2 = s2
  s3 = s3
  NoKey = NoKey
  Sessions = {s1, s2}
  Urls = {u1}
  Keys = {}
  UrlOf <- OneUrl
  UrlClass <- AllSecure
  Payloads <- CountedFrames
  SampleMs <- OneSample
  NipSets <- SomeNips
  kLatencyHistoryWindow = 1
  kMaxReconnectAttempts = 1
  MaxEvents = 1
  MaxAuthWrites = 0
  MaxFetches = 0
SPECIFICATION FairSpec
PROPERTIES KeepsContract NoEndlessRetry ScheduledRetryDials DialSettles
