\* One session and everything a relay can send it, beside one whose URL cannot be monitored.
CONSTANTS
  u1 = u1
  u2 = u2
  u3 = u3
  s1 = s1
  s2 = s2
  s3 = s3
  NoKey = NoKey
  Sessions = {s1, s3}
  Urls = {u1, u3}
  Keys = {k1, k2}
  UrlOf <- OwnUrls
  UrlClass <- TwoSecure
  Payloads <- Frames
  SampleMs <- OneSample
  NipSets <- SomeNips
  kLatencyHistoryWindow = 2
  kMaxReconnectAttempts = 2
  MaxEvents = 1
  MaxAuthWrites = 2
  MaxFetches = 2
SPECIFICATION Spec
INVARIANTS TypeOK ChainExclusive StatusTracksChain AttemptTracksProgress
           NoWriteAcrossStreams CloseOnlyAfterHandshake
PROPERTIES NewStageIsShown GivesUpForAReason StoppedSessionWindsDown NoNipsAfterStop KeepsContract
