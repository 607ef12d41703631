SPECIFICATION FunctionsSpec
CONSTANTS
  MaxTotal = 24
  MaxRows = 12
  kMaxReconnectAttempts = 6
  MaxAttempt = 12
  Jitters = {0, 1, 125, 249, 250}
  UrlCharacters = {"x", ":", "/", "?"}
  MaxRest = 5
INVARIANTS
  SelectedRowShown
  LogWindowFull
  ThumbTellsPosition
  DelayBacksOff
  UrlPreserved
