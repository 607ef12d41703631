SPECIFICATION FairSpec
CONSTANTS
  Urls <- AllUrls
  Primaries <- Firsts
  WellKnown <- Seeds
  FallbackRelays <- Fallback
  Events <- Lists
  MaxAnswers = 2
INVARIANTS
  TypeOK
  ResultIsMonitorable
  ResultIsWhatTheSeedListed
  NewerListWins
PROPERTIES
  TalkingSeedIsLeft
