SPECIFICATION Spec
CONSTANTS
  Urls <- AllUrls
  Primaries <- Firsts
  WellKnown <- Seeds
  FallbackRelays <- Fallback
  Events <- Lists
  MaxAnswers = 2
INVARIANT EmergencySetUsed
