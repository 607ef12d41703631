CONSTANTS
  PayloadBytes = 2
  PubkeyOf <- SomePubkey
  Entries <- AllEntries
  Payloads <- FirstPayloads
  Doubled <- OnePayload
  WrongSymbols = {0, 1, 2, 12, 16, 31}
  FreeSymbols = {0, 1, 16, 31}
SPECIFICATION Spec
INVARIANTS
  DamageIsNoticed
  OneTextPerKey
PROPERTIES
  NothingElseLeft
