\* The log, the relay table and all input of the keyboard, while other threads write both.
SPECIFICATION Spec
CONSTANTS
  a = a
  b = b
  NoRelay = NoRelay
  kLogPageLines = 2
  kRelayPage = 2
  kMatchContext = 1
  Relays = {1}
  Lines <- TwoLines
  kMaxEntries = 3
  Characters = {a}
  Texts <- Text
  CommandLines <- AllCommands
  LogLines = {1, 2}
  MaxQuery = 1
  MaxScroll = 4
INVARIANTS
  TypeOK
  EveryMatchIsReached
  NoLingeringInput
  PrivateKeyGoesToAuth
