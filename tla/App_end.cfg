SPECIFICATION Spec
CONSTANTS
  a = a
  b = b
  NoRelay = NoRelay
  kLogPageLines = 2
  kRelayPage = 2
  kMatchContext = 1
  Relays = {}
  Lines <- TwoLines
  kMaxEntries = 4
  Characters = {a}
  Texts = {}
  CommandLines <- LogCommands
  LogLines = {1, 3}
  MaxQuery = 1
  MaxScroll = 5
PROPERTY
  EndIsShown
