SPECIFICATION FairSpec
CONSTANTS
  Keys <- TypingKeys
  NoKey = nokey
  BufSize = 2
  FirstRate <- Fast
  Rates <- NoRates
  MaxCommands = 2
  MaxBytes = 4
  MaxTimer = 2
INVARIANTS
  UnreadByteAnnounced
  SeenInOrder
PROPERTIES
  AllHandled
