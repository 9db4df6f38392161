SPECIFICATION FairSpec
CONSTANTS
  Keys <- TypingKeys
  NoKey = nokey
  BufSize = 2
  FirstRate <- Fast
  Rates <- SlowRate
  MaxCommands = 2
INVARIANTS
  TypeOK
  OneTransferPending
  NothingStranded
  RepeatsHeldKey
PROPERTIES
  UnreadByteKept
  WaitingByteArrives
  ImplementsKeyFifo
