SPECIFICATION ServicesSpec
CONSTANTS
  Keys <- TypedKeys
  ScanAscii <- Rows
  Slots = 3
  MaxEvents = 5
  MaxCalls = 2
  Words = 64
  MemStart = 4
  MemEnd = 60
  MaxPages = 2
  Files <- MCFiles
INVARIANTS
  TypeOK
  ModifiersFollowKeys
  AltCodeEnds
  ReturnedInOrder
  DosTypeOK
  ChainTilesMemory
  ResizeGrantsWhatThereIs
  ImageInItsBlock
PROPERTIES
  PeekedIsTaken
CHECK_DEADLOCK FALSE
