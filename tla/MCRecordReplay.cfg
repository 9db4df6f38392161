SPECIFICATION MCSpec
CONSTANTS
  Keys <- TwoKeys
  NoKey = nokey
  BufSize = 2
  FirstRate <- Fast
  KeyDelay = 1
  MsecTicks = 3
  DecodeCount = 2
  MaxKeys = 3
  MaxLoads = 1
  Horizon = 10
INVARIANTS
  RecordingKeepsHistory
  ReplayInjectsOnTime
  UntiedReplayedAsRecorded
