SPECIFICATION MCSpec
CONSTANTS
  Callback = {pit, xfer}
  CbData = {hw, kbd}
  NoCallback = nocb
  NoData = nodata
  MaxEvents = 3
  Delays = {0, 2}
  ChargeDiffs = {1}
  TickMarshalArg <- NoTickMarshal
  PeriodArg = 1
  Horizon = 3
  MaxAdds = 4
INVARIANTS
  TypeOK
  ListsPartitionTable
  SnapshotsOnSchedule
PROPERTIES
  ImplementsEventQueue
