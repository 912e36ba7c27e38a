SPECIFICATION Spec2
CONSTANTS
  Devices = {d1}
  MaxSlot = 3
  MinuteSlots = 2
  Retention <- ShortRetention
  PruneEvery = 2
  MaxTicks = 3
  MaxSessions = 2
  DiskMayFail = TRUE
  ClockMayStep = TRUE
  None = None
INVARIANTS TypeOK RowsAreTheFrames EdgesAreHonest
PROPERTIES RunningPruneKeeps RowWrittenOnce
CHECK_DEADLOCK FALSE
