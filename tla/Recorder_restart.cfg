SPECIFICATION Spec
CONSTANTS
  Devices = {d1}
  MaxSlot = 3
  MinuteSlots = 2
  Retention <- ShortRetention
  PruneEvery = 2
  MaxTicks = 4
  MaxSessions = 2
  DiskMayFail = FALSE
  ClockMayStep = FALSE
  None = None
PROPERTIES RowsOnlyGrow
CHECK_DEADLOCK FALSE
