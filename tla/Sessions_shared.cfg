SPECIFICATION Spec2
CONSTANTS
  Procs = {p, q}
  ExplicitDb = TRUE
  MaxRuns = 4
  MaxNow = 2
  PerSecond = 2
  ClockMayStep = FALSE
  DiskMayFill = TRUE
  FirstFiles <- AnyFile
  None = None
INVARIANTS TypeOK OneOwner SharedVerdicts
PROPERTIES NewerUntouched SharedHistoryKept
CHECK_DEADLOCK FALSE
