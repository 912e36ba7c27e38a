SPECIFICATION Spec
CONSTANTS
  Procs = {p}
  ExplicitDb = TRUE
  MaxRuns = 3
  MaxNow = 2
  PerSecond = 2
  ClockMayStep = FALSE
  DiskMayFill = FALSE
  FirstFiles <- RealFile
  None = None
INVARIANTS ResetIsNarrated
CHECK_DEADLOCK FALSE
