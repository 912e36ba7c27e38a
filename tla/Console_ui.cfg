SPECIFICATION Spec
CONSTANTS
  OneMin = 20
  Rungs <- MCRungs
  DefaultZoom = 2
  HalfWindow = 15
  Scrubs = {10}
  Jumps = {2}
  Cols = 3
  StoryRows = 2
  Lookback = 20
  Retain = 25
  FeedCap = 2
  Steps = {10}
  Readings <- MCReadings
  Told = {0, 1}
  Failures <- MCFailures
  Starts <- MCStarts
  MaxNow = 35
  MaxCursor = 45
  MaxEvents = 2
  None = None
INVARIANTS TypeOK PaintsTheRecording WindowIsCurrent
PROPERTIES LookingIsHeld OverviewCatchesUp
CHECK_DEADLOCK FALSE
