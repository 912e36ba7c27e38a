SPECIFICATION Spec
CONSTANTS
  N = 2
  Interval = 1000
  BackoffEnabled = TRUE
  IdleTicks = 3
  MaxPanics = 3
  Samples <- MCSamples
  Bodies <- MCBodies
  Overheads <- MCOverheads
  AgeCap = 5600
  None = None
PROPERTY StallNeverFromOwnSleep
