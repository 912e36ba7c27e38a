SPECIFICATION Spec2
CONSTANTS
  N = 2
  Interval = 6000
  BackoffEnabled = TRUE
  IdleTicks = 3
  MaxPanics = 3
  Samples <- MCSamples
  Bodies <- MCBodies
  Overheads <- MCOverheads
  AgeCap = 18100
  None = None
  MAX_CONSECUTIVE_PANICS = 2
  SINK_MAX_PER_MIN = 2
  SinkMinute = 2
  MaxTicks = 4
  MaxFacts = 2
  Boards <- MCBoards
  Cards = {1}
  Pids = {1}
  Fds = {1, 2}
  MaxCount = 2
  MaxNow = 3
  Sources = {"nvml", "amdgpu", "intel", "none"}
  MaxAsserted = 2
  Bits = {"SW_THERMAL_SLOWDOWN", "GPU_IDLE", "VRHOT", "PROCHOT",
          "thermal", "pl1", "pl2", "future"}
  Instances <- MCInstances
  SNAPSHOT_REUSE_MS = 1
  REEXPAND_MS = 2
  MaxClock = 5
  Adapters <- MCAdapters
  Printed <- MCPrinted
  Owners = {1, 2}
  Engines <- MCEngines
  Full = 2
  MaxReadings = 2
  Frames <- MCFrames
  Ten = 2
  Minute = 4
  MaxTs = 5
  Inventories <- MCInventories
  Clocks = {100, 1500, 9999}
  Ticks = {0, 1, 3}
  Draws = {0, 3}
  Intervals = {0, 7}
  GapEvery = 6
  GapMin = 2
  GapSpread = 2
  FirstToggle = 3
  Hold = 4
  Away = 2
  TogglesIn = 2
  Floor = 1
  Start = 3
  Ceiling = 5
  MaxTick = 20
  Demos = {"demo 1", "demo 2"}
  Others = {"--mock --db"}
  SeedSteps = 1
  MaxKills = 1
INVARIANTS TypesOK RateIsKept SessionIsToldOnce EachBoardOnce ReadingsAreTrue FiguresAreTrue DemoHolds
PROPERTIES StallNeverFromOwnSleep RatesAreReal
CHECK_DEADLOCK FALSE
