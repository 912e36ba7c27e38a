SPECIFICATION Spec2
CONSTANTS
  OnePid = {p}
  Pids = {p, q}
  Mems = {0, 3000}
  ProcUtils = {0}
  Cpus = {None, 200}
  Utils = {0, 5, 30, 80, None}
  Throttles = {"throttling", "clear", None}
  Useds = {None, 17, 18, 20}
  MayBlind = TRUE
  MayMiss = TRUE
  MaxNow = 8
  ListsNow = 5
  DeviceNow = 6
  Total = 20
  IDLE_ACTIVE_MIN = 1
  IDLE_GAP_MIN = 1
  HANG_MIN = 2
  SPILLOVER_WINDOW = 2
  VRAM_WINDOW = 3
  VRAM_MIN_SPAN = 1
  VRAM_COOLDOWN = 2
  VRAM_MIN_SLOPE = 1
  None = None
INVARIANTS TypeOK FactsFollowState InferencesHold TrendIsOneClimb
PROPERTIES GapsAreTroughs
CHECK_DEADLOCK FALSE
