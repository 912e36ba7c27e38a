SPECIFICATION Spec
CONSTANTS
  Devices = {a, b}
  Pids = {p, q}
  Fds = {1}
  MaxCount = 1
  MaxNow = 2
  None = None
PROPERTIES LaterSightingsReturnTheRate
CHECK_DEADLOCK FALSE
