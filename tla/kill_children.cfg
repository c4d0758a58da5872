SPECIFICATION Spec
CONSTANTS
  MaxTasks = 3
  MAX_PRIORITY = 0
  TIME_SLICE = 1
  Window = {w1}
  NoWindow = NoWindow
  MAX_PENDING_MESSAGES = 1
  MaxSleepTicks = 1
  FreedNodeReused = FALSE
INVARIANT KillReachesChildren
