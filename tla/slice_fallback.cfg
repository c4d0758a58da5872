SPECIFICATION FairSpec
CONSTANTS
  MaxTasks = 2
  MAX_PRIORITY = 1
  TIME_SLICE = 2
  Window = {w1}
  NoWindow = NoWindow
  MAX_PENDING_MESSAGES = 1
  MaxSleepTicks = 1
  FreedNodeReused = FALSE
PROPERTY ExpiredSliceFallsBack
