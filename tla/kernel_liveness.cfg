SPECIFICATION FairSpec
CONSTANTS
  MaxTasks = 3
  MAX_PRIORITY = 1
  TIME_SLICE = 1
  Window = {w1}
  NoWindow = NoWindow
  MAX_PENDING_MESSAGES = 1
  MaxSleepTicks = 2
  FreedNodeReused = FALSE
PROPERTIES RoundRobin SleepersWake
