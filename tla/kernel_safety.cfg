SPECIFICATION Spec
CONSTANTS
  MaxTasks = 3
  MAX_PRIORITY = 1
  TIME_SLICE = 2
  Window = {w1, w2}
  NoWindow = NoWindow
  MAX_PENDING_MESSAGES = 1
  MaxSleepTicks = 2
  FreedNodeReused = TRUE
SYMMETRY WindowSymmetry
INVARIANTS IInv  NoLostWakeup WokenFindsMessage TerminatedIsForgotten
PROPERTIES TickIsFair LifeSpec
