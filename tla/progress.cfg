SPECIFICATION ProgressSpec
CONSTANTS
  m_nb_pages = 6
  _nb_pages = 5
  MaxRange = 3
  Sleeper = {t1, t2, t3}
  COUNTER = 5
  TICK_PERIOD = 2
  MaxLatency = 1
  MaxRequest = 3
  MaxTasks = 1
  MAX_PRIORITY = 2
  TIME_SLICE = 2
  InputKey = {"ctrl_l", "ctrl_r", "caps_lock"}
  Moves <- MCMoves
  MAX_DELTA = 2
  RX_DEPTH = 3
  RX_LEVEL = 1
  MaxPending = 2
  SysTimer = {1, 3}
  VC_UART = 57
  MaxWaiting = 1
INVARIANTS TimerArmed  EventsInOrder
PROPERTIES SleepDuration TimersSpec  EventsArrive TicksForEver PoolSpec LoopsEnd RangesAreSafe
CHECK_DEADLOCK FALSE
