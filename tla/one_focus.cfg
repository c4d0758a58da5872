SPECIFICATION MCSpec
CONSTANTS
  INT_MAX = 7
  Window = {w1, w2, w3}
  NoWindow = NoWindow
  BACKGROUND = BACKGROUND
  CURSOR = CURSOR
  m_screen_width = 2
  m_screen_height = 2
  MIN_WIDTH = 1
  MIN_HEIGHT = 1
  MAX_WIDTH = 4
  MAX_HEIGHT = 4
  CURSOR_WIDTH = 1
  CURSOR_HEIGHT = 1
  Arrows <- MCArrows
  FreshRects <- MCFresh
  Requests <- MCRequests
  Parts <- MCParts
  Moves <- MCMoves
  WindowCount = 2
  ScreenWidth = 3
  ScreenHeight = 3
  Areas <- MCAreas
INVARIANT OneFocus
CHECK_DEADLOCK FALSE
