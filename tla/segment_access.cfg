SPECIFICATION LoadSpec
CONSTANTS
  Images <- MCImages
  ArgLists <- MCArgLists
  LOAD_PAGE = 8
  LOAD_PAGES = 5
  ARGS_PAGE = 3
  WORD_BYTES = 2
INVARIANT SegmentAccess
CHECK_DEADLOCK FALSE
