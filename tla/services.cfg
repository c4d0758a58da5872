SPECIFICATION ServicesSpec
CONSTANTS
  PAGE_SIZE = 2
  META_BLOCK_SIZE = 2
  Sizes = {0, 3}
  Alignments = {0, 4}
  alignof_max_align_t = 2
  MaxHeap = 18
  contiguous_res_bytes = 4
  Layouts <- MCLayouts
  Placements <- MCPlacements
  lin_first_page = 2
  lin_upper_bound = 9
  MaxBuffer = 2
  LEVELS = 4
  TABLE_ENTRIES = 2
  Attr = {rw, ro}
  NoAttr = NoAttr
  MapRequests <- MCMaps
  Ranges <- MCRanges
  PipeTask = {t1, t2}
  NoTask = NoTask
  Byte = {0, 1}
  m_capacity = 3
  MaxCount = 4
  Process = {p1, p2}
  NB_FRAMES = 4
  PROC_PAGE_SIZE = 2
  STACK_PAGES = 1
  LowPages = 1
  MaxHeapPages = 3
  Amounts = {3}
  NoProcess = NoProcess
  NoFrame = NoFrame
  Node = {n1, n2, n3, n4}
  nullptr = nullptr
  m_width = 4
  m_height = 3
  WORD = 64
  CHAR_WIDTH = 1
  CHAR_HEIGHT = 2
  ADVANCE = 2
  LINE_HEIGHT = 2
  Clips <- MCClips
  Coord <- MCCoord
  Extent <- MCExtent
  Texts <- MCTexts
  FileTask = {t1, t2}
  Address = {n1, n2, n3}
  file_size <- MCFiles
  dir_size <- MCDirs
  Counts = {1, 3}
  DtName = {0, 1, 2}
  name_bytes <- MCNameBytes
  DtBlobs <- MCBlobs
  DtPaths <- MCPaths
  SocMaps <- MCSocMaps
  WORD_VALUES = 16
  DT_PAGE_SIZE = 2
  DEVICE_MEMORY = 100
  Images <- MCImages
  ArgLists <- MCArgLists
  LOAD_PAGE = 8
  LOAD_PAGES = 5
  ARGS_PAGE = 3
  WORD_BYTES = 2
INVARIANTS HeapIsSafe  PipeInv TlbIsCurrent NoSharedFrame ListIsSequence PaintsWhatIsAsked HandlesAreSafe FindsWhatIsThere  ImageIsLoaded ArgumentsArrive
PROPERTIES MapIsExact EditsAreSafe ChannelSpec
CHECK_DEADLOCK FALSE
