SPECIFICATION MMUSpec
CONSTANTS
  LEVELS = 4
  TABLE_ENTRIES = 2
  Attr = {rw, ro}
  NoAttr = NoAttr
  MapRequests <- MCMaps
  Ranges <- MCRanges
PROPERTY UnmapIsExact
