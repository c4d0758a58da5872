SPECIFICATION MemorySpec
CONSTANTS
  PAGE_SIZE = 2
  contiguous_res_bytes = 4
  Layouts <- JustOneChunk
  Placements <- InReservation
  lin_first_page = 2
  lin_upper_bound = 9
  MaxBuffer = 2
INVARIANT BuffersSpareTheBoot
CHECK_DEADLOCK FALSE
