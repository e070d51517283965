SPECIFICATION BmapSpec
CONSTANTS
  NDIRECT = 1
  NINDIRECT = 2
  NBLOCK = 10
  POINTERS = 8
  MAX_ARBITRARY_BLOCKS = 5
  MaxBlocks = 5
INVARIANTS BlocksKept
