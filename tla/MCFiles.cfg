SPECIFICATION FilesSpec
CONSTANTS
  NDIRECT = 1
  NINDIRECT = 2
  NBLOCK = 10
  POINTERS = 64
  MAX_ARBITRARY_BLOCKS = 5
  MaxBlocks = 3
  Inode = {0, 1, 2, 3}
  Proc = {p, q}
  Creator = {q}
  DEPTH = 2
  MAXPATH = 4
  ADDRS = 3
  Tweaks = {1, 2, 3, 4, 5, 6, 7, 8, 9}
  Outside = {3}
INVARIANTS FileKept CleanReturns OpensRight
PROPERTIES OpensEnd
