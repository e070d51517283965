SPECIFICATION PaddedSpec
CONSTANTS
  NBUCKET = 2
  NKEYS = 4
  KeySpace = {0, 1, 2}
  ThreadNums = {2}
INVARIANTS SeparateLines
