SPECIFICATION FairSpec
CONSTANTS
  NBUCKET = 2
  NKEYS = 4
  KeySpace <- MCKeySpace
  ThreadNums = {1, 2, 3}
INVARIANTS PutsKept CountsExact
PROPERTIES QuietReads Termination
