SPECIFICATION LocksSpec
CONSTANTS
  NBUCKET = 3
  NKEYS = 4
  NSWAP = 3
  KeySpace <- MCKeySpace
  WaitBuckets = 2
  ChainBuckets = 1
  Getter = {"g1", "g2"}
  Putter = {"p1", "p2"}
  MaxSpurious = 3
  Caller = {"t1", "t2", "t3"}
  MaxPuts = 4
INVARIANTS NoDeadlyEmbrace IInv WaitInv ChainKept
PROPERTIES NeverPassed AllReturn
