SPECIFICATION FairSpec
CONSTANTS
  NBUCKET = 2
  NKEYS = 3
  nthread = 2
  KeySpace <- MCKeySpace
INVARIANTS NoLostPut IInv
PROPERTIES BucketStable Linearizable Termination
