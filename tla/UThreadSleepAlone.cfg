SPECIFICATION Spec
CONSTANTS
  MAX_THREAD = 3
  MaxCreate = 2
  MaxTicks = 3
INVARIANTS NobodyLeftAsleep
