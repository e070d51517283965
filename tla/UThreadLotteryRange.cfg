SPECIFICATION Spec
CONSTANTS
  MAX_THREAD = 4
  MaxCreate = 4
  Tickets = {20000}
  RAND = 32768
INVARIANTS EveryHolderCanWin
