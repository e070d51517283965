SPECIFICATION Spec
CONSTANTS
  MAX_THREAD = 4
  MaxCreate = 5
  Priorities = {1, 9999}
INVARIANTS ExitMeansNoRunnable
