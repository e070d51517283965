SPECIFICATION PackagesFair
CONSTANTS
  MAX_THREAD = 4
  MaxCreate = 3
  Priorities = {1, 10}
  Tickets = {0, 1, 100}
  RAND = 32768
  MaxTicks = 3
  ITERATIONS = 1000
  YIELDS = 3000
INVARIANTS StacksKept AbandonsOnly NamesAndLotsRight NoLostIncrement
PROPERTIES RightNext WaitersWait PlainImplement DuesPaid
