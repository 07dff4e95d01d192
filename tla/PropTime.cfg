SPECIFICATION TimeSpec
CONSTANTS
  LOW = 4
  SECOND = 3
  PER_HIGH = 2
  Births = {1, 2}
  MaxNow = 5
  MaxOpened = 2
INVARIANTS
  ShownIsAge
CHECK_DEADLOCK FALSE
