\* None of these holds, and TLC stops at the first: keep the line in question.
SPECIFICATION TimeFairSpec
CONSTANTS
  LOW = 4
  SECOND = 3
  PER_HIGH = 2
  Births = {1, 2}
  MaxNow = 5
  MaxOpened = 2
INVARIANTS
  ShownIsAlwaysAge
PROPERTIES
  LoopEnds
CHECK_DEADLOCK FALSE
