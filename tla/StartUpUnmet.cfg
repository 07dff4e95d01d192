\* None of these holds, and TLC stops at the first: keep the line in question.
SPECIFICATION StartSpec
CONSTANTS
  Run = {r1, r2, r3}
  Key = {1, 2}
INVARIANTS
  OneWindow
  NoneIsLost
  NoRunValue
PROPERTIES
  AlwaysStarts
CHECK_DEADLOCK FALSE
