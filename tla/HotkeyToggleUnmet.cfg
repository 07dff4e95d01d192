\* None of these holds, and TLC stops at the first: keep the line in question.
SPECIFICATION Spec
CONSTANTS
  Key = {k1, k2}
  None = None
  MaxBoxes = 2
INVARIANTS
  RegisteredIsChosen
  RegisteredIsSaved
  HookedIsActive
PROPERTIES
  DistinctKeys
