\* None of these holds, and TLC stops at the first: keep the line in question.
SPECIFICATION Spec
CONSTANTS
  Window = {w1, w2}
  Thread = {t1, t2}
  None = None
INVARIANTS
  AlwaysOwned
PROPERTIES
  ActiveConfines
  ConfinedToOne
