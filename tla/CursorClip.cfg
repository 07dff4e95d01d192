SPECIFICATION Spec
CONSTANTS
  Window = {w1, w2}
  Thread = {t1, t2}
  None = None
INVARIANTS
  ClipHasOwner
PROPERTIES
  FreedWhenOff
