\* None of these holds, and TLC stops at the first: keep the line in question.
SPECIFICATION Spec
CONSTANTS
  Window = {w1}
  NoWindow = NoWindow
  Bit = {400, 422, 469}
  Boxed = {422, 469}
  Typed = {50, 150}
  MaxDialogs = 3
PROPERTIES
  AppliesItsOwn
  ChangesNothingElse
