\* None of these holds, and TLC stops at the first: keep the line in question.
SPECIFICATION Spec
CONSTANTS
  p1 = p1
  p2 = p2
  w1 = w1
  w2 = w2
  w3 = w3
  Process = {p1, p2}
  Window = {w1, w2, w3}
  ProcessOf <- MCProcessOf
  None = None
  MayFail = FALSE
  MaxLoads = 2
INVARIANTS
  CaptureIsSwitched
  CommandIsShown
