SPECIFICATION StartSpec
CONSTANTS
  Run = {r1, r2, r3}
  Key = {1, 2}
INVARIANTS
  CleanIsStamped
PROPERTIES
  ServedWhileWatching
  StartsOrHandsOver
CHECK_DEADLOCK FALSE
