CONSTANTS
  Requests = {r1, r2, r3}
  TTL = 2
  MaxClock = 3
  MaxVersion = 2
SPECIFICATION Spec
INVARIANTS StalenessBounded
PROPERTIES OldLimitsBeatNone
CHECK_DEADLOCK FALSE
