CONSTANTS
  N = 2
  MaxEvents = 2
SPECIFICATION Spec
INVARIANT HeaderTimeoutFailsOver
