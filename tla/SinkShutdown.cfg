CONSTANTS
  Decisions = {d1, d2}
  BufferSize = 2
  BatchSize = 2
SPECIFICATION Spec
INVARIANT RecordNeverFails
CHECK_DEADLOCK FALSE
