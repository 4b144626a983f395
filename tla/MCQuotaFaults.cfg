CONSTANTS
  r1 = r1  r2 = r2   p1 = p1  p2 = p2  month = month  minute = minute
  Requests = {r1, r2}
  Replicas = {p1}
  Windows = {month}
  Host <- MCHostOne
  Spans <- MCSpans
  MaxCost <- MCMaxCost
  Block <- MCBlock
  Costs = {1, 2}
  FailClosed = TRUE
  MaxSeedRounds = 3
  MaxFaults = 2
SPECIFICATION Spec
INVARIANTS TypeOK NoDoubleCount CapHolds DurableAccounted SeedRoundsBounded
PROPERTIES BlockedOnlyWhenFull
CHECK_DEADLOCK FALSE
