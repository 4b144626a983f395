CONSTANTS
  r1 = r1  r2 = r2   p1 = p1  p2 = p2  month = month  minute = minute
  Requests = {r1, r2}
  Replicas = {p1, p2}
  Windows = {month, minute}
  Host <- MCHost
  Spans <- MCSpans
  MaxCost <- MCMaxCost
  Block <- MCBlock
  Costs = {0, 2}
  FailClosed = FALSE
  MaxSeedRounds = 3
  MaxFaults = 0
SPECIFICATION Spec
INVARIANTS LiveCounterExact
