CONSTANTS
  N = 2
  MaxEvents = 3
SPECIFICATION FairSpec
INVARIANTS OneTargetSeen OutcomeValid LadderExplained NoLeakedBody SettledFairly
PROPERTIES CancelEnds
