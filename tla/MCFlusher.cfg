CONSTANTS
  d1 = d1  d2 = d2  d3 = d3  d4 = d4  k1 = k1  k2 = k2  k3 = k3
  Deltas = {d1, d2, d3, d4}
  Keys = {k1, k2, k3}
  KeyOf <- MCKeyOf
  Buffer = 2
  MaxFailures = 2
SPECIFICATION FairSpec
INVARIANTS NoSilentLoss CommittedOnce NeverPanics CloseFlushes
PROPERTIES AcceptedLands ImplementsLog
CHECK_DEADLOCK FALSE
