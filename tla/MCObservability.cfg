CONSTANTS
  Decisions <- MCDecisions
  Row <- MCRow
  Tenant = "a"
  ReportLimit = 1
  PageLimit = 1
  BufferSize = 2
  BatchSize = 2
SPECIFICATION ObsSpec
INVARIANTS Conserved LedgerExplained FlushDrains ReadsConsistent PageWalk
PROPERTIES RecordsLand
CHECK_DEADLOCK FALSE
