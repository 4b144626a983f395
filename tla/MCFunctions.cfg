CONSTANTS
  Dates = {20231231, 20240101, 20240131, 20240201, 20240228, 20240229, 20240301, 20240331, 20240430, 20240501, 21000228, 21000301}
  Seconds = {0, 59, 60, 3600, 86399}
  WindowInputs <- MCWindowInputs
  PriceInputs <- MCPriceInputs
  Counts = {0, 3, 6}
  Half = 8388608
  MaxLines = 4
  MaxLine = 7
SPECIFICATION MCSpec
INVARIANTS ContractKept WindowsTile ChargesCovered StreamFaithful
CHECK_DEADLOCK FALSE
