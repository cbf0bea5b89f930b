\* 32- and 64-bit minimum dtypes: budgets that are not multiples of CACHE_LINE.
CONSTANTS
  DimVals <- MCDimVals
  MaxRank = 3
  UbSizes <- MCUbSizesTiny
  ExtraSizes <- MCExtraSizes
  BufferDivisors <- MCBufferDivisors
  DtypeBits <- MCDtypeWide
  CoreNums <- MCCoreNums
  Schedules <- MCSchedContiguous
SPECIFICATION Spec
INVARIANT BudgetRespected
\* A tiling call returns: "done" and "failed" are final states.
CHECK_DEADLOCK FALSE
