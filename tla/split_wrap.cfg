\* Budgets below CACHE_LINE reach the preference loop of every tiling variant.
CONSTANTS
  DimVals <- MCDimVals
  MaxRank = 3
  UbSizes <- MCUbSizesTiny
  ExtraSizes <- MCExtraSizes
  BufferDivisors <- MCBufferDivisors
  DtypeBits <- MCDtypeWide
  CoreNums <- MCCoreNums
  Schedules <- MCSchedAll
SPECIFICATION Spec
INVARIANT NoBudgetWrap
\* A tiling call returns: "done" and "failed" are final states.
CHECK_DEADLOCK FALSE
