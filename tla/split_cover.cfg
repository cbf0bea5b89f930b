\* Every minimum dtype width on every UB size: budgets that are multiples of
\* CACHE_LINE, budgets that are not, budgets below CACHE_LINE (the wrap) and
\* the early returns.
CONSTANTS
  DimVals <- MCDimVals
  MaxRank = 3
  UbSizes <- MCUbSizesAll
  ExtraSizes <- MCExtraSizes
  BufferDivisors <- MCBufferDivisors
  DtypeBits <- MCDtypeAll
  CoreNums <- MCCoreNums
  Schedules <- MCSchedAll
SPECIFICATION Spec
INVARIANT TypeOK
INVARIANT Coverage
INVARIANT LineAlignedBudgetSafe
INVARIANT TileFitsElemNum
\* A tiling call returns: "done" and "failed" are final states.
CHECK_DEADLOCK FALSE
