\* Tiling call then kernel walk on every core; the kernel refines TileCover.
CONSTANTS
  DimVals <- MCDimVals
  MaxRank = 2
  UbSizes <- MCUbSizes
  ExtraSizes <- MCExtraSizes
  BufferDivisors <- MCBufferDivisors
  DtypeBits <- MCDtypeBits
  CoreNums <- MCCoreNums
  Schedules <- MCSchedKernels
  MaxTiles = 12
SPECIFICATION Spec
PROPERTY KernelCoversTiles
INVARIANT ElementsWritten
INVARIANT BrcBufferCurrent
INVARIANT UbBrcBufferCurrent
\* A failed call and a finished kernel are final states.
CHECK_DEADLOCK FALSE
