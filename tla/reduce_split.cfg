\* The reduce tiling call: normaliser, then the split planner.
SPECIFICATION Spec
CONSTANTS
    DimVals <- MCDimValsEmpty
    StrideVals <- MCStrideVals
    MaxRank = 3
    MaxAxes = 2
    MAX_DIM = 16
    AllowDuplicateAxes = FALSE
    Hardware <- MCHardwareEmpty
    Dags <- MCDags
    CACHE_BUF_SIZE <- MCCacheBufSize
INVARIANT TypeOK
INVARIANT UnitsTileShape
INVARIANT TileFitsBasicBlock
INVARIANT BlockDimWithinCores
CHECK_DEADLOCK FALSE
