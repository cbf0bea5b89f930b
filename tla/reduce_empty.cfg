\* Inputs with an empty axis on a UB large enough for CalcBasicBlock to
\* pass: the pattern-A plan of ComputeEmptyTiling.
SPECIFICATION Spec
CONSTANTS
    DimVals <- MCDimValsEmpty
    StrideVals <- MCNoViewStrides
    MaxRank = 3
    MaxAxes = 2
    MAX_DIM = 16
    AllowDuplicateAxes = FALSE
    Hardware <- MCHardwareLarge
    Dags <- MCDags
    CACHE_BUF_SIZE <- MCCacheBufSize
INVARIANT EmptyOutputCovered
CHECK_DEADLOCK FALSE
