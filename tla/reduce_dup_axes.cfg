\* An axes input that names one axis twice (for example 1 and -2 on rank 3).
SPECIFICATION Spec
CONSTANTS
    DimVals <- MCDimVals
    StrideVals <- MCStrideVals
    MaxRank = 3
    MaxAxes = 2
    MAX_DIM = 8
    AllowDuplicateAxes = TRUE
INVARIANT ReductionPreserved
CHECK_DEADLOCK FALSE
