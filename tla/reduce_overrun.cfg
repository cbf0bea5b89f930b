\* Inputs of the largest rank GetInputShape accepts (MAX_DIM - 1), strided
\* on some axes.
SPECIFICATION Spec
CONSTANTS
    DimVals <- MCDimValsWide
    StrideVals <- MCStrideValsWide
    MaxRank = 7
    MaxAxes = 0
    MAX_DIM = 8
    AllowDuplicateAxes = FALSE
INVARIANT NoArrayOverrun
CHECK_DEADLOCK FALSE
