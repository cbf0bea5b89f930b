\* The reduce normaliser on inputs up to rank 3, views included, distinct axes.
SPECIFICATION Spec
CONSTANTS
    DimVals <- MCDimVals
    StrideVals <- MCStrideVals
    MaxRank = 3
    MaxAxes = 2
    MAX_DIM = 8
    AllowDuplicateAxes = FALSE
INVARIANT TypeOK
INVARIANT AddressingPreserved
INVARIANT ReductionPreserved
INVARIANT PatternAlternates
\* A tiling call returns: done, unsupported and failed are final states.
CHECK_DEADLOCK FALSE
