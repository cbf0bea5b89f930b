\* One input, any output shape (as BroadcastTo passes its target shape).
SPECIFICATION Spec
CONSTANTS
    DimVals <- MCDimValsPositive
    OutDimVals <- MCDimValsPositive
    MaxRank = 3
    NumInputs = 1
    OutputInferred = FALSE
INVARIANT BroadcastLegal
\* A tiling call returns: done and failed are final states.
CHECK_DEADLOCK FALSE
