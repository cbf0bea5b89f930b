\* Both collapse variants, two inputs, output shape from the broadcast infershape.
SPECIFICATION Spec
CONSTANTS
    DimVals <- MCDimVals
    OutDimVals <- MCOutDimVals
    MaxRank = 3
    NumInputs = 2
    OutputInferred = TRUE
INVARIANT TypeOK
INVARIANT BroadcastLegal
INVARIANT AddressingPreserved
\* A tiling call returns: done and failed are final states.
CHECK_DEADLOCK FALSE
