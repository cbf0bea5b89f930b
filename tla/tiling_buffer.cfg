\* ExtendedTilingBuffer under four calls of Init, Append and Seek; size_t of
\* 8 bits keeps every reachable size far below the point where doubling
\* wraps, as 64 bits do for real buffers, while a negative seek still wraps.
SPECIFICATION Spec
CONSTANTS
    W = 8
    Bytes = {b1, b2}
    Undef = Undef
    Null = Null
    InitSizes <- MCInitSizes
    AppendLens <- MCAppendLens
    SeekLens <- MCSeekLens
    MaxCalls = 4
    EnlargeMayFail = TRUE
INVARIANT TypeOK
INVARIANT CursorInBlock
PROPERTY Refines
PROPERTY AppendReturns
\* The user stops after MaxCalls calls.
CHECK_DEADLOCK FALSE
