--------------------------- MODULE MC_TilingBuffer ---------------------------
(* An instance of TilingBuffer for TLC.                                    *)
EXTENDS TilingBuffer

\* Init on an empty and on a 3-byte block: 3 doubles to 6, 12, 24, none a
\* power of two, so grown sizes differ from requested ones.
MCInitSizes == {0, 3}

\* An empty Append, one that fits a 3-byte block and one that does not.
MCAppendLens == {0, 2, 5}

\* Back past the start, stay, and forward past the end, from each direction.
MCSeekLens == {-1, 0, 4}
================================================================================
