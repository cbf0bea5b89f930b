-------------------------- MODULE MC_BroadcastSplit --------------------------
(***************************************************************************)
(* Model-checking instance of BroadcastSplit.  Axis lengths 3, 40 and 700  *)
(* put the split on every axis of rank <= 3 shapes under budgets of 512 to *)
(* 2176 elements; the UB sizes give budgets on both sides of the 512-floor *)
(* and, for 32/64-bit types, budgets that are not multiples of CACHE_LINE  *)
(* and budgets below CACHE_LINE; 0 cores and 0 UB reach the early returns. *)
(***************************************************************************)
EXTENDS BroadcastSplit

MCDimVals == {1, 3, 40, 700}
MCUbSizes == {0, 1200, 2200}
MCUbSizesTiny == {100, 1000, 2200}
MCUbSizesAll == MCUbSizes \cup MCUbSizesTiny
MCExtraSizes == {0, 100}
MCBufferDivisors == {8, 16}
\* Budgets are multiples of CACHE_LINE exactly when minDtypeBits <= 16.
MCDtypeAligned == {8, 16}
MCDtypeAll == {8, 16, 32, 64}
MCDtypeWide == {32, 64}
MCCoreNums == {0, 4, 8}
\* The tiling variants: the contiguous DoBrodcastTiling alone, or every one.
MCSchedContiguous == {"contiguous"}
MCSchedAll == {"contiguous", "lastTranspose", "nlastTranspose", "ubBroadcast"}
\* Smaller bounds for the liveness check of the preference loop.
MCDimValsLive == {1, 3, 700}
MCUbSizesLive == {1200, 2200}
MCExtraSizesLive == {100}
MCCoreNumsLive == {8}
=============================================================================
