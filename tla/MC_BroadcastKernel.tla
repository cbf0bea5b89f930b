-------------------------- MODULE MC_BroadcastKernel --------------------------
(***************************************************************************)
(* Model-checking instance of BroadcastKernel. Rank-2 shapes of lengths 3,  *)
(* 90 and 2000 split on axis 0 and on axis 1 under budgets of about 500 to *)
(* 1100 elements, and give plans of up to MaxTiles tiles over 3 or 4 cores. *)
(***************************************************************************)
EXTENDS BroadcastKernel

MCDimVals == {3, 90, 2000}
MCUbSizes == {1200, 2200}
MCExtraSizes == {100}
MCBufferDivisors == {16}
MCDtypeBits == {16}
MCCoreNums == {3, 4}
MCSchedContiguous == {"contiguous"}
\* The kernel is the n-last-transpose NDDMA schedule: it consumes the result
\* of BroadcastTilingNLastTranspose without isUbBroadcast.
MCSchedNLast == {"nlastTranspose"}
\* The three kernels: each consumes the result of its own tiling variant.
MCSchedKernels == {"nlastTranspose", "lastTranspose", "ubBroadcast"}
=============================================================================
