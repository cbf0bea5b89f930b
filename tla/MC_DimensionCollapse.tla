------------------------- MODULE MC_DimensionCollapse -------------------------
(* Instances of DimensionCollapse for TLC.                                 *)
EXTENDS DimensionCollapse

\* Axis lengths 1 (broadcast), 2 and 3 tell every merge and stride apart;
\* 0 is an empty tensor, which the collapse must reject.
MCDimVals == {0, 1, 2, 3}

\* Inputs without the empty axis, for the runs with an explicit output.
MCDimValsPositive == {1, 2, 3}

\* An explicitly given output may have any length, 0 included.
MCOutDimVals == {0, 1, 2, 3}
================================================================================
