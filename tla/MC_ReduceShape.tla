---------------------------- MODULE MC_ReduceShape ----------------------------
(* Instances of ReduceShape for TLC.                                       *)
EXTENDS ReduceShape

\* Lengths 1 (eliminated or padded), 2 and 3 tell every merge apart.
MCDimVals == {1, 2, 3}

\* View strides: 1 and the products 2, 3, 6 that make neighbours contiguous
\* or not depending on the lengths; 4 is never a contiguous stride here.
MCStrideVals == {1, 2, 3, 4, 6}

\* Rank-7 inputs for the array bound: every axis length 2, strides that are
\* contiguous (1) or not (4) on each axis.
MCDimValsWide == {2}
MCStrideValsWide == {1, 4}
================================================================================
