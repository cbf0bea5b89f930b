--------------------------- MODULE DimensionCollapse ---------------------------
(***************************************************************************)
(* The broadcast shape canonicaliser of broadcast_tiling.cpp:              *)
(* DoDimensionCollapse choosing between DimensionCollapse (all inputs      *)
(* contiguous) and NonContiguousDimensionCollapse (inputs with strides).   *)
(*                                                                         *)
(* One behaviour is one call. The collapse itself is a pure function of    *)
(* the shapes and strides, so it is an operator (CollapseResult) and the   *)
(* call is one step. The per-row merge loop, which the code runs once for  *)
(* each input and once for the output, is the RECURSIVE CollapseLoop.     *)
(*                                                                         *)
(* Shapes are sequences, and the code's 0-based axis j is position j+1.    *)
(* Rows 1..N of dims and strides are the inputs, and row N+1 is the output. *)
(***************************************************************************)
EXTENDS Integers, Sequences, FiniteSets

LOCAL INSTANCE Functions

CONSTANTS
    DimVals,        \* axis lengths of the inputs
    OutDimVals,     \* axis lengths of an explicitly given output shape
    MaxRank,        \* largest rank of an input or of the output
    NumInputs,      \* number of inputs of the operator
    OutputInferred  \* TRUE: the output shape is the broadcast of the inputs

ASSUME MaxRank \in 1..8 /\ NumInputs \in 1..3 /\ OutputInferred \in BOOLEAN

\* BROADCAST_MAX_DIMS of broadcast_tiling_base.h
BROADCAST_MAX_DIMS == 8

VARIABLES
    params,   \* inShape, inStride, outShape, inputAllContiguous of BroadcastTilingParams
    pc,       \* "idle", "start", "done" or "failed"
    dims,     \* broadcastTilingData.dims: one collapsed row per input, then the output
    strides   \* broadcastTilingData.strides, same layout

vars == <<params, pc, dims, strides>>

-----------------------------------------------------------------------------
\* Element j (0-based) of a sequence.
At(s, j) == s[j + 1]

\* Product of the elements of s from 1-based position lo to the end.
RECURSIVE SeqProductFrom(_, _)
SeqProductFrom(s, lo) == IF lo > Len(s) THEN 1 ELSE s[lo] * SeqProductFrom(s, lo + 1)

\* The element strides of a row-major tensor of shape s.
RowMajorStrides(s) == [j \in 1..Len(s) |-> SeqProductFrom(s, j + 1)]

\* Left-pad a shape with 1s (and its strides with 0s) to rank n.
PadShape(s, n) == [j \in 1..(n - Len(s)) |-> 1] \o s
PadStrideSentinel(st, n) == [j \in 1..(n - Len(st)) |-> -1] \o st
PadStride(st, n) == [j \in 1..(n - Len(st)) |-> 0] \o st

\* The broadcast signature of axis i: bit (N-1-j) is set iff input j has
\* length 1 there (flag <<= 1; flag++ per input).
RECURSIVE SignatureCount(_, _, _)
SignatureCount(ins, i, j) ==
    IF j > Len(ins) THEN 0
    ELSE (IF ins[j][i] = 1 THEN 1 ELSE 0) + SignatureCount(ins, i, j + 1)

RECURSIVE Signature(_, _, _)
Signature(ins, i, j) ==
    IF j > Len(ins) THEN 0
    ELSE (IF ins[j][i] = 1 THEN 2^(Len(ins) - j) ELSE 0) + Signature(ins, i, j + 1)

\* The axes j with isAxesContiguous[j] true: the merge rules of
\* DimensionCollapse apply on every axis, while NonContiguousDimensionCollapse
\* initialises that array all false and never sets an entry.
AllAxesContiguous(p, n) == 0..(n - 1)
IsAxesContiguous(p, n) == IF p.inputAllContiguous THEN 0..(n - 1) ELSE {}

\* The merge loop of one row. acc holds the row built so far (tmp), the
\* signature of its last axis (prevFlag) and the axes whose original stride is
\* marked -1 (merged away or dropped). contigAxes is IsAxesContiguous.
RECURSIVE CollapseLoop(_, _, _, _, _, _, _)
CollapseLoop(row, flags, out, target, contigAxes, j, acc) ==
    IF j >= Len(row) THEN acc
    ELSE
      LET cur     == At(row, j)
          curFlag == At(flags, j)
          isValid == acc.prevFlag = curFlag \/ (acc.prevFlag = target /\ At(out, j - 1) = 1)
      IN  IF isValid /\ (j - 1) \in contigAxes
          THEN CollapseLoop(row, flags, out, target, contigAxes, j + 1,
                 [tmp      |-> SubSeq(acc.tmp, 1, Len(acc.tmp) - 1)
                                   \o <<cur * acc.tmp[Len(acc.tmp)]>>,
                  prevFlag |-> curFlag,
                  marked   |-> acc.marked \cup {j - 1}])
          ELSE IF curFlag = target /\ At(out, j) = 1
          THEN CollapseLoop(row, flags, out, target, contigAxes, j + 1,
                 [acc EXCEPT !.marked = @ \cup {j}])
          ELSE CollapseLoop(row, flags, out, target, contigAxes, j + 1,
                 [tmp |-> Append(acc.tmp, cur), prevFlag |-> curFlag, marked |-> acc.marked])

CollapseRow(row, flags, out, target, contigAxes) ==
    CollapseLoop(row, flags, out, target, contigAxes, 1,
                 [tmp |-> <<At(row, 0)>>, prevFlag |-> At(flags, 0), marked |-> {}])

\* The strides that remain once the -1 marks are filtered out.
RECURSIVE DropMarked(_, _, _)
DropMarked(st, marked, j) ==
    IF j > Len(st) THEN <<>>
    ELSE (IF (j - 1) \in marked THEN <<>> ELSE <<st[j]>>) \o DropMarked(st, marked, j + 1)

\* The strides computed from the collapsed dims, right to left: 0 on an axis
\* where an input broadcasts, else the running product of its own dims.
ComputedStrides(d, od, isOut) ==
    [j \in 1..Len(d) |-> IF ~isOut /\ d[j] = 1 /\ od[j] # 1 THEN 0
                         ELSE SeqProductFrom(d, j + 1)]

\* The whole of DimensionCollapse / NonContiguousDimensionCollapse followed
\* by the rank check of DoDimensionCollapse.
CollapseResult(p) ==
    LET n       == Len(p.outShape)
        k       == Len(p.inShape)
        out     == p.outShape
        rankBad == \E i \in 1..k : Len(p.inShape[i]) > n
        ins     == [i \in 1..k |-> PadShape(p.inShape[i], n)]
        shapeBad == \E a \in 1..n, i \in 1..k :
                      (ins[i][a] # 1 /\ ins[i][a] # out[a]) \/ ins[i][a] <= 0
        flags   == [a \in 1..n |-> Signature(ins, a, 1)]
        target  == 2^k - 1
        contig  == IsAxesContiguous(p, n)
        rows    == [i \in 1..k |-> CollapseRow(ins[i], flags, out, target, contig)]
        outDims == CollapseRow(out, flags, out, target, contig).tmp
        d       == [i \in 1..(k + 1) |-> IF i = k + 1 THEN outDims ELSE rows[i].tmp]
        given(i) == ~p.inputAllContiguous /\ p.inStride[i] # <<>>
        kept(i)  == LET st == PadStride(p.inStride[i], n)
                    IN  DropMarked(st, rows[i].marked, 1)
        base(i)  == IF given(i) THEN kept(i) ELSE ComputedStrides(d[i], outDims, i = k + 1)
        st      == [i \in 1..(k + 1) |->
                      IF i = k + 1 THEN ComputedStrides(outDims, outDims, TRUE)
                      ELSE [j \in 1..Len(d[i]) |->
                              IF d[i][j] = 1 /\ outDims[j] # 1 THEN 0 ELSE base(i)[j]]]
    IN  IF rankBad \/ shapeBad THEN [ok |-> FALSE, err |-> "invalid-shape"]
        ELSE IF Len(outDims) > BROADCAST_MAX_DIMS THEN [ok |-> FALSE, err |-> "unsupported-rank"]
        ELSE [ok |-> TRUE, dims |-> d, strides |-> st]

-----------------------------------------------------------------------------
(* The calls the model makes: every shape set of small rank, the strides of *)
(* every axis order for the non-contiguous path, and an output that is     *)
(* either the broadcast of the inputs or any shape.                        *)

InShapes == UNION {[1..r -> DimVals] : r \in 0..MaxRank}

RECURSIVE SetProduct(_, _)
SetProduct(s, B) ==
    IF B = {} THEN 1 ELSE LET b == CHOOSE x \in B : TRUE IN s[b] * SetProduct(s, B \ {b})

\* The strides of a tensor of shape s stored with its axes in the order perm.
LayoutStrides(s, perm) == [a \in 1..Len(s) |-> SetProduct(s, {b \in 1..Len(s) : perm[b] > perm[a]})]

StrideChoices(s) == {<<>>} \cup {LayoutStrides(s, perm) : perm \in Bijection(1..Len(s), 1..Len(s))}

MaxOf(S) == CHOOSE x \in S : \A y \in S : x >= y

\* The output shape the broadcast infershape gives, for compatible inputs.
BroadcastOf(ins) ==
    LET n == MaxOf({Len(ins[i]) : i \in 1..Len(ins)})
        pad == [i \in 1..Len(ins) |-> PadShape(ins[i], n)]
    IN  [a \in 1..n |-> MaxOf({pad[i][a] : i \in 1..Len(ins)})]

Compatible(ins) ==
    LET out == BroadcastOf(ins)
    IN  Len(out) >= 1 /\ \A i \in 1..Len(ins), a \in 1..Len(out) :
            PadShape(ins[i], Len(out))[a] \in {1, out[a]}

OutChoices(ins) ==
    IF OutputInferred THEN (IF Compatible(ins) THEN {BroadcastOf(ins)} ELSE {})
    ELSE UNION {[1..r -> OutDimVals] : r \in 1..MaxRank}

NoParams == [inShape |-> <<>>, inStride |-> <<>>, outShape |-> <<>>, inputAllContiguous |-> TRUE]

Init ==
    /\ params = NoParams
    /\ pc = "idle"
    /\ dims = <<>>
    /\ strides = <<>>

\* BroadcastTiling is called with some BroadcastTilingParams.
Call ==
    /\ pc = "idle"
    /\ \E ins \in [1..NumInputs -> InShapes], contig \in BOOLEAN :
         \E out \in OutChoices(ins) :
           \E st \in IF contig THEN {[i \in 1..NumInputs |-> <<>>]}
                     ELSE {f \in [1..NumInputs -> UNION {StrideChoices(ins[i]) : i \in 1..NumInputs}] : \A i \in 1..NumInputs : f[i] \in StrideChoices(ins[i])} :
             params' = [inShape |-> ins, inStride |-> st, outShape |-> out,
                        inputAllContiguous |-> contig]
    /\ pc' = "start"
    /\ UNCHANGED <<dims, strides>>

\* DoDimensionCollapse returns GRAPH_FAILED.
Reject ==
    /\ pc = "start"
    /\ ~CollapseResult(params).ok
    /\ pc' = "failed"
    /\ UNCHANGED <<params, dims, strides>>

\* DoDimensionCollapse stores dims and strides in the tiling data.
Collapse ==
    /\ pc = "start"
    /\ CollapseResult(params).ok
    /\ dims' = CollapseResult(params).dims
    /\ strides' = CollapseResult(params).strides
    /\ pc' = "done"
    /\ UNCHANGED params

Next == Call \/ Reject \/ Collapse

Spec == Init /\ [][Next]_vars

-----------------------------------------------------------------------------
(* Properties.                                                             *)

K == Len(params.inShape)
OutRow == dims[K + 1]

TypeOK ==
    /\ pc \in {"idle", "start", "done", "failed"}
    /\ dims \in Seq(Seq(Nat))
    /\ strides \in Seq(Seq(Nat))
    /\ pc = "done" => Len(dims) = K + 1 /\ Len(strides) = K + 1

\* Spec 4.1 (CollapsedShapeSet, broadcast legality): after DimensionCollapse
\* accepts a shape set, every collapsed row has the output's rank, and every
\* collapsed input axis is 1 or the collapsed output axis.
BroadcastLegal ==
    pc = "done" =>
        \A i \in 1..K :
            /\ Len(dims[i]) = Len(OutRow)
            /\ Len(strides[i]) = Len(OutRow)
            /\ \A j \in 1..Len(OutRow) : dims[i][j] \in {1, OutRow[j]}

RECURSIVE Dot(_, _, _)
Dot(x, y, j) == IF j > Len(x) THEN 0 ELSE x[j] * y[j] + Dot(x, y, j + 1)

\* The element of input i that the original shapes and strides read for the
\* output element at multi-index idx: broadcasting axes read index 0.
OriginalOffset(p, i, idx) ==
    LET n   == Len(p.outShape)
        s   == PadShape(p.inShape[i], n)
        st  == IF ~p.inputAllContiguous /\ p.inStride[i] # <<>>
               THEN PadStride(p.inStride[i], n) ELSE RowMajorStrides(s)
    IN  Dot([a \in 1..n |-> IF s[a] = 1 THEN 0 ELSE idx[a]], st, 1)

\* The element the collapsed dims and strides read for the same output
\* element: its row-major position decomposed over the collapsed output dims.
CollapsedOffset(i, idx, out) ==
    LET lin  == Dot(idx, RowMajorStrides(out), 1)
        cidx == [a \in 1..Len(OutRow) |-> (lin \div SeqProductFrom(OutRow, a + 1)) % OutRow[a]]
    IN  Dot(cidx, strides[i], 1)

\* The kernel addresses every input through the collapsed dims and strides
\* alone. For every output element, they must name the input element that
\* the original shapes (and strides, on the non-contiguous path) name.
AddressingPreserved ==
    pc = "done" =>
        LET out == params.outShape
        IN  \A idx \in [1..Len(out) -> 0..(MaxOf({x : x \in {out[a] : a \in 1..Len(out)}}) - 1)] :
              (\A a \in 1..Len(out) : idx[a] < out[a]) =>
                \A i \in 1..K :
                    /\ Len(dims[i]) = Len(OutRow)
                    /\ OriginalOffset(params, i, idx) = CollapsedOffset(i, idx, out)

================================================================================
