------------------------------ MODULE ReduceShape ------------------------------
(***************************************************************************)
(* The reduce shape normaliser of reduce_tiling.cpp: the axes intake of    *)
(* GetInputParam, ParamCheck, and TransformShape (EliminateOne,            *)
(* PadDimForNonContiguous, MergeAxis) followed by the pattern dispatch of  *)
(* DoTilingMatchPattern with PadDimOne.                                    *)
(*                                                                         *)
(* One behaviour is one tiling call. Each function of the pipeline is one  *)
(* step; its loop is a RECURSIVE operator that updates the arrays in place *)
(* exactly as the code does, so the order of finds, erases and writes is   *)
(* kept. The code's C arrays are sequences, and its 0-based index i is     *)
(* position i+1 (see At and Put). opInput_.axes is the sequence axes; a    *)
(* std::find on it is SelectInSeq, which returns 0 when nothing matches.   *)
(***************************************************************************)
EXTENDS Integers, Sequences, FiniteSets

LOCAL INSTANCE SequencesExt

CONSTANTS
    DimVals,            \* axis lengths of the input tensor
    StrideVals,         \* strides a view input may carry on an axis
    MaxRank,            \* largest input rank
    MaxAxes,            \* largest number of entries of the axes input
    MAX_DIM,            \* MAX_DIM of the reduce tiling data (array length)
    AllowDuplicateAxes  \* TRUE: the axes input may name an axis twice

ASSUME MaxRank \in 1..(MAX_DIM - 1) /\ MaxAxes \in 0..MaxRank

VARIABLES
    pc,          \* "idle", "check", "eliminate", "pad", "merge", "match",
                 \* "done", "unsupported" or "failed"
    input,       \* the input as GetInputParam read it: [shape, strides, axes]
    axes,        \* opInput_.axes
    viewShape,   \* newShape of DoReduceTiling
    viewStride,  \* newStride of DoReduceTiling
    shapeSize,   \* newShapeSize of DoReduceTiling
    sliceNum,    \* sliceNum_
    sliceShape,  \* sliceShape_
    sliceStride, \* sliceStride_
    viewStride_  \* viewStride_: the stride of each merged axis

vars == <<pc, input, axes, viewShape, viewStride, shapeSize,
          sliceNum, sliceShape, sliceStride, viewStride_>>

-----------------------------------------------------------------------------
\* Element i (0-based) of an array, and the array with element i set to v.
At(s, i) == s[i + 1]
Put(s, i, v) == [s EXCEPT ![i + 1] = v]

\* std::find(axes.begin(), axes.end(), v): a 1-based position, 0 for end().
Find(ax, v) == SelectInSeq(ax, LAMBDA x : x = v)

RECURSIVE SeqProd(_)
SeqProd(s) == IF s = <<>> THEN 1 ELSE Head(s) * SeqProd(Tail(s))

\* std::sort of a sequence of integers (duplicates kept).
RECURSIVE InsertSorted(_, _)
InsertSorted(x, s) ==
    IF s = <<>> \/ x <= Head(s) THEN <<x>> \o s
    ELSE <<Head(s)>> \o InsertSorted(x, Tail(s))
RECURSIVE SortAsc(_)
SortAsc(s) == IF s = <<>> THEN s ELSE InsertSorted(Head(s), SortAsc(Tail(s)))

\* The strides GetInputStride computes for a tensor that is not a view.
RECURSIVE RowMajor(_)
RowMajor(sh) ==
    IF sh = <<>> THEN <<>>
    ELSE LET inner == RowMajor(Tail(sh))
         IN  <<IF inner = <<>> THEN 1 ELSE Head(inner) * Head(Tail(sh))>> \o inner

\* CheckIsContiguous: the loop overwrites its flag on every axis, so only
\* the last axis (stride 1) decides.
CheckIsContiguous(in) == At(in.strides, Len(in.shape) - 1) = 1

\* MakeWrapDim: negative axes are counted from the end, then sorted.
MakeWrapDim(shape, ax) ==
    SortAsc([k \in DOMAIN ax |-> IF ax[k] < 0 THEN ax[k] + Len(shape) ELSE ax[k]])

\* Fault model: the lower bound of the range check is missing.
AxesCheckNoLowerBound(shape, ax) ==
    /\ Len(ax) <= Len(shape)
    /\ \A k \in DOMAIN ax : ax[k] < Len(shape)

\* AxesCheck: at most one entry per axis, and every entry in [0, rank).
AxesCheck(shape, ax) ==
    /\ Len(ax) <= Len(shape)
    /\ \A k \in DOMAIN ax : ax[k] >= 0 /\ ax[k] < Len(shape)

-----------------------------------------------------------------------------
(* EliminateOne: shape[0] = 1 is prepended, every axis of length 1 that is *)
(* contiguous with its successor is dropped and the reduce axes after it   *)
(* are renumbered by the count of dropped axes (eraseNum).                 *)
\* Fault model: a kept reduce axis is not renumbered.
RenumberNone(v, eraseNum) == v

\* *iter = *iter - eraseNum
Renumber(v, eraseNum) == v - eraseNum

RECURSIVE EliminateLoop(_, _, _)
EliminateLoop(in, i, st) ==
    IF i >= Len(in.shape) THEN st
    ELSE LET n      == Len(in.shape)
             iter   == Find(st.ax, i + 1)
             contig == IF i # n - 1
                       THEN At(in.strides, i) = At(in.strides, i + 1) * At(in.shape, i + 1)
                       ELSE At(in.strides, i) = 1
         IN  IF At(in.shape, i) # 1 \/ ~contig
             THEN EliminateLoop(in, i + 1,
                    [st EXCEPT !.vs  = Append(@, At(in.shape, i)),
                               !.vst = Append(@, At(in.strides, i)),
                               !.ax  = IF iter > 0 THEN [@ EXCEPT ![iter] = Renumber(@, st.erase)]
                                       ELSE @])
             ELSE EliminateLoop(in, i + 1,
                    [st EXCEPT !.erase = @ + 1,
                               !.ax    = IF iter > 0 THEN RemoveAt(@, iter) ELSE @])

EliminateOne(in, ax) ==
    LET st == EliminateLoop(in, 0,
                [vs |-> <<1>>, vst |-> <<0>>, erase |-> 0,
                 ax |-> [k \in DOMAIN ax |-> ax[k] + 1]])
    IN  [st EXCEPT !.vst = Put(@, 0, At(in.strides, 0) * At(in.shape, 0))]

-----------------------------------------------------------------------------
(* PadDimForNonContiguous: a length-1 axis is inserted after every         *)
(* non-contiguous axis but the last, with the kind opposite to that axis.  *)
(* The loop runs backwards and writes in place at j >= i.                  *)
Contiguous(vs, vst, n, i) ==
    IF i # n - 1 THEN At(vst, i) = At(vst, i + 1) * At(vs, i + 1)
    ELSE At(vst, i) = 1

NonContiguousNum(vs, vst, n) ==
    Cardinality({i \in 0..(n - 2) : At(vst, i) # At(vst, i + 1) * At(vs, i + 1)})

RECURSIVE PadLoop(_, _, _, _)
PadLoop(n, i, j, st) ==
    IF i < 0 THEN st
    ELSE LET iter     == Find(st.ax, i)
             isReduce == iter > 0
             padded   == ~Contiguous(st.vs, st.vst, n, i) /\ i # n - 1
             p        == IF padded
                         THEN [vs  |-> Put(st.vs, j, 1),
                               vst |-> Put(st.vst, j, At(st.vst, j + 1) * At(st.vs, j + 1)),
                               ax  |-> IF ~isReduce THEN Append(st.ax, j) ELSE st.ax]
                         ELSE st
             k        == IF padded THEN j - 1 ELSE j
         IN  PadLoop(n, i - 1, k - 1,
                [vs  |-> Put(p.vs, k, At(p.vs, i)),
                 vst |-> Put(p.vst, k, At(p.vst, i)),
                 ax  |-> IF isReduce THEN [p.ax EXCEPT ![iter] = k] ELSE p.ax])

\* newShape and newStride are zero-initialised arrays.
Widen(s, m) == [k \in 1..m |-> IF k <= Len(s) THEN s[k] ELSE 0]

PadDimForNonContiguous(vs, vst, ax, n) ==
    LET nc == NonContiguousNum(vs, vst, n)
        st == PadLoop(n, n - 1, nc + n - 1,
                      [vs |-> Widen(vs, nc + n), vst |-> Widen(vst, nc + n), ax |-> ax])
    IN  [st EXCEPT !.ax = SortAsc(@)] @@ [size |-> nc + n]

-----------------------------------------------------------------------------
(* MergeAxis: maximal runs of axes of one kind (A or R) become one axis.   *)
(* Inside a run, an axis whose stride is not the contiguous stride of its  *)
(* successor starts a new slice: sliceNum counts the slices, sliceShape is *)
(* the length of the last one and sliceStride the stride between slices.   *)
(* Later R axes of a run are erased from axes, the first is renumbered.    *)
\* Fault model: the slice stride always follows the contiguous stride.
SliceStrideAlwaysContiguous(contig1, cur, sst) == cur

\* sliceStride_ = isContiguous1 ? curContiguousStride : sliceStride_
SliceStride(contig1, cur, sst) == IF contig1 THEN cur ELSE sst

\* Fault model: a merged R axis is left in axes.
KeepMerged(ax, iter1) == ax

\* opInput_.axes.erase(iter1) for an R axis merged into its run.
EraseMerged(ax, iter1) == IF iter1 > 0 THEN RemoveAt(ax, iter1) ELSE ax

RECURSIVE MergeInner(_, _, _, _, _, _)
MergeInner(vs, vst, n, isRAxis0, j, g) ==
    IF j >= n THEN g @@ [j |-> j]
    ELSE LET cur     == IF j = n - 1 THEN 1 ELSE At(vst, j + 1) * At(vs, j + 1)
             contig1 == At(vst, j) = cur
             iter1   == Find(g.ax, j)
         IN  IF isRAxis0 # (iter1 > 0) THEN g @@ [j |-> j]
             ELSE MergeInner(vs, vst, n, isRAxis0, j + 1,
                    [sn  |-> IF ~contig1 THEN g.s ELSE g.sn,
                     s   |-> g.s * At(vs, j),
                     ssh |-> IF contig1 THEN g.ssh * At(vs, j) ELSE At(vs, j),
                     sst |-> SliceStride(contig1, cur, g.sst),
                     vst |-> At(vst, j),
                     ax  |-> EraseMerged(g.ax, iter1)])

RECURSIVE MergeLoop(_, _, _, _, _)
MergeLoop(vs, vst, n, i, st) ==
    IF i >= n THEN st
    ELSE LET iter0 == Find(st.ax, i)
             g     == MergeInner(vs, vst, n, iter0 > 0, i + 1,
                        [sn |-> 1, s |-> At(vs, i), ssh |-> At(vs, i),
                         sst |-> At(vst, i), vst |-> At(vst, i), ax |-> st.ax])
         IN  MergeLoop(vs, vst, n, g.j,
                [shape |-> Append(st.shape, g.s),
                 sn    |-> Append(st.sn, g.sn),
                 ssh   |-> Append(st.ssh, g.ssh),
                 sst   |-> Append(st.sst, g.sst),
                 vst_  |-> Append(st.vst_, g.vst),
                 ax    |-> IF iter0 > 0 THEN [g.ax EXCEPT ![iter0] = Len(st.shape)]
                           ELSE g.ax])

MergeAxis(vs, vst, ax, n) ==
    MergeLoop(vs, vst, n, 0, [shape |-> <<>>, sn |-> <<>>, ssh |-> <<>>,
                              sst |-> <<>>, vst_ |-> <<>>, ax |-> ax])

-----------------------------------------------------------------------------
(* PadDimOne: patterns of 5, 6 and 7 axes are padded in front with length-1 *)
(* axes to the 9- or 8-axis pattern; the padded strides continue those of  *)
(* the first real axis.                                                    *)
PadNum(dim) == CASE dim = 5 -> 4 [] dim = 6 -> 2 [] dim = 7 -> 2 [] OTHER -> 0

PadFront(s, k, v) == [i \in 1..k |-> v] \o s

PadDimOne(dim) ==
    LET k == PadNum(dim)
    IN  /\ viewShape'   = PadFront(viewShape, k, 1)
        /\ sliceNum'    = PadFront(sliceNum, k, 1)
        /\ sliceShape'  = PadFront(sliceShape, k, 1)
        /\ viewStride_' = PadFront(viewStride_, k, At(viewStride_, 0) * At(viewShape, 0))
        /\ sliceStride' = PadFront(sliceStride, k, At(sliceStride, 0) * At(sliceNum, 0))

-----------------------------------------------------------------------------
\* Inputs of a call: a non-scalar shape below MAX_DIM axes, row-major or
\* view strides, and the const axes input (out-of-range entries included).
Shapes == UNION {[1..r -> DimVals] : r \in 1..MaxRank}
StrideChoices(sh) == {RowMajor(sh)} \cup [1..Len(sh) -> StrideVals]
AxesChoices(sh) ==
    {ax \in BoundedSeq(-(Len(sh) + 1)..Len(sh), MaxAxes) :
        AllowDuplicateAxes
        \/ Cardinality(ToSet(MakeWrapDim(sh, ax))) = Len(ax)}

\* CheckAllReduce: the inferred output has one element.
KeptAxes(sh, ax) == {k \in 0..(Len(sh) - 1) : ~\E m \in DOMAIN ax : ax[m] = k}
CheckAllReduce(sh, ax) ==
    SeqProd([m \in 1..Cardinality(KeptAxes(sh, MakeWrapDim(sh, ax))) |->
               At(sh, CHOOSE k \in KeptAxes(sh, MakeWrapDim(sh, ax)) :
                   Cardinality({q \in KeptAxes(sh, MakeWrapDim(sh, ax)) : q < k}) = m - 1)]) = 1

NoArray == <<>>

Init ==
    /\ pc = "idle"
    /\ input = [shape |-> NoArray, strides |-> NoArray, axes |-> NoArray]
    /\ axes = NoArray
    /\ viewShape = NoArray /\ viewStride = NoArray /\ shapeSize = 0
    /\ sliceNum = NoArray /\ sliceShape = NoArray /\ sliceStride = NoArray
    /\ viewStride_ = NoArray

\* GetInputParam: an all-reduce output with a contiguous last axis reduces
\* every axis and skips the const axes input.
Call ==
    /\ pc = "idle"
    /\ \E sh \in Shapes : \E st \in StrideChoices(sh) : \E ax \in AxesChoices(sh) :
         LET in == [shape |-> sh, strides |-> st, axes |-> ax]
         IN  /\ input' = in
             /\ axes' = IF CheckAllReduce(sh, ax) /\ CheckIsContiguous(in)
                        THEN [k \in 1..Len(sh) |-> k - 1] ELSE ax
    /\ pc' = "check"
    /\ UNCHANGED <<viewShape, viewStride, shapeSize, sliceNum, sliceShape,
                   sliceStride, viewStride_>>

\* ParamCheck: wrap and sort the axes, then reject illegal ones.
ParamCheck ==
    /\ pc = "check"
    /\ axes' = MakeWrapDim(input.shape, axes)
    /\ pc' = IF AxesCheck(input.shape, axes') THEN "eliminate" ELSE "failed"
    /\ UNCHANGED <<input, viewShape, viewStride, shapeSize, sliceNum, sliceShape,
                   sliceStride, viewStride_>>

Eliminate ==
    /\ pc = "eliminate"
    /\ LET st == EliminateOne(input, axes)
       IN  /\ viewShape' = st.vs /\ viewStride' = st.vst /\ axes' = st.ax
           /\ shapeSize' = Len(st.vs)
    /\ pc' = "pad"
    /\ UNCHANGED <<input, sliceNum, sliceShape, sliceStride, viewStride_>>

Pad ==
    /\ pc = "pad"
    /\ LET st == PadDimForNonContiguous(viewShape, viewStride, axes, shapeSize)
       IN  /\ viewShape' = st.vs /\ viewStride' = st.vst /\ axes' = st.ax
           /\ shapeSize' = st.size
    /\ pc' = "merge"
    /\ UNCHANGED <<input, sliceNum, sliceShape, sliceStride, viewStride_>>

Merge ==
    /\ pc = "merge"
    /\ LET st == MergeAxis(viewShape, viewStride, axes, shapeSize)
       IN  /\ viewShape' = st.shape /\ axes' = st.ax
           /\ sliceNum' = st.sn /\ sliceShape' = st.ssh /\ sliceStride' = st.sst
           /\ viewStride_' = st.vst_ /\ shapeSize' = Len(st.shape)
    /\ pc' = "match"
    /\ UNCHANGED <<input, viewStride>>

\* DoTilingMatchPattern: shapeSize picks one of the nine A-first patterns;
\* DoReduceTiling drops the failure status of an unsupported size.
MatchPattern ==
    /\ pc = "match"
    /\ IF shapeSize \in 1..9
       THEN PadDimOne(shapeSize) /\ pc' = "done"
       ELSE pc' = "unsupported" /\ UNCHANGED <<viewShape, sliceNum, sliceShape,
                                               sliceStride, viewStride_>>
    /\ UNCHANGED <<input, axes, viewStride, shapeSize>>

Next == Call \/ ParamCheck \/ Eliminate \/ Pad \/ Merge \/ MatchPattern

Spec == Init /\ [][Next]_vars

-----------------------------------------------------------------------------
(* What an element is, before and after the normalisation. Linear index L  *)
(* runs over the elements in row-major order, which eliminating length-1   *)
(* axes, padding length-1 axes and merging neighbours all preserve.        *)
RECURSIVE SeqTotal(_)
SeqTotal(s) == IF s = <<>> THEN 0 ELSE Head(s) + SeqTotal(Tail(s))

\* Coordinate of linear index L on (1-based) axis k of shape sh.
Digit(L, sh, k) == (L \div SeqProd(SubSeq(sh, k + 1, Len(sh)))) % sh[k]

\* Row-major position of L's coordinates on the axes of set ks only.
KeyOn(L, sh, ks) ==
    SeqTotal([k \in DOMAIN sh |->
        IF k \in ks
        THEN Digit(L, sh, k) * SeqProd([m \in DOMAIN sh |-> IF m > k /\ m \in ks THEN sh[m] ELSE 1])
        ELSE 0])

Elements == 0..(SeqProd(input.shape) - 1)

\* The input: address from the strides; output element from the kept axes
\* the caller asked for.
OrigAddr(L) == SeqTotal([k \in DOMAIN input.shape |-> Digit(L, input.shape, k) * input.strides[k]])
OrigKept == {k \in DOMAIN input.shape : k - 1 \in KeptAxes(input.shape, MakeWrapDim(input.shape, input.axes))}
OrigOut(L) == KeyOn(L, input.shape, OrigKept)

\* The tiling data: a merged axis is sliceNum slices of sliceShape elements
\* (element stride viewStride_, slice stride sliceStride); the A-first
\* patterns keep the even (0-based) axes.
NormAddr(L) ==
    SeqTotal([k \in DOMAIN viewShape |->
        LET y == Digit(L, viewShape, k)
        IN  (y \div sliceShape[k]) * sliceStride[k] + (y % sliceShape[k]) * viewStride_[k]])
NormKept == {k \in DOMAIN viewShape : (k - 1) % 2 = 0}
NormOut(L) == KeyOn(L, viewShape, NormKept)

-----------------------------------------------------------------------------
TypeOK ==
    /\ pc \in {"idle", "check", "eliminate", "pad", "merge", "match",
               "done", "unsupported", "failed"}
    /\ axes \in Seq(Int)
    /\ pc \notin {"idle", "check", "failed"} => axes \in Seq(Nat)
    /\ \A s \in {viewShape, viewStride, sliceNum, sliceShape, sliceStride, viewStride_} :
         s \in Seq(Nat)
    /\ shapeSize \in Nat

\* The tiling data addresses the same memory as the input view: every
\* element, reached through the merged axes and their slices after
\* EliminateOne, PadDimForNonContiguous, MergeAxis and PadDimOne, has the
\* address its coordinates and strides give in the input.
AddressingPreserved ==
    pc = "done" =>
        /\ SeqProd(viewShape) = SeqProd(input.shape)
        /\ \A L \in Elements : OrigAddr(L) = NormAddr(L)

\* Reducing the normalised shape on its odd axes groups the elements into
\* the same output elements, in the same order, as reducing the input on
\* the axes the caller passed (the all-reduce shortcut of GetInputParam
\* included).
ReductionPreserved ==
    pc = "done" => \A L \in Elements : OrigOut(L) = NormOut(L)

\* After MergeAxis, opInput_.axes holds exactly the odd axes, once each:
\* the alternation DoTilingMatchPattern takes for granted when it picks a
\* pattern from newShapeSize alone.
PatternAlternates ==
    pc = "match" => axes = [k \in 1..(shapeSize \div 2) |-> 2 * k - 1]

\* PadDimForNonContiguous and MergeAxis stay inside the MAX_DIM arrays
\* newShape, newStride and the slice arrays of the tiling data.
NoArrayOverrun == shapeSize <= MAX_DIM
================================================================================
