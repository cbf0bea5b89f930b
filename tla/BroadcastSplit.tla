--------------------------- MODULE BroadcastSplit ---------------------------
(***************************************************************************)
(* The broadcast Core/UB splitter: DoBrodcastTiling and GetBlockSplitFactor *)
(* of src/op_common/atvoss/broadcast/broadcast_tiling.cpp, with the        *)
(* capacity planner BroadcastGetMaxElemNum of broadcast_tiling_base.cpp,   *)
(* and its transpose variants of broadcast_tiling_noncontiguous.cpp        *)
(* (DoBrodcastTilingLastTranspose, BroadcastTilingNLastTranspose with and  *)
(* without isUbBroadcast) together with the header templates that adapt    *)
(* their result for the kernels (broadcast_tiling_noncontiguous.h).  The   *)
(* variants copy the driver of DoBrodcastTiling and differ in the split    *)
(* factor function, one check and the fields they store; params.schedule   *)
(* names the variant a call runs.                                          *)
(*                                                                         *)
(* One behaviour is one tiling call on one parameter record.  The call is  *)
(* sequential; it is cut into steps at the multi-core preference loop so   *)
(* that every iteration of that loop is a step of its own.  The collapsed  *)
(* output shape (dims.back() in the code) is an input here; the collapse   *)
(* that produces it is the module DimensionCollapse.                       *)
(***************************************************************************)
EXTENDS Integers, Sequences, TLC

CONSTANTS
  DimVals,         \* axis lengths a collapsed output shape is built from
  MaxRank,         \* bound on the collapsed rank
  UbSizes,         \* ubSize values (bytes of UB)
  ExtraSizes,      \* computeParams.extraSize[0] values
  BufferDivisors,  \* computeParams.bufferDivisor[0] values
  DtypeBits,       \* computeParams.minDtypeBits values
  CoreNums,        \* coreNum values
  Schedules        \* the tiling variants a call may run

ASSUME /\ DimVals \subseteq Nat /\ MaxRank \in 1..8
       /\ BufferDivisors \subseteq Nat \ {0}
       /\ DtypeBits \subseteq {8, 16, 32, 64}
       /\ Schedules \subseteq {"contiguous", "lastTranspose", "nlastTranspose", "ubBroadcast"}

\* Constants of broadcast_tiling_base.h / broadcast_tiling_base.cpp.
CACHE_LINE == 128
CACHE_LINE_512 == 512
BROADCAST_BITS_NUM == 8
BROADCAST_REPEAT_BYTES == 256
BROADCAST_COMPUTE_KEY == 1
BROADCAST_COMPUTE_KEY_OFFSET == 1000000
MAX_NDDMA_DIM == 5
BLOCK_LENGTH == 32

VARIABLES
  params,           \* the BroadcastTilingParams of the call (fixed)
  pc,               \* "start", "shrink", "resplit", "done", "failed", "wrapped"
  err,              \* which check failed, "none" while none has
  budget,           \* maxElemNum as BroadcastGetMaxElemNum returned it
  maxElemNum,       \* the local maxElemNum of DoBrodcastTiling
  ubInfo,           \* the ubSplitInfo record
  fusedProduct,     \* fusedProduct of the first split
  blockFormer0,     \* blockFormer of the first split
  blockNum0,        \* blockNum of the first split
  dstFusedProduct,  \* target of the preference loop
  tmpFusedProduct,  \* loop variable of the preference loop
  loopExit,         \* how the preference loop ended: "none", "target", "floor"
  tiling            \* the BroadcastTilingData fields written on success

vars == <<params, pc, err, budget, maxElemNum, ubInfo, fusedProduct,
          blockFormer0, blockNum0, dstFusedProduct, tmpFusedProduct,
          loopExit, tiling>>

CeilDiv(a, b) == (a + b - 1) \div b

\* The product of dims over the 0-based axes lo..hi (1 when lo > hi).
RECURSIVE AxesProduct(_, _, _)
AxesProduct(dims, lo, hi) ==
  IF lo > hi THEN 1 ELSE dims[lo + 1] * AxesProduct(dims, lo + 1, hi)

\* dims.back()[i] of the code, with the code's 0-based axis index.
Dim(dims, i) == dims[i + 1]

(***************************************************************************)
(* BroadcastGetMaxElemNum: the element budget of one tile.                 *)
(***************************************************************************)
BroadcastGetMaxElemNum(p) ==
  LET maxElemNums == ((p.ubSize - p.extraSize) * BROADCAST_BITS_NUM) \div p.bufferDivisor
      alignFactor == (BROADCAST_REPEAT_BYTES * BROADCAST_BITS_NUM) \div p.minDtypeBits
  IN  (maxElemNums \div alignFactor) * alignFactor

BroadcastGetScheduleKey(axisInsideUB) ==
  IF axisInsideUB <= MAX_NDDMA_DIM THEN 100 ELSE 1100

\* Fault model: the tail is taken after ubOuter full pieces.
UbTailOffByOne(dim, ubOuter, ubFormer) == dim - ubOuter * ubFormer

\* The last piece of a split axis of length dim.
UbTail(dim, ubOuter, ubFormer) == dim - (ubOuter - 1) * ubFormer

\* ubSplitInfo is zero-initialised; only the last-transpose split writes
\* the fields of the last axis.
NoLastAxisSplit == [ubFormerLastAxis |-> 0, ubOuterLastAxis |-> 0, ubTailLastAxis |-> 0]

(***************************************************************************)
(* GetBlockSplitFactor: the innermost-outward scan stops at the first axis *)
(* whose running product exceeds maxElemNum; that axis is split.  If the   *)
(* whole shape fits, axis 0 is split.  Returns the ubSplitInfo together    *)
(* with the fused outer product.                                           *)
(***************************************************************************)
GetBlockSplitFactor(dims, m) ==
  LET n        == Len(dims)
      over     == {i \in 0..(n - 1) : AxesProduct(dims, i, n - 1) > m}
      fits     == over = {}
      axis     == IF fits THEN 0 ELSE CHOOSE i \in over : \A j \in over : j <= i
      inner    == AxesProduct(dims, axis + 1, n - 1)
      ubFormer == IF n = 1 THEN m ELSE m \div inner
      ubOuter  == CeilDiv(Dim(dims, axis), ubFormer)
  IN [ubFormer |-> ubFormer, ubSplitAxis |-> axis, ubOuter |-> ubOuter,
      ubTail |-> UbTail(Dim(dims, axis), ubOuter, ubFormer),
      fusedProduct |-> ubOuter * AxesProduct(dims, 0, axis - 1)]
     @@ NoLastAxisSplit

(***************************************************************************)
(* The transpose variants pad the innermost axes to the minimum dtype's    *)
(* 32-byte block: minDtypeBlockAlignSize elements.                         *)
(***************************************************************************)
BlockAlign(p) == (BLOCK_LENGTH * BROADCAST_BITS_NUM) \div p.minDtypeBits

AlignUp(x, a) == ((x + a - 1) \div a) * a

MinOf(a, b) == IF a < b THEN a ELSE b

\* curProduct of the transpose scans once axis i was multiplied in: the
\* product of axes i..n-1, where the product of axes k..n-1 is rounded up
\* to the block once the scan has reached axis lo.
PaddedProduct(dims, i, lo, k, a) ==
  IF i <= lo
  THEN AlignUp(AxesProduct(dims, k, Len(dims) - 1), a) * AxesProduct(dims, i, k - 1)
  ELSE AxesProduct(dims, i, Len(dims) - 1)

\* The common tail of the transpose scans: the scan stops at the first axis
\* (from the innermost) whose padded product exceeds m, divides that axis
\* back out, or divides out axis 0 when everything fits.
ScanSplit(dims, m, lo, k, a) ==
  LET n    == Len(dims)
      over == {i \in 0..(n - 1) : PaddedProduct(dims, i, lo, k, a) > m}
      axis == IF over = {} THEN 0 ELSE CHOOSE i \in over : \A j \in over : j <= i
  IN [axis |-> axis,
      curProduct |-> PaddedProduct(dims, axis, lo, k, a) \div Dim(dims, axis)]

\* The record GetBlockSplitFactor* fill for a split of `axis' by ubFormer.
SplitOf(dims, axis, ubFormer) ==
  LET ubOuter == CeilDiv(Dim(dims, axis), ubFormer)
  IN [ubFormer |-> ubFormer, ubSplitAxis |-> axis, ubOuter |-> ubOuter,
      ubTail |-> UbTail(Dim(dims, axis), ubOuter, ubFormer),
      fusedProduct |-> ubOuter * AxesProduct(dims, 0, axis - 1)]

(***************************************************************************)
(* GetBlockSplitFactorLastTranspose: axis -2 is cut into pieces of at most *)
(* 128 / minDtypeBlockAlignSize rows.  If axis -1 does not fit beside such *)
(* a piece, both are cut (axis -1 by ubFormerLastAxis); otherwise axis -1  *)
(* stays whole and the scan moves outward, padding axes -2..-1 to the      *)
(* block before it multiplies axis -3 in.                                  *)
(***************************************************************************)
GetBlockSplitFactorLastTranspose(dims, m, a) ==
  LET n         == Len(dims)
      lastAxis  == Dim(dims, n - 1)
      before    == Dim(dims, n - 2)
      ubFormer0 == MinOf(before, 128 \div a)
      formerLA  == m \div ubFormer0
      outerLA   == CeilDiv(lastAxis, formerLA)
      sc        == ScanSplit(dims, m, n - 3, n - 2, a)
  IN IF lastAxis > formerLA
     THEN SplitOf(dims, n - 2, ubFormer0)
          @@ [ubFormerLastAxis |-> formerLA, ubOuterLastAxis |-> outerLA,
              ubTailLastAxis |-> lastAxis - (outerLA - 1) * formerLA]
     ELSE SplitOf(dims, sc.axis, m \div sc.curProduct)
          @@ [ubFormerLastAxis |-> lastAxis, ubOuterLastAxis |-> 1,
              ubTailLastAxis |-> lastAxis]

(***************************************************************************)
(* GetBlockSplitFactorNLastTranspose: the scan of GetBlockSplitFactor, but *)
(* the product is rounded up to the block right after axis -2 (axis -1     *)
(* with isUbBroadcast) was multiplied in, before the test against m.        *)
(***************************************************************************)
GetBlockSplitFactorNLastTranspose(dims, m, a, isUbBroadcast) ==
  LET n  == Len(dims)
      b  == IF isUbBroadcast THEN 1 ELSE 2
      sc == ScanSplit(dims, m, n - b, n - b, a)
  IN SplitOf(dims, sc.axis, IF n = 1 THEN m ELSE m \div sc.curProduct) @@ NoLastAxisSplit

\* The split factor function the call's variant uses.
SplitFactor(p, m) ==
  CASE p.schedule = "contiguous"     -> GetBlockSplitFactor(p.dims, m)
    [] p.schedule = "lastTranspose"  -> GetBlockSplitFactorLastTranspose(p.dims, m, BlockAlign(p))
    [] p.schedule = "nlastTranspose" -> GetBlockSplitFactorNLastTranspose(p.dims, m, BlockAlign(p), FALSE)
    [] p.schedule = "ubBroadcast"    -> GetBlockSplitFactorNLastTranspose(p.dims, m, BlockAlign(p), TRUE)

\* The failed check of DoBrodcastTiling, in the order the code tests them.
DoBrodcastTilingError(p) ==
  IF ~p.hasComputeKey THEN "computeKey-not-found"
  ELSE IF p.ubSize < p.extraSize THEN "ubSize-below-extraSize"
  ELSE IF p.ubSize <= 0 THEN "ubSize-zero"
  ELSE IF p.coreNum <= 0 THEN "coreNum-zero"
  ELSE IF BroadcastGetMaxElemNum(p) = 0 THEN "maxElemNum-zero"
  ELSE "none"

\* DoBrodcastTilingLastTranspose makes the same checks, then rejects a
\* collapsed output of rank below 2.
DoBrodcastTilingLastTransposeError(p) ==
  IF DoBrodcastTilingError(p) = "none" /\ Len(p.dims) < 2
  THEN "rank-below-two" ELSE DoBrodcastTilingError(p)

\* BroadcastTilingNLastTranspose makes exactly the checks of DoBrodcastTiling.
BroadcastTilingNLastTransposeError(p) == DoBrodcastTilingError(p)

TilingError(p) ==
  IF p.schedule = "lastTranspose" THEN DoBrodcastTilingLastTransposeError(p)
  ELSE IF p.schedule = "contiguous" THEN DoBrodcastTilingError(p)
  ELSE BroadcastTilingNLastTransposeError(p)

\* The fields DoBrodcastTiling writes after its last split.
StoreTiling(p, m, ub) ==
  LET bf == CeilDiv(ub.fusedProduct, p.coreNum)
      bn == CeilDiv(ub.fusedProduct, bf)
  IN [ubSplitAxis |-> ub.ubSplitAxis, ubFormer |-> ub.ubFormer,
      ubOuter |-> ub.ubOuter, ubTail |-> ub.ubTail,
      blockFormer |-> bf, blockNum |-> bn,
      blockTail |-> ub.fusedProduct - (bn - 1) * bf,
      dimProductBeforeUbInner |-> ub.fusedProduct, elemNum |-> m,
      innerKey |-> BROADCAST_COMPUTE_KEY * BROADCAST_COMPUTE_KEY_OFFSET
                   + BroadcastGetScheduleKey(Len(p.dims) - ub.ubSplitAxis)]

(***************************************************************************)
(* outputStridesWithPad of the Adapt* templates, 0-based: the output's     *)
(* row-major strides, except that the stride of axis n-b is rounded up to  *)
(* the block and every stride outside it is rebuilt from that padded one.  *)
(***************************************************************************)
OutputStridesWithPad(dims, a, b) ==
  LET n == Len(dims) IN
  [i \in 0..(n - 1) |->
     IF i > n - b THEN AxesProduct(dims, i + 1, n - 1)
     ELSE AlignUp(AxesProduct(dims, n - b + 1, n - 1), a) * AxesProduct(dims, i + 1, n - b)]

\* DoBrodcastTilingLastTranspose also stores the last-axis split and the
\* block size; BroadcastTilingNLastTranspose the block size.
StoreLastTranspose(p, m, ub) ==
  StoreTiling(p, m, ub)
  @@ [ubFormerLastAxis |-> ub.ubFormerLastAxis, ubOuterLastAxis |-> ub.ubOuterLastAxis,
      ubTailLastAxis |-> ub.ubTailLastAxis, minDtypeBlockAlignSize |-> BlockAlign(p)]

StoreNLastTranspose(p, m, ub) ==
  StoreTiling(p, m, ub) @@ [minDtypeBlockAlignSize |-> BlockAlign(p)]

\* The adapters copy the tiling data for the kernel and add the padded
\* strides: axis -3 padded, or axis -2 for the n-last transpose with
\* isUbBroadcast.
AdaptBroadcastLastTransposeTilingData(p, t) ==
  t @@ [outputStridesWithPad |-> OutputStridesWithPad(p.dims, t.minDtypeBlockAlignSize, 3)]

\* Fault model: the isUbBroadcast boundary is used for every n-last call.
AdaptBroadcastNLastTransposeTilingDataUbBoundary(p, t) ==
  t @@ [outputStridesWithPad |-> OutputStridesWithPad(p.dims, t.minDtypeBlockAlignSize, 2)]

AdaptBroadcastNLastTransposeTilingData(p, t) ==
  LET b == IF p.schedule = "ubBroadcast" THEN 2 ELSE 3 IN
  t @@ [outputStridesWithPad |-> OutputStridesWithPad(p.dims, t.minDtypeBlockAlignSize, b)]

\* The tiling data a successful call of the variant leaves for its kernel.
Result(p, m, ub) ==
  CASE p.schedule = "contiguous"    -> StoreTiling(p, m, ub)
    [] p.schedule = "lastTranspose" ->
         AdaptBroadcastLastTransposeTilingData(p, StoreLastTranspose(p, m, ub))
    [] OTHER -> AdaptBroadcastNLastTransposeTilingData(p, StoreNLastTranspose(p, m, ub))

Shapes == UNION {[1..r -> DimVals] : r \in 1..MaxRank}

Params ==
  [dims : Shapes, ubSize : UbSizes, extraSize : ExtraSizes,
   bufferDivisor : BufferDivisors, minDtypeBits : DtypeBits,
   coreNum : CoreNums, preferMultiCore : BOOLEAN, hasComputeKey : BOOLEAN,
   schedule : Schedules]

NoTiling == [f \in {} |-> 0]

\* Before the call the parameter record is not yet chosen.
NoParams == [dims |-> <<1>>, ubSize |-> 0, extraSize |-> 0, bufferDivisor |-> 1,
             minDtypeBits |-> 8, coreNum |-> 0, preferMultiCore |-> FALSE,
             hasComputeKey |-> FALSE, schedule |-> "contiguous"]

Init ==
  /\ params = NoParams
  /\ pc = "idle"
  /\ err = "none"
  /\ budget = 0
  /\ maxElemNum = 0
  /\ ubInfo = GetBlockSplitFactor(<<1>>, 1)
  /\ fusedProduct = 0
  /\ blockFormer0 = 0
  /\ blockNum0 = 0
  /\ dstFusedProduct = 0
  /\ tmpFusedProduct = 0
  /\ loopExit = "none"
  /\ tiling = NoTiling

\* The caller (BroadcastTiling, after the collapse) invokes DoBrodcastTiling.
Call ==
  /\ pc = "idle"
  /\ \E p \in Params : params' = p
  /\ pc' = "start"
  /\ UNCHANGED <<err, budget, maxElemNum, ubInfo, fusedProduct, blockFormer0,
                 blockNum0, dstFusedProduct, tmpFusedProduct, loopExit, tiling>>

\* One of the early returns of DoBrodcastTiling.
Reject ==
  /\ pc = "start"
  /\ TilingError(params) # "none"
  /\ pc' = "failed"
  /\ err' = TilingError(params)
  /\ UNCHANGED <<params, budget, maxElemNum, ubInfo, fusedProduct, blockFormer0,
                 blockNum0, dstFusedProduct, tmpFusedProduct, loopExit, tiling>>

\* DoBrodcastTiling up to the preference loop: budget, first split, first
\* core partition; without the preference pass it stores the result.
Start ==
  /\ pc = "start"
  /\ TilingError(params) = "none"
  /\ LET m  == BroadcastGetMaxElemNum(params)
         ub == SplitFactor(params, m)
         bf == CeilDiv(ub.fusedProduct, params.coreNum)
         bn == CeilDiv(ub.fusedProduct, bf)
     IN /\ budget' = m
        /\ maxElemNum' = m
        /\ ubInfo' = ub
        /\ fusedProduct' = ub.fusedProduct
        /\ blockFormer0' = bf
        /\ blockNum0' = bn
        /\ dstFusedProduct' = bf * params.coreNum
        /\ tmpFusedProduct' = ub.fusedProduct
        /\ \/ /\ params.preferMultiCore /\ bn < params.coreNum
              /\ pc' = "shrink"
              /\ UNCHANGED tiling
           \/ /\ ~(params.preferMultiCore /\ bn < params.coreNum)
              /\ pc' = "done"
              /\ tiling' = Result(params, m, ub)
  /\ UNCHANGED <<params, err, loopExit>>

\* maxElemNum = maxElemNum - CACHE_LINE of the preference loop.
Shrunk(m) == m - CACHE_LINE

\* One iteration of the preference loop that goes on splitting.
ShrinkStep ==
  /\ pc = "shrink"
  /\ tmpFusedProduct < dstFusedProduct
  /\ Shrunk(maxElemNum) > CACHE_LINE_512
  /\ maxElemNum' = Shrunk(maxElemNum)
  /\ ubInfo' = SplitFactor(params, Shrunk(maxElemNum))
  /\ tmpFusedProduct' = ubInfo'.fusedProduct
  /\ UNCHANGED <<params, pc, err, budget, fusedProduct, blockFormer0,
                 blockNum0, dstFusedProduct, loopExit, tiling>>

\* The iteration that takes the budget to the 512-element floor: break.
ShrinkFloor ==
  /\ pc = "shrink"
  /\ tmpFusedProduct < dstFusedProduct
  /\ maxElemNum >= CACHE_LINE
  /\ Shrunk(maxElemNum) <= CACHE_LINE_512
  /\ maxElemNum' = Shrunk(maxElemNum)
  /\ pc' = "resplit"
  /\ loopExit' = "floor"
  /\ UNCHANGED <<params, err, budget, ubInfo, fusedProduct, blockFormer0,
                 blockNum0, dstFusedProduct, tmpFusedProduct, tiling>>

\* maxElemNum is uint64_t: below CACHE_LINE the subtraction wraps to about
\* 2^64 and the floor test no longer stops the loop.  The wrapped value is
\* beyond TLC's integers, so the model records the wrap and stops there.
ShrinkWrap ==
  /\ pc = "shrink"
  /\ tmpFusedProduct < dstFusedProduct
  /\ maxElemNum < CACHE_LINE
  /\ maxElemNum' = Shrunk(maxElemNum)
  /\ pc' = "wrapped"
  /\ UNCHANGED <<params, err, budget, ubInfo, fusedProduct, blockFormer0,
                 blockNum0, dstFusedProduct, tmpFusedProduct, loopExit, tiling>>

\* The loop condition fails: the fused product reached the target.
ShrinkReached ==
  /\ pc = "shrink"
  /\ tmpFusedProduct >= dstFusedProduct
  /\ pc' = "resplit"
  /\ loopExit' = "target"
  /\ UNCHANGED <<params, err, budget, maxElemNum, ubInfo, fusedProduct,
                 blockFormer0, blockNum0, dstFusedProduct, tmpFusedProduct, tiling>>

\* Fault model: the round-up adds two cache lines.
RoundUpBudgetTwoLines(m) == ((m + 3 * CACHE_LINE - 1) \div CACHE_LINE) * CACHE_LINE

\* The round-up of the budget after the preference loop.
RoundUpBudget(m) == ((m + CACHE_LINE + CACHE_LINE - 1) \div CACHE_LINE) * CACHE_LINE

\* After the loop: round the budget, split once more, partition, store.
Resplit ==
  /\ pc = "resplit"
  /\ LET m  == RoundUpBudget(maxElemNum)
         ub == SplitFactor(params, m)
     IN /\ maxElemNum' = m
        /\ ubInfo' = ub
        /\ tiling' = Result(params, m, ub)
  /\ pc' = "done"
  /\ UNCHANGED <<params, err, budget, fusedProduct, blockFormer0, blockNum0,
                 dstFusedProduct, tmpFusedProduct, loopExit>>

\* The steps of one DoBrodcastTiling call.
DoBrodcastTiling ==
  Reject \/ Start \/ ShrinkStep \/ ShrinkFloor \/ ShrinkWrap \/ ShrinkReached \/ Resplit

Next == Call \/ DoBrodcastTiling

\* A started call runs to its return without waiting on anything; whether
\* the caller calls at all is not assumed.
Spec == Init /\ [][Next]_vars /\ WF_vars(DoBrodcastTiling)

-----------------------------------------------------------------------------
(***************************************************************************)
(* Properties                                                              *)
(***************************************************************************)

UbInfoType ==
  [ubFormer : Nat, ubSplitAxis : Nat, ubOuter : Nat, ubTail : Nat, fusedProduct : Nat,
   ubFormerLastAxis : Nat, ubOuterLastAxis : Nat, ubTailLastAxis : Nat]

\* The fields of the tiling data each variant writes: the base fields, the
\* block size and padded strides of the transposes, and the last-axis split
\* of the last transpose.
BaseFields ==
  {"ubSplitAxis", "ubFormer", "ubOuter", "ubTail", "blockFormer", "blockNum",
   "blockTail", "dimProductBeforeUbInner", "elemNum", "innerKey"}
LastAxisFields == {"ubFormerLastAxis", "ubOuterLastAxis", "ubTailLastAxis"}
TilingFields(sch) ==
  CASE sch = "contiguous"    -> BaseFields
    [] sch = "lastTranspose" ->
         BaseFields \cup LastAxisFields \cup {"minDtypeBlockAlignSize", "outputStridesWithPad"}
    [] OTHER -> BaseFields \cup {"minDtypeBlockAlignSize", "outputStridesWithPad"}

TilingTypeOK(sch) ==
  /\ DOMAIN tiling = TilingFields(sch)
  /\ \A f \in TilingFields(sch) \ {"outputStridesWithPad"} : tiling[f] \in Nat
  /\ "outputStridesWithPad" \in TilingFields(sch) =>
       tiling.outputStridesWithPad \in [0..(Len(params.dims) - 1) -> Nat]

TypeOK ==
  /\ params \in Params \cup {NoParams}
  /\ pc \in {"idle", "start", "shrink", "resplit", "done", "failed", "wrapped"}
  /\ budget \in Nat /\ maxElemNum \in Int
  /\ ubInfo \in UbInfoType
  /\ pc = "done" => TilingTypeOK(params.schedule)
  /\ loopExit \in {"none", "target", "floor"}

\* Elements of the output outside / inside the split axis of the result.
OuterProduct == AxesProduct(params.dims, 0, tiling.ubSplitAxis - 1)
InnerProduct == AxesProduct(params.dims, tiling.ubSplitAxis + 1, Len(params.dims) - 1)

(***************************************************************************)
(* Coverage (spec section 8): the result DoBrodcastTiling stores tiles the *)
(* whole output.  The split axis is cut into ubOuter pieces, the last one   *)
(* of ubTail elements with 1 <= ubTail <= ubFormer, so the tiles hold       *)
(* exactly the output's elements; the fused outer trip count is cut into    *)
(* blockNum <= coreNum blocks of blockFormer, the last of blockTail with    *)
(* 1 <= blockTail <= blockFormer.  The last transpose cuts axis -1 too,    *)
(* inside each tile, into ubOuterLastAxis pieces that must rebuild it.      *)
(* It is about the arithmetic of the GetBlockSplitFactor* functions and    *)
(* the block partition after the last re-split.                            *)
(***************************************************************************)
Coverage ==
  pc = "done" =>
    LET t == tiling IN
    /\ 1 <= t.ubTail /\ t.ubTail <= t.ubFormer
    /\ OuterProduct * ((t.ubOuter - 1) * t.ubFormer + t.ubTail) * InnerProduct
         = AxesProduct(params.dims, 0, Len(params.dims) - 1)
    /\ t.dimProductBeforeUbInner = OuterProduct * t.ubOuter
    /\ 1 <= t.blockTail /\ t.blockTail <= t.blockFormer
    /\ t.blockFormer * (t.blockNum - 1) + t.blockTail = t.dimProductBeforeUbInner
    /\ t.blockNum <= params.coreNum
    /\ params.schedule = "lastTranspose" =>
         LET last == Dim(params.dims, Len(params.dims) - 1) IN
         /\ t.ubSplitAxis <= Len(params.dims) - 2
         /\ 1 <= t.ubTailLastAxis /\ t.ubTailLastAxis <= t.ubFormerLastAxis
         /\ (t.ubOuterLastAxis - 1) * t.ubFormerLastAxis + t.ubTailLastAxis = last

(***************************************************************************)
(* The UB elements one full tile occupies, as each kernel lays it out:     *)
(* the contiguous kernels hold ubFormer rows of the axes inside the split; *)
(* the n-last kernels take ubSplitSize * outputStridesWithPad[ubSplitAxis] *)
(* (broadcast_sch_nlast_transpose_*.h, tileLength); the last-transpose     *)
(* DMA puts rows of ubFormerLastAxis elements side by side when axis -2 is *)
(* split, and otherwise steps the split axis by its padded stride.         *)
(***************************************************************************)
TileFootprint ==
  LET n == Len(params.dims) IN
  CASE params.schedule = "contiguous" -> tiling.ubFormer * InnerProduct
    [] params.schedule = "lastTranspose" /\ tiling.ubSplitAxis = n - 2 ->
         tiling.ubFormer * tiling.ubFormerLastAxis
    [] OTHER -> tiling.ubFormer * tiling.outputStridesWithPad[tiling.ubSplitAxis]

(***************************************************************************)
(* A tile fits the buffers the kernel allocates: the split functions count *)
(* the padded inner product with the block rounding of the .cpp scans      *)
(* (after axis -2, after axis -1 with isUbBroadcast, before axis -3 for    *)
(* the last transpose), while the kernels address the UB with the strides  *)
(* the header adapters pad at axis n-3 or n-2.  The two must agree for     *)
(* every variant, budget and shape, including after the preference pass.   *)
(***************************************************************************)
TileFitsElemNum == pc = "done" => TileFootprint <= tiling.elemNum

(***************************************************************************)
(* Budget respected (spec section 8): the element count the kernel         *)
(* allocates per buffer (elemNum) never exceeds the budget                 *)
(* BroadcastGetMaxElemNum granted, and one tile (TileFootprint) fits in    *)
(* elemNum.  It is about the                                                *)
(* round-up after the preference loop, which may go above the budget.      *)
(***************************************************************************)
BudgetRespected ==
  pc = "done" => tiling.elemNum <= budget /\ TileFootprint <= tiling.elemNum

(***************************************************************************)
(* The multi-core preference pass never leaves fewer blocks than the split *)
(* it started from: it exists to raise core occupancy.  It is about the    *)
(* re-split at the rounded budget after the loop.                          *)
(***************************************************************************)
PreferenceKeepsBlocks ==
  (pc = "done" /\ loopExit # "none") => tiling.blockNum >= blockNum0

(***************************************************************************)
(* The two properties above hold when the budget BroadcastGetMaxElemNum   *)
(* granted is a multiple of CACHE_LINE (every 8/16-bit dtype, and 32/64-   *)
(* bit dtypes on some UB sizes): the final budget stays within it and the  *)
(* re-split keeps the first split's blocks. This does not make the round-  *)
(* up harmless: the re-split still runs one CACHE_LINE above the budget at *)
(* which the loop succeeded, and that is not checked here.                 *)
(***************************************************************************)
LineAlignedBudgetSafe ==
  budget % CACHE_LINE = 0 => BudgetRespected /\ PreferenceKeepsBlocks

(***************************************************************************)
(* The preference loop never subtracts CACHE_LINE from a budget below      *)
(* CACHE_LINE: maxElemNum is uint64_t, so that subtraction wraps around    *)
(* and the 512-element floor no longer ends the loop.                      *)
(***************************************************************************)
NoBudgetWrap == maxElemNum >= 0

=============================================================================
