------------------------------ MODULE ReduceSplit ------------------------------
(***************************************************************************)
(* The reduce split planner of reduce_tiling.cpp (ComputeTiling and what   *)
(* it calls) run on the pattern shape that the normaliser ReduceShape      *)
(* produced: CalcBasicBlock, ComputeCacheLineBlock with InitUnit,          *)
(* ComputeUnitA, ComputeUnitR, ComputeProgressUnitA, then SetTilingData    *)
(* (IsUseNddma, ComputeStride), SetTilingKey and CalcUserWorkSpace, and   *)
(* for a pattern with an axis of length 0, ComputeEmptyTiling.            *)
(*                                                                         *)
(* The pattern is A-first (FirstA); Pattern::Dim is the length of the      *)
(* padded shape, TailA holds when it is odd and PATTERN_A is Dim = 1.      *)
(* Every function is one step; its loops are RECURSIVE operators. The     *)
(* double comparisons rate > THRES_HOLD (0.95) are exact comparisons of   *)
(* integer fractions, and TryGetReduceBlock's double quotient is the exact *)
(* rational one, floored.                                                  *)
(***************************************************************************)
EXTENDS Integers, Sequences, FiniteSets, TLC

CONSTANTS
    DimVals, StrideVals, MaxRank, MaxAxes, MAX_DIM, AllowDuplicateAxes,
    Hardware,   \* platform records [ubSize, coreNum, cacheLineSize, ubBlockSize, vRegSize]
    Dags,       \* compute-graph records (opDag_ and opInput_ sizes)
    CACHE_BUF_SIZE

VARIABLES
    pc, input, axes, viewShape, viewStride, shapeSize,
    sliceNum, sliceShape, sliceStride, viewStride_,
    stage,       \* "wait", "basic", "rejected" (PreProcessOptionalParam),
                 \* "cacheline", "unitA", "unitR", "progress",
                 \* "data", "workspace", "done"; "failed" (CalcBasicBlock),
                 \* "returned" (DoReduceTiling went on after a failure);
                 \* "empty", "emptyCacheline", "emptyUnitA", "emptyData"
                 \* (ComputeEmptyTiling)
    shape,       \* the shape the planner functions are called on: the
                 \* pattern's viewShape_, or ComputeEmptyTiling's newshape
    hw,          \* compileInfo_ of this call
    dag,         \* opDag_ (and opInput_ sizes) of this call
    basicBlock,  \* basicBlock_
    resultBlock, \* resultBlock_
    cBlock,      \* cBlock_: [axis, cacheLineStep, cacheLineOuter, aSize, rSize]
    unitA,       \* unitA_: [idx, inner, outer, step]
    unitR,       \* unitR_
    tiling       \* the tiling data fields and block dim this call sets

RS == INSTANCE ReduceShape

shapeVars == <<pc, input, axes, viewShape, viewStride, shapeSize,
               sliceNum, sliceShape, sliceStride, viewStride_>>
splitVars == <<stage, shape, hw, dag, basicBlock, resultBlock, cBlock, unitA, unitR, tiling>>
vars == <<shapeVars, splitVars>>

-----------------------------------------------------------------------------
MAX_INNER_A == 512
A_STEP_LEN == 4
AXES_STEP == 2

At(s, i) == s[i + 1]

\* CeilDiv, CeilAlign and FloorAlign of math_util.h; a zero divisor gives x.
CeilDiv(x, y) == IF y = 0 THEN x ELSE (x + y - 1) \div y
FloorAlign(x, a) == IF a = 0 THEN x ELSE (x \div a) * a
CeilAlign(x, a) == CeilDiv(x, a) * a
MinOf(a, b) == IF a <= b THEN a ELSE b

RECURSIVE ProdOf(_, _)
\* Product of f(i) over the set ks of axes.
ProdOf(f, ks) ==
    IF ks = {} THEN 1
    ELSE LET k == CHOOSE k \in ks : TRUE IN f[k] * ProdOf(f, ks \ {k})

Dim == Len(shape)
Shape(i) == At(shape, i)
SlNum(i) == At(sliceNum, i)
SlShape(i) == At(sliceShape, i)
IsAxisA(i) == i % 2 = 0
TailA == Dim % 2 = 1
IsPatternA == Dim = 1

\* IsEmtpyTensor: an axis of the pattern has length 0.
IsEmtpyTensor == \E i \in 0..(Dim - 1) : Shape(i) = 0

DSize == dag.dSize
UbBlockElems == hw.ubBlockSize \div DSize
CacheElems == hw.cacheLineSize \div DSize

\* Ratio: memory level 2 sizes buffers by the widest input.
Ratio == IF dag.memLevel2 THEN CeilDiv(dag.maxInputBytes, DSize) ELSE 1

\* bBlockNum: the basic block in elements of the widest input.
BBlockNum == (basicBlock * Ratio) \div dag.maxInputBytes

\* Number of pieces an axis of the pattern is cut into by step s: whole
\* steps when s covers a slice, otherwise steps inside every slice.
Pieces(i, s) ==
    IF s >= SlShape(i) THEN CeilDiv(Shape(i), s) ELSE SlNum(i) * CeilDiv(SlShape(i), s)

\* A step aligned to the slice shape, and on the last axis to the UB block.
AlignStep(i, s) ==
    LET t == IF s > SlShape(i) THEN FloorAlign(s, SlShape(i)) ELSE s
    IN  IF i = Dim - 1 /\ t # SlShape(i) THEN FloorAlign(t, UbBlockElems) ELSE t

\* An axis length as the UB holds it: the last axis is block aligned.
UbLen(i) == IF i = Dim - 1 THEN CeilAlign(Shape(i), UbBlockElems) ELSE Shape(i)

\* rate > THRES_HOLD for rate = num / den.
AboveThreshold(num, den) == 100 * num > 95 * den
AtLeastThreshold(num, den) == 100 * num >= 95 * den

-----------------------------------------------------------------------------
(* CalcBasicBlock with TryGetReduceBlock and CaculateReduceSize.           *)
CaculateReduceSize ==
    ProdOf([i \in 0..(Dim - 1) |-> UbLen(i)], {i \in 0..(Dim - 1) : ~IsAxisA(i)})

PreInputBufferNum ==
    IF dag.reduceOpPos = 1 THEN dag.preInput * 2 * 2 ELSE dag.preInput * 2
PreRestBufferNum == dag.preTempCalc + dag.preOutput * 2 + dag.reservedNode
PostBufferNum == dag.postInput + dag.postTempCalc + dag.postOutput + 1
UbAvilSize == hw.ubSize - (CACHE_BUF_SIZE + dag.reservedSize)

TryGetReduceBlock ==
    LET r == CaculateReduceSize
    IN  (UbAvilSize * Ratio) \div ((PreInputBufferNum + PreRestBufferNum * Ratio) * r
                                   + PostBufferNum * Ratio)

ResultBlockOf ==
    LET rb == FloorAlign(TryGetReduceBlock, hw.cacheLineSize)
    IN  IF rb < MAX_INNER_A THEN MAX_INNER_A
        ELSE IF rb > CACHE_BUF_SIZE THEN CACHE_BUF_SIZE ELSE rb

\* [ok, basicBlock, resultBlock]
CalcBasicBlock ==
    IF hw.ubSize <= CACHE_BUF_SIZE + dag.reservedSize THEN [ok |-> FALSE, bb |-> 0, rb |-> 0]
    ELSE IF IsPatternA
    THEN LET bb == FloorAlign(UbAvilSize \div (PreInputBufferNum
                                 + (PreRestBufferNum + PostBufferNum) * Ratio), hw.vRegSize)
         IN  [ok |-> bb >= hw.vRegSize, bb |-> bb, rb |-> bb * Ratio]
    ELSE LET rb == ResultBlockOf
         IN  IF UbAvilSize <= rb * PostBufferNum THEN [ok |-> FALSE, bb |-> 0, rb |-> rb]
             ELSE LET bb == FloorAlign((UbAvilSize - rb * PostBufferNum)
                                       \div (PreInputBufferNum + PreRestBufferNum * Ratio),
                                       hw.vRegSize)
                  IN  [ok |-> bb >= hw.vRegSize, bb |-> bb, rb |-> rb]

-----------------------------------------------------------------------------
(* ComputeCacheLineBlock: walking inwards-out, the first axis at which the *)
(* running product passes the cache line is cut by the step that fills it. *)
RECURSIVE CacheLineLoop(_, _, _)
CacheLineLoop(i, cls, st) ==
    IF i < 0 THEN st
    ELSE IF cls * Shape(i) > CacheElems
    THEN LET s0   == CeilDiv(CacheElems, cls)
             step == IF s0 > SlShape(i) THEN FloorAlign(s0, SlShape(i)) ELSE s0
         IN  [axis |-> i, cacheLineStep |-> step,
              cacheLineOuter |-> IF step >= SlShape(i) THEN CeilDiv(Shape(i), step)
                                 ELSE SlNum(i) * CeilDiv(SlShape(i), step)]
    ELSE CacheLineLoop(i - 1, cls * Shape(i), [st EXCEPT !.axis = i, !.cacheLineStep = Shape(i)])

ComputeCacheLineBlock ==
    LET st    == CacheLineLoop(Dim - 1, 1, [axis |-> 0, cacheLineStep |-> 1, cacheLineOuter |-> 1])
        inner == {i \in 0..(Dim - 1) : i > st.axis}
        len   == [i \in 0..(Dim - 1) |-> UbLen(i)]
    IN  st @@ [aSize |-> ProdOf(len, {i \in inner : IsAxisA(i)}),
               rSize |-> ProdOf(len, {i \in inner : ~IsAxisA(i)})]

\* ReduceTilingUnit as the tiling object starts it.
NewUnit == [idx |-> -1, inner |-> 1, outer |-> 1, step |-> 1]

\* InitUnit: the axes outside the cache-line axis are outer loops, and the
\* cache-line axis adds its cacheLineOuter pieces to its kind.
InitUnit(cb) ==
    LET sh == [i \in 0..(Dim - 1) |-> Shape(i)]
        a  == ProdOf(sh, {i \in 0..(cb.axis - 1) : IsAxisA(i)})
        r  == ProdOf(sh, {i \in 0..(cb.axis - 1) : ~IsAxisA(i)})
    IN  IF IsAxisA(cb.axis)
        THEN <<[NewUnit EXCEPT !.outer = a * cb.cacheLineOuter], [NewUnit EXCEPT !.outer = r]>>
        ELSE <<[NewUnit EXCEPT !.outer = a], [NewUnit EXCEPT !.outer = r * cb.cacheLineOuter]>>

-----------------------------------------------------------------------------
(* ComputeUnitA: from the cache-line axis outwards over the A axes, grow   *)
(* the UB step while the A part stays within maxInnerA and the tile within *)
(* the basic block; keep the last step whose core use beats THRES_HOLD.    *)
\* Cores used when tiles = outerA * outerR units are spread over the cores,
\* aligned to whole rows of outerA.
TempCoreNum(outerA, outerR) ==
    LET t == (outerA * outerR) \div CeilDiv(outerA * outerR, hw.coreNum)
    IN  IF t > outerA THEN FloorAlign(t, outerA) ELSE t

\* The outer count of axis i once it is cut by step s, from the running
\* outer count that holds the whole axis.
Recut(outer, i, s) == (outer \div Shape(i)) * Pieces(i, s)

\* The steps a scan loop visits, and the first of them at which it breaks.
Visited(from, len, inc) == {from + k * inc : k \in 0..((len - from) \div inc)}
BreakAt(from, len, inc, Fits(_)) ==
    LET n      == (len - from) \div inc
        Bad(k) == ~Fits(from + k * inc)
    IN  IF \A k \in 0..n : ~Bad(k) THEN -1
        ELSE from + inc * (CHOOSE k \in 0..n : Bad(k) /\ \A j \in 0..(k - 1) : ~Bad(j))
Before(steps, brk) == {st \in steps : brk = -1 \/ st < brk}

\* The inner loop of ComputeUnitA over step (from `first` by stepLen). maxStep
\* changes exactly at a step whose rate beats both THRES_HOLD and every
\* earlier rate, so it ends at the first step that reaches the largest
\* rate of the scan, when that rate beats THRES_HOLD.
UnitAScan(iA, first, innerA, outerA) ==
    LET maxInnerA == IF IsPatternA THEN (basicBlock * Ratio) \div dag.maxInputBytes
                     ELSE MAX_INNER_A \div dag.maxInputBytes
        inc       == IF IsPatternA THEN A_STEP_LEN ELSE 1
        Fits(st)  == LET aSize == innerA * AlignStep(iA, st) * cBlock.aSize
                     IN  aSize <= maxInnerA /\ aSize * cBlock.rSize <= BBlockNum
        T(st)     == TempCoreNum(Recut(outerA, iA, AlignStep(iA, st)), unitR.outer)
        steps     == Visited(first, Shape(iA), inc)
        brk       == BreakAt(first, Shape(iA), inc, Fits)
        seen      == Before(steps, brk)
        rates     == {T(st) : st \in seen}
        top       == IF seen = {} THEN 0 ELSE CHOOSE t \in rates : \A o \in rates : o <= t
        atTop     == {st \in seen : T(st) = top}
        firstTop  == CHOOSE st \in atTop : \A o \in atTop : st <= o
    IN  [split   |-> brk # -1,
         maxStep |-> IF seen # {} /\ top > 0 /\ AboveThreshold(top, hw.coreNum)
                     THEN AlignStep(iA, firstTop) ELSE first]

\* A step of 0 (a tail axis floored to ubBlockSize) is taken as 1.
NonZeroStep(s) == IF s = 0 THEN 1 ELSE s

RECURSIVE UnitALoop(_, _, _)
UnitALoop(iA, innerA, outerA) ==
    LET first == IF iA = cBlock.axis THEN cBlock.cacheLineStep ELSE 1
        r     == UnitAScan(iA, first, innerA, outerA)
    IN  IF r.split \/ r.maxStep # Shape(iA) \/ iA - AXES_STEP < 0
        THEN LET step == NonZeroStep(r.maxStep)
             IN  [idx |-> iA, inner |-> innerA * step, outer |-> Recut(outerA, iA, step),
                  step |-> step]
        ELSE UnitALoop(iA - AXES_STEP, innerA * UbLen(iA), outerA \div Shape(iA))

ComputeUnitA ==
    LET splitA == IsAxisA(cBlock.axis)
        outerA == IF splitA THEN (unitA.outer \div cBlock.cacheLineOuter) * Shape(cBlock.axis)
                  ELSE unitA.outer
    IN  UnitALoop(IF splitA THEN cBlock.axis ELSE cBlock.axis - 1, unitA.inner, outerA)

-----------------------------------------------------------------------------
(* ComputeUnitR: R axes that fit the basic block whole are taken whole;    *)
(* the first that does not is cut by the largest step that fits, shrunk    *)
(* down to the first step whose core use beats THRES_HOLD, if any (-1:    *)
(* none).                                                                   *)
\* The search loop of ComputeUnitR, from step down to minStep + 1: the
\* first (largest) step whose rate beats THRES_HOLD, aligned; -1: none.
UnitRScan(iR, step, minStep, outerR) ==
    LET Ok(st) == AboveThreshold(TempCoreNum(unitA.outer, Recut(outerR, iR, AlignStep(iR, st))),
                                 hw.coreNum)
        good   == {st \in (minStep + 1)..step : Ok(st)}
    IN  IF good = {} THEN -1 ELSE AlignStep(iR, CHOOSE st \in good : \A o \in good : o <= st)

FitStepsUnbounded(held, i) == Shape(i)
\* The most steps of axis i that fit the basic block next to `held`.
FitSteps(held, i) == MinOf(BBlockNum \div held, Shape(i))

RECURSIVE UnitRLoop(_, _, _)
UnitRLoop(iR, innerR, outerR) ==
    IF iR < 0 THEN [idx |-> iR, inner |-> innerR, outer |-> outerR, step |-> 1]
    ELSE LET held == unitA.inner * innerR * cBlock.aSize * cBlock.rSize
         IN  IF held * Shape(iR) <= BBlockNum
             THEN UnitRLoop(iR - AXES_STEP, innerR * UbLen(iR), outerR \div Shape(iR))
             ELSE LET fit   == FitSteps(held, iR)
                      step0 == IF fit > SlShape(iR) THEN FloorAlign(fit, SlShape(iR)) ELSE fit
                      step1 == IF iR = Dim - 1 THEN FloorAlign(step0, UbBlockElems) ELSE step0
                      minSt == IF iR = cBlock.axis THEN cBlock.cacheLineStep ELSE 1
                      found == UnitRScan(iR, step1, minSt, outerR)
                      step  == IF found = -1 THEN step1 ELSE found
                  IN  [idx |-> iR, inner |-> innerR * step, outer |-> Recut(outerR, iR, step),
                       step |-> step]

ComputeUnitRFromTwoBack ==
    LET splitA == IsAxisA(cBlock.axis)
        outerR == IF splitA THEN unitR.outer
                  ELSE (unitR.outer \div cBlock.cacheLineOuter) * Shape(cBlock.axis)
    IN  UnitRLoop(IF splitA THEN cBlock.axis - 2 ELSE cBlock.axis, unitR.inner, outerR)

ComputeUnitR ==
    LET splitA == IsAxisA(cBlock.axis)
        outerR == IF splitA THEN unitR.outer
                  ELSE (unitR.outer \div cBlock.cacheLineOuter) * Shape(cBlock.axis)
    IN  UnitRLoop(IF splitA THEN cBlock.axis - 1 ELSE cBlock.axis, unitR.inner, outerR)

-----------------------------------------------------------------------------
(* ComputeProgressUnitA: when every R axis sits whole in the UB, the A     *)
(* step is grown again, now up to the result block, keeping steps that    *)
(* stay within a cache line or keep the cores busy.                        *)
\* The inner loop of ComputeProgressUnitA over s (from `first` by 1): it
\* runs while the tile fits both bounds, and maxStep is the step of the
\* last s that stays within a cache line or keeps the cores busy.
ProgressScan(iA, first, innerA, outerA, best, maxInnerA) ==
    LET Fits(st) == LET tmpInnerA == innerA * AlignStep(iA, st)
                    IN  /\ tmpInnerA * unitR.inner * cBlock.aSize * cBlock.rSize <= BBlockNum
                        /\ tmpInnerA * cBlock.aSize <= maxInnerA
        Keep(st) == LET tmpS == AlignStep(iA, st)
                        tmpOuterA == Recut(outerA, iA, tmpS)
                    IN  \/ innerA * tmpS * cBlock.aSize <= CacheElems
                        \/ AtLeastThreshold(tmpOuterA, CeilAlign(tmpOuterA, hw.coreNum))
        steps    == first..Shape(iA)
        brk      == BreakAt(first, Shape(iA), 1, Fits)
        kept     == {st \in Before(steps, brk) : Keep(st)}
    IN  [split   |-> brk # -1,
         maxStep |-> IF kept = {} THEN best
                     ELSE AlignStep(iA, CHOOSE st \in kept : \A o \in kept : o <= st)]

RECURSIVE ProgressLoop(_, _, _)
ProgressLoop(iA, innerA, outerA) ==
    LET maxInnerA == resultBlock \div dag.maxInputBytes
        first     == IF iA = unitA.idx THEN unitA.step + 1 ELSE 1
        r         == ProgressScan(iA, first, innerA, outerA,
                                  IF iA = unitA.idx THEN unitA.step ELSE 1, maxInnerA)
    IN  IF r.split \/ iA - AXES_STEP < 0
        THEN [idx |-> iA, inner |-> innerA * r.maxStep,
              outer |-> Recut(outerA, iA, r.maxStep), step |-> r.maxStep]
        ELSE ProgressLoop(iA - AXES_STEP, innerA * UbLen(iA), outerA \div Shape(iA))

ComputeProgressUnitANoRestore ==
    IF unitR.idx # -1 THEN unitA
    ELSE LET i      == unitA.idx
             outerA == IF unitA.step < SlShape(i)
                       THEN ((unitA.outer \div SlNum(i)) \div CeilDiv(SlShape(i), unitA.step)) * Shape(i)
                       ELSE (unitA.outer \div CeilDiv(Shape(i), unitA.step)) * Shape(i)
         IN  ProgressLoop(i, unitA.inner, outerA)

ComputeProgressUnitA ==
    IF unitR.idx # -1 THEN unitA
    ELSE LET i      == unitA.idx
             innerA == unitA.inner \div unitA.step
             outerA == IF unitA.step < SlShape(i)
                       THEN ((unitA.outer \div SlNum(i)) \div CeilDiv(SlShape(i), unitA.step)) * Shape(i)
                       ELSE (unitA.outer \div CeilDiv(Shape(i), unitA.step)) * Shape(i)
         IN  ProgressLoop(i, innerA, outerA)

-----------------------------------------------------------------------------
(* SetTilingData: spread the outerA * outerR units over the cores, whole   *)
(* rows of A first; groupR > 1 splits the R units of a row over cores.     *)
NumBlocksAlwaysCeil ==
    LET total   == unitA.outer * unitR.outer
        nb      == CeilDiv(total, CeilDiv(total, hw.coreNum))
    IN  IF unitA.outer < nb THEN CeilAlign(nb, unitA.outer) ELSE nb

NumBlocks ==
    LET total   == unitA.outer * unitR.outer
        perCore == CeilDiv(total, hw.coreNum)
        nb      == CeilDiv(total, perCore)
    IN  IF unitA.outer < nb
        THEN IF CeilAlign(nb, unitA.outer) <= hw.coreNum THEN CeilAlign(nb, unitA.outer)
             ELSE FloorAlign(nb, unitA.outer)
        ELSE nb

\* IsUseNddma: 1 when the tile is read with the multi-dimensional DMA.
IsUseNddma(ubFactorA, ubFactorR) ==
    LET last == Dim - 1
        sh   == [i \in 0..last |-> Shape(i)]
    IN  IF At(viewStride_, last) # 1 THEN 1
        ELSE IF Shape(last) >= UbBlockElems THEN 0
        ELSE IF last - cBlock.axis > 2 \/ (last - cBlock.axis = 2 /\ cBlock.cacheLineStep # 1) THEN 1
        ELSE IF TailA
             THEN IF ubFactorA * ProdOf(sh, {i \in (unitA.idx + 1)..last : i % 2 = unitA.idx % 2})
                     > UbBlockElems THEN 0 ELSE 1
             ELSE IF ubFactorR * ProdOf(sh, {i \in (unitR.idx + 1)..last : i % 2 = (unitR.idx + 2) % 2})
                     > UbBlockElems THEN 0 ELSE 1

\* ComputeStride: outSize is the product of the A axes.
OutSize == ProdOf([i \in 0..(Dim - 1) |-> Shape(i)], {i \in 0..(Dim - 1) : IsAxisA(i)})

SetTilingData ==
    LET nb  == NumBlocks
        fA  == CeilDiv(unitA.outer, nb)
        fR  == CeilDiv(unitR.outer, CeilDiv(nb, unitA.outer))
    IN  [ubFactorA |-> unitA.step, factorACntPerCore |-> fA, factorATotalCnt |-> unitA.outer,
         ubFactorR |-> unitR.step, factorRCntPerCore |-> fR, factorRTotalCnt |-> unitR.outer,
         groupR |-> CeilDiv(unitR.outer, fR),
         useNddma |-> IsUseNddma(unitA.step, unitR.step),
         outSize |-> OutSize,
         blockDim |-> CeilDiv(unitA.outer, fA) * CeilDiv(unitR.outer, fR)]

\* C integer division of an int32_t: truncates toward zero (-2 / 2 = -1).
CQuot(a, b) == IF a < 0 THEN -((-a) \div b) ELSE a \div b

\* SetTilingKey: the counts of A and R loops outside the UB.
TilingKey(groupR) ==
    LET aCount == CQuot(unitA.idx - 0, AXES_STEP) + 1
        rCount == CQuot(unitR.idx - 1, AXES_STEP) + 1
    IN  IF groupR = 1
        THEN [patternDim |-> Dim, tailR |-> ~TailA, loopARCount |-> aCount * 10,
              loopInnerARCount |-> rCount]
        ELSE [patternDim |-> Dim, tailR |-> ~TailA, loopARCount |-> aCount * 10 + rCount + aCount,
              loopInnerARCount |-> 0]

\* CalcUserWorkSpace: a grouped R needs one output row per core.
UserWorkSpace(groupR, outSize) ==
    IF groupR > 1 THEN hw.coreNum * CeilAlign(outSize * dag.maxInputBytes, hw.cacheLineSize)
    ELSE 0

-----------------------------------------------------------------------------
NoUnit == NewUnit
NoTiling == [ubFactorA |-> 0, factorACntPerCore |-> 0, factorATotalCnt |-> 0,
             ubFactorR |-> 0, factorRCntPerCore |-> 0, factorRTotalCnt |-> 0,
             groupR |-> 0, useNddma |-> 0, outSize |-> 0, blockDim |-> 0,
             key |-> [patternDim |-> 0, tailR |-> FALSE, loopARCount |-> 0,
                      loopInnerARCount |-> 0],
             workspace |-> 0]

Init ==
    /\ RS!Init
    /\ stage = "wait"
    /\ shape = <<>>
    /\ hw = CHOOSE h \in Hardware : TRUE
    /\ dag = CHOOSE d \in Dags : TRUE
    /\ basicBlock = 0 /\ resultBlock = 0
    /\ cBlock = [axis |-> 0, cacheLineStep |-> 1, cacheLineOuter |-> 1, aSize |-> 1, rSize |-> 1]
    /\ unitA = NoUnit /\ unitR = NoUnit
    /\ tiling = NoTiling

\* A step of the shape normaliser.
Normalise == RS!Next /\ UNCHANGED splitVars

\* Fault model: the platform's core count is not checked.
CompileInfoValidAnyCores(h) ==
    h.ubSize # 0 /\ h.cacheLineSize # 0 /\ h.ubBlockSize # 0 /\ h.vRegSize # 0

\* PreProcessOptionalParam's checks: no compileInfo_ field may be 0.
CompileInfoValid(h) ==
    /\ h.coreNum # 0 /\ h.ubSize # 0 /\ h.cacheLineSize # 0
    /\ h.ubBlockSize # 0 /\ h.vRegSize # 0

\* PreProcessOptionalParam: the tiling data is zeroed and compileInfo_ is
\* read from the platform, failing the call on a zero field. (Its default
\* strides are those GetInputStride already gave every input.)
PreProcessOptionalParam ==
    /\ pc = "done" /\ stage = "wait"
    /\ tiling' = NoTiling
    /\ \E h \in Hardware :
         hw' = h /\ stage' = IF CompileInfoValid(h) THEN "basic" ELSE "rejected"
    /\ UNCHANGED <<shapeVars, shape, dag, basicBlock, resultBlock, cBlock, unitA, unitR>>

\* ComputeTiling step 1, CalcBasicBlock, on the compute graph of the call.
BasicBlock ==
    /\ stage = "basic"
    /\ shape' = viewShape
    /\ UNCHANGED <<shapeVars, hw, cBlock, unitA, unitR, tiling>>
    /\ \E d \in Dags :
         /\ dag' = d
         /\ LET b == CalcBasicBlock' IN
              /\ basicBlock' = b.bb /\ resultBlock' = b.rb
              /\ stage' = IF ~b.ok THEN "failed"
                          ELSE IF IsEmtpyTensor' THEN "empty" ELSE "cacheline"

\* ComputeCacheLineBlockAndUnit.
CacheLine ==
    /\ stage = "cacheline"
    /\ cBlock' = ComputeCacheLineBlock
    /\ unitA' = InitUnit(cBlock')[1] /\ unitR' = InitUnit(cBlock')[2]
    /\ stage' = "unitA"
    /\ UNCHANGED <<shapeVars, shape, hw, dag, basicBlock, resultBlock, tiling>>

UnitA ==
    /\ stage = "unitA"
    /\ unitA' = ComputeUnitA
    /\ stage' = "unitR"
    /\ UNCHANGED <<shapeVars, shape, hw, dag, basicBlock, resultBlock, cBlock, unitR, tiling>>

UnitR ==
    /\ stage = "unitR"
    /\ unitR' = ComputeUnitR
    /\ stage' = "progress"
    /\ UNCHANGED <<shapeVars, shape, hw, dag, basicBlock, resultBlock, cBlock, unitA, tiling>>

ProgressUnitA ==
    /\ stage = "progress"
    /\ unitA' = ComputeProgressUnitA
    /\ stage' = "data"
    /\ UNCHANGED <<shapeVars, shape, hw, dag, basicBlock, resultBlock, cBlock, unitR, tiling>>

\* The fields SetTilingData writes, SetBlockDim included.
StoreTilingData(t) ==
    [tiling EXCEPT !.ubFactorA = t.ubFactorA, !.factorACntPerCore = t.factorACntPerCore,
                   !.factorATotalCnt = t.factorATotalCnt, !.ubFactorR = t.ubFactorR,
                   !.factorRCntPerCore = t.factorRCntPerCore,
                   !.factorRTotalCnt = t.factorRTotalCnt, !.groupR = t.groupR,
                   !.useNddma = t.useNddma, !.outSize = t.outSize, !.blockDim = t.blockDim]

\* SetTilingData (IsUseNddma, ComputeStride) and SetTilingKey.
TilingData ==
    /\ stage = "data"
    /\ LET t == SetTilingData
       IN  tiling' = [StoreTilingData(t) EXCEPT !.key = TilingKey(t.groupR)]
    /\ stage' = "workspace"
    /\ UNCHANGED <<shapeVars, shape, hw, dag, basicBlock, resultBlock, cBlock, unitA, unitR>>

(* ComputeEmptyTiling, taken after CalcBasicBlock when an axis has length *)
(* 0: the output size is the product of the A axes and every core is      *)
(* launched. An empty output ends the call; otherwise the A axes are      *)
(* planned as one PATTERN_A axis of that length (newshape), on half the   *)
(* UB, while the slice arrays stay those of the pattern's axis 0.         *)
EmptyTiling ==
    /\ stage = "empty"
    /\ tiling' = [tiling EXCEPT !.outSize = OutSize, !.blockDim = hw.coreNum]
    /\ IF OutSize = 0
       THEN stage' = "workspace" /\ UNCHANGED <<shape, basicBlock>>
       ELSE /\ basicBlock' = FloorAlign((hw.ubSize - CACHE_BUF_SIZE) \div 2, hw.vRegSize)
            /\ shape' = <<OutSize>>
            /\ stage' = "emptyCacheline"
    /\ UNCHANGED <<shapeVars, hw, dag, resultBlock, cBlock, unitA, unitR>>

\* unitA_.outer *= cBlock_.cacheLineOuter, in place of InitUnit.
EmptyOuter(cb) == unitA.outer * cb.cacheLineOuter

\* ComputeCacheLineBlock<A> on newshape.
EmptyCacheLine ==
    /\ stage = "emptyCacheline"
    /\ cBlock' = ComputeCacheLineBlock
    /\ unitA' = [unitA EXCEPT !.outer = EmptyOuter(cBlock')]
    /\ stage' = "emptyUnitA"
    /\ UNCHANGED <<shapeVars, shape, hw, dag, basicBlock, resultBlock, unitR, tiling>>

\* ComputeUnitA<A> on newshape.
EmptyUnitA ==
    /\ stage = "emptyUnitA"
    /\ unitA' = ComputeUnitA
    /\ stage' = "emptyData"
    /\ UNCHANGED <<shapeVars, shape, hw, dag, basicBlock, resultBlock, cBlock, unitR, tiling>>

\* SetTilingData<A> on newshape; ComputeEmptyTiling returns without
\* SetTilingKey, so the tiling key keeps its initial value.
EmptyTilingData ==
    /\ stage = "emptyData"
    /\ tiling' = StoreTilingData(SetTilingData)
    /\ stage' = "workspace"
    /\ UNCHANGED <<shapeVars, shape, hw, dag, basicBlock, resultBlock, cBlock, unitA, unitR>>

\* DoReduceTiling ignores the status of DoTilingMatchPattern: it goes on to
\* CalcUserWorkSpace after a planned call, a failed CalcBasicBlock and an
\* unsupported pattern alike.
Dispatched ==
    \/ pc = "done" /\ stage \in {"workspace", "failed"}
    \/ pc = "unsupported" /\ stage = "wait"

\* CalcUserWorkSpace, after the pattern dispatch of DoReduceTiling.
WorkSpace ==
    /\ Dispatched
    /\ tiling' = [tiling EXCEPT !.workspace = UserWorkSpace(tiling.groupR, tiling.outSize)]
    /\ stage' = IF stage = "workspace" THEN "done" ELSE "returned"
    /\ UNCHANGED <<shapeVars, shape, hw, dag, basicBlock, resultBlock, cBlock, unitA, unitR>>

Next == Normalise \/ PreProcessOptionalParam \/ BasicBlock \/ CacheLine \/ UnitA \/ UnitR \/ ProgressUnitA
        \/ TilingData \/ EmptyTiling \/ EmptyCacheLine \/ EmptyUnitA \/ EmptyTilingData
        \/ WorkSpace

Spec == Init /\ [][Next]_vars

-----------------------------------------------------------------------------
\* A call that planned units: an empty output (outSize = 0) plans none.
Planned == stage \in {"data", "workspace", "done"} /\ OutSize # 0

TypeOK ==
    /\ RS!TypeOK
    /\ stage \in {"wait", "basic", "rejected", "cacheline", "unitA", "unitR", "progress", "data",
                  "workspace", "done", "failed", "returned", "empty", "emptyCacheline",
                  "emptyUnitA", "emptyData"}
    /\ basicBlock \in Nat /\ resultBlock \in Nat
    /\ cBlock.axis \in 0..(MAX_DIM - 1)
    /\ \A u \in {unitA, unitR} : u.idx \in -1..(MAX_DIM - 1) /\ u.inner \in Nat /\ u.outer \in Nat

\* The A (or R) unit describes a tiling of its axes: the UB tile holds the
\* axes inside the split axis whole (the cache-line block included) and
\* `step` of the split axis, and outer counts the tiles: the axes outside
\* the split axis times the pieces the step cuts it into. The running
\* products and quotients of ComputeUnitA, ComputeUnitR and
\* ComputeProgressUnitA must stay equal to these closed forms.
UnitTiles(u, isA) ==
    LET ks    == {i \in 0..(Dim - 1) : IsAxisA(i) = isA}
        sh    == [i \in 0..(Dim - 1) |-> Shape(i)]
        ul    == [i \in 0..(Dim - 1) |-> UbLen(i)]
        csize == IF isA THEN cBlock.aSize ELSE cBlock.rSize
    IN  IF u.idx < 0
        THEN u.outer = 1 /\ u.inner * csize = ProdOf(ul, ks)
        ELSE /\ u.outer = ProdOf(sh, {i \in ks : i < u.idx}) * Pieces(u.idx, u.step)
             /\ u.inner * csize = ProdOf(ul, {i \in ks : i > u.idx}) * u.step

\* A call whose pattern has an empty axis, planned by ComputeEmptyTiling.
EmptyInput == \E i \in DOMAIN viewShape : viewShape[i] = 0

\* For a pattern without an empty axis, the A and R units that ComputeUnitA,
\* ComputeUnitR and ComputeProgressUnitA leave tile their axes as UnitTiles
\* says. The closed forms read the slices of the planned axes; the plan of
\* ComputeEmptyTiling keeps the slices of another axis, so it is left to
\* EmptyOutputCovered, which compares it with the output size instead.
UnitsTileShape ==
    Planned /\ ~EmptyInput => UnitTiles(unitA, TRUE) /\ UnitTiles(unitR, FALSE)

\* A UB tile (A part times R part, cache-line block included) fits in the
\* basic block that CalcBasicBlock sized the buffers for, unless the one
\* cache-line block ComputeCacheLineBlock cut (shapes aligned to ubBlockSize)
\* is already larger: ComputeUnitA then keeps cacheLineStep regardless.
TileFitsBasicBlock ==
    Planned =>
        \/ unitA.inner * unitR.inner * cBlock.aSize * cBlock.rSize <= BBlockNum
        \/ cBlock.cacheLineStep * cBlock.aSize * cBlock.rSize > BBlockNum

\* SetTilingData launches between 1 and vectorCoreNum cores, and the cores
\* with factorACntPerCore A units and factorRCntPerCore R units each cover
\* all outerA * outerR units.
BlockDimWithinCores ==
    stage \in {"workspace", "done"} =>
        /\ tiling.blockDim \in 1..hw.coreNum
        /\ Planned => tiling.blockDim * tiling.factorACntPerCore * tiling.factorRCntPerCore
                          >= unitA.outer * unitR.outer

\* ComputeEmptyTiling, for a reduction over an empty axis whose output is
\* not empty: the units of ubFactorA output elements that SetTilingData<A>
\* hands the cores are exactly the pieces of the outSize output elements,
\* none missing and none beyond it.
EmptyOutputCovered ==
    stage = "done" /\ EmptyInput /\ tiling.outSize > 0 =>
        tiling.factorATotalCnt = CeilDiv(tiling.outSize, tiling.ubFactorA)
================================================================================
