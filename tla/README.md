# TLA+ models of the opbase tiling engine

This directory holds TLA+ models of the host-side tiling engine of opbase. It also models the
device-side loops that consume the engine's results, and a few runtime helpers of
`nnopbase`. Every module is translated from the C++ under `src/`. `PROJECT.json` lists:

- which source lines each definition models (`map`);
- the TLC runs and what each one shows (`runs`);
- the faults each property catches (`mutants`);
- the hazards of the code (`hazards`);
- the disagreements the runs found (`findings`).

Run a check from this directory with `tlc -workers 2 -config <run>.cfg <MC module>`.

## 1. The system

The tiling engine is given three things:

- the shapes (and strides) of an operator's inputs and output;
- the size of the on-chip scratch memory (UB);
- the core count.

From these it produces a parameter block. The block says how a data-parallel kernel cuts the
output into tiles, and which core walks which tiles.

A call runs sequentially on the host and keeps no state between calls. The concurrency is
downstream. Each AI core runs the same kernel on the same parameter block and walks only its
own slice of the tiles. So the host-side properties are properties of one deterministic
computation. The device-side properties are about many cores interleaving over a shared
result.

### Parts and how they interact

| Part | Code | Role |
|---|---|---|
| Capacity planner | `broadcast_tiling_base.cpp` `BroadcastGetMaxElemNum` | UB bytes → element budget of one tile, aligned to 256 bytes / narrowest dtype |
| Shape canonicaliser | `broadcast_tiling.cpp` `DimensionCollapse`, `NonContiguousDimensionCollapse`, `IsTensorContiguous`, `DoDimensionCollapse` | left-pads inputs, checks broadcast legality, merges adjacent axes with equal broadcast signatures, recomputes strides |
| Core/UB splitter | `broadcast_tiling.cpp` `GetBlockSplitFactor`, `DoBrodcastTiling`, `BroadcastTiling` | picks the split axis and tile factor, partitions the fused outer trip count over cores, runs the multi-core preference pass |
| Transpose splitters | `broadcast_tiling_noncontiguous.cpp`; `broadcast_tiling_noncontiguous.h` (`Adapt*TilingData`, `SetInput*Params`) | the same pipeline for strided / transposed inputs, with padded strides and block alignment |
| Broadcast kernel walk | `broadcast_sch_last_transpose.h`, `broadcast_sch_nlast_transpose_nddma.h`, `broadcast_sch_util_nlast_transpose_naddma.h` | per core: start index `blockFormer*blockIdx`, `blockFormer` or `blockTail` tiles, an odometer update of the axis indices, `ubFormer` or `ubTail` per tile |
| Reduce axis intake | `reduce_tiling.cpp` `GetInputParam`, `CheckIsContiguous`, `MakeWrapDim`, `AxesCheck` | reads the shape, strides and axes; wraps negative axes; checks the range |
| Reduce shape normaliser | `reduce_tiling.cpp` `EliminateOne`, `PadDimForNonContiguous`, `MergeAxis`, `PadDimOne`, `TransformShape` | brings the shape to an alternating A/R pattern of 1–9 axes |
| Reduce split search | `reduce_tiling.cpp` `ComputeCacheLineBlock`, `ComputeUnitA/R`, `ComputeProgressUnitA`, `CalcBasicBlock`, `SetTilingData`, `CalcUserWorkSpace`, `DoTilingMatchPattern`, `DoReduceTiling` | joint A/R split under a memory budget and a 95% core-use target |
| Reduce shape inference | `infershape_reduce_util.cpp` `InferShape4Reduce` | output shape of a reduction |
| Tiling buffer | `op_ctx_def.h` `ExtendedTilingBuffer` | growable byte buffer: `Init`, `Append`, `Seek`, `Enlarge` (doubling) |
| SoC singleton | `indv_soc.cpp` `IndvSoc::GetCurSocVersion` | lazily initialised, process-wide SoC name |
| Binary loading, args, collectors | `indv_bininfo.cpp`, `indv_args.h`, `indv_collecter.h`, `indv_tilingcontext_builder.h`, `thread_var_container.cpp` | file and JSON I/O, argument marshalling |
| Compile-time DAG | `node.h`, `broadcast_sch.h`, `broadcast_utils_transpose.h` | template metaprogramming that selects kernels at build time |
| AICPU context | `eigen_threadpool.h`, `cpu_node_def.h` | declarations only |

The broadcast pipeline runs as `BroadcastTiling` = `DoDimensionCollapse` then
`DoBrodcastTiling`. Its result (`dims`, `ubSplitAxis`, `ubFormer`, `ubOuter`, `ubTail`,
`blockFormer`, `blockNum`, `blockTail`, `dimProductBeforeUbInner`, `elemNum`) is read by the
kernel's `Process` loop on every core. The kernel also allocates its UB queues as
`elemNum * bytes * bufferNum`. So `elemNum` above the budget overflows UB.

The reduce pipeline runs as `GetInputParam` then `DoReduceTiling`.
`DoReduceTiling` = `TransformShape` → `DoTilingMatchPattern` → `CalcUserWorkSpace` → `GetTilingKey`.

### State, operations and hard behaviours

- **Capacity planner / splitter.**
  - *State:* the local `maxElemNum`, `ubSplitInfo`, `fusedProduct`, `blockFormer`, `blockNum`, and the preference loop's `tmpFusedProduct` and `dstFusedProduct`.
  - *Operations:* the early returns (compute key missing, `ubSize < extraSize`, `ubSize <= 0`, `coreNum <= 0`, zero budget), the first split, each iteration of the preference loop, the round-up and re-split, and storing the result.
  - *Hard parts:*
    - integer boundaries: `uint64_t` underflow of `maxElemNum - CACHE_LINE`, the `uint32_t` truncation of `ubFormer` after such a wrap, and the round-up `(m + 255) / 128 * 128`;
    - a loop whose exit depends on a non-monotone quantity;
    - the last block and the last tile.
- **Canonicaliser.**
  - *State:* the padded shapes, the per-axis broadcast flags, and the merged dims and strides.
  - *Hard parts:*
    - the order of the checks (the incompatibility test runs before the `<= 0` test, and output dims are never checked);
    - the two merge rules;
    - the stride sentinel `-1`;
    - an `isAxesContiguous` array that is all `false`.
- **Kernel walk.**
  - *State:* for each core, the loop index, the axis-index odometer and the tiles done.
  - *Hard parts:*
    - cores interleave;
    - the last core alone uses `blockTail`;
    - the odometer carries across axes;
    - a tile on the split axis's last piece uses `ubTail`.
- **Reduce intake and normaliser.**
  - *State:* the `axes` vector, `viewShape` and `viewStride` (fixed `MAX_DIM` arrays) and `shapeSize`.
  - *Hard parts:*
    - axis renumbering through `std::find`, which updates only the first of duplicate axes;
    - in-place right-to-left padding into a fixed array;
    - `CheckIsContiguous`, which overwrites its flag on every iteration.
- **Reduce split search.**
  - *Hard parts:*
    - floating-point utilisation ratios compared against 0.95;
    - clamping of `resultBlock`;
    - the status of `DoTilingMatchPattern`, which `DoReduceTiling` ignores.
- **Tiling buffer.**
  - *State:* `addr_`, `offset_`, `size_`.
  - *Hard parts:*
    - a negative `off_t` cast to `size_t`;
    - a doubling loop that can wrap to 0;
    - `Init(0)`.
- **SoC singleton.**
  - *State:* `isInit` and `socVersion`.
  - *Hard part:* an unlocked check-then-initialise.

### Correctness properties (what the code must do)

- **Broadcast legality.** Every accepted input is 1 or the output dim on every collapsed axis. An illegal or non-positive dim is rejected.
- **Addressing preserved.** The collapsed dims and strides address the same input element for every output element as the original shapes do.
- **Collapse idempotence.** Collapsing a collapsed shape set again changes nothing.
- **Coverage.** `1 <= ubTail <= ubFormer`, `1 <= blockTail <= blockFormer`, and the tiles hold exactly the output's elements. `blockNum <= coreNum`.
- **Budget respected.** `elemNum <= budget`, and one tile fits in `elemNum`.
- **Preference pass.** The pass never lowers the block count it started from. Spec §4.3 also says it stops once the fused product would reach `blockFormer*coreNum`.
- **Termination.** The preference loop ends through its 512 floor for every budget of at least `CACHE_LINE`. A smaller budget wraps the subtraction (`split_wrap`), and the 512 floor then no longer bounds the loop: it ends only when a split at the wrapped budget (its `ubFormer` truncated to 32 bits) happens to reach the target, or after about 2^57 iterations. No run states termination: the wrap is the question, and `split_wrap` shows it.
- **Kernel walk.** Every tile is processed by exactly one core, exactly once, with an index in range. Every core finishes.
- **Reduce.**
  - An axis list with a duplicate is rejected.
  - The normalised shape keeps the element count and alternates A/R.
  - Its rank fits the pattern table (≤ 9) and the fixed arrays.
  - A failed pattern match is reported.
- **Tiling buffer.** It behaves as a byte array with a cursor: a byte is kept until overwritten, and a failed call changes nothing. The cursor stays inside the block. Every `Append` returns (a `Seek` to a negative position does not; see the hazards).
- **SoC singleton.** No reader sees `socVersion` while another thread writes it.

## 2. Modules

| Module | Models | Instance |
|---|---|---|
| `BroadcastSplit` | capacity planner, `DoBrodcastTiling` / `GetBlockSplitFactor` and the last- and n-last-transpose splitters with their stride adapters | `MC_BroadcastSplit` |
| `DimensionCollapse` | `DoDimensionCollapse` with both collapse variants | `MC_DimensionCollapse` |
| `TileCover` | abstract: what the broadcast kernel promises | (through `BroadcastKernel`) |
| `BroadcastKernel` | a `BroadcastSplit` call, then the `Process` loop of the n-last NDDMA, last-transpose or UB-broadcast kernel on every core; refines `TileCover` | `MC_BroadcastKernel` |
| `ReduceShape` | reduce intake (`GetInputParam`, `ParamCheck`) and the normaliser (`TransformShape`, `DoTilingMatchPattern`'s `PadDimOne`) | `MC_ReduceShape` |
| `ReduceSplit` | `ReduceShape` composed with `PreProcessOptionalParam`, the split planner (`ComputeTiling`, `ComputeEmptyTiling`) and `CalcUserWorkSpace` | `MC_ReduceSplit` |
| `TilingBufferSpec` | abstract: what `ExtendedTilingBuffer` promises, a byte array with a cursor | (through `TilingBuffer`) |
| `TilingBuffer` | `ExtendedTilingBuffer` (`Init`, `Append`, `Seek`, `Enlarge`); refines `TilingBufferSpec` | `MC_TilingBuffer` |

Modules are composed with named instances. `BroadcastKernel` has `BS == INSTANCE BroadcastSplit`, and
`ReduceSplit` has `RS == INSTANCE ReduceShape`. Each composed module declares the instance's
variables again, and it takes the instance's `Next` as one of its own actions, leaving its own
variables unchanged.

### `BroadcastSplit`

One behaviour is one `DoBrodcastTiling` call.

**State.**
- `params` is the `BroadcastTilingParams`. The collapsed output dims are an input here.
- `pc` is the position in the function.
- The other variables are the function's locals under their own names.
- `budget` keeps the value `BroadcastGetMaxElemNum` returned, so properties can compare against it.
- `loopExit` records how the preference loop ended.
- `tiling` holds the `BroadcastTilingData` fields written on success.

**Actions.**

| Action | Models |
|---|---|
| `Call` | the caller choosing a parameter record |
| `Reject` | the early returns, in the code's order |
| `Start` | budget, first split and first partition; without the pass it also stores the result |
| `ShrinkStep` | one loop iteration that re-splits |
| `ShrinkFloor` | the iteration that reaches `<= 512` and breaks |
| `ShrinkWrap` | the iteration whose `uint64_t` subtraction wraps. The wrapped value (about 2^64) is beyond TLC's integers, so the model stops there |
| `ShrinkReached` | the loop condition failing |
| `Resplit` | round-up, re-split, partition, store |

`GetBlockSplitFactor` is an operator. The innermost-outward scan is "the largest axis index whose
suffix product exceeds the budget".

**Tiling variants.** `params.schedule` picks which copy of the driver the call is: `contiguous`
(`DoBrodcastTiling`), `lastTranspose` (`DoBrodcastTilingLastTranspose`), `nlastTranspose` and
`ubBroadcast` (`BroadcastTilingNLastTranspose` without and with `isUbBroadcast`). The three copies
in `broadcast_tiling_noncontiguous.cpp` repeat the driver's steps (checks, first split,
preference loop, round-up, store) and differ in three places, which are operators:
- `TilingError`: the last transpose also rejects a rank below 2;
- `SplitFactor`: the transposes scan with block-padded products (`PaddedProduct`, `ScanSplit`). The
  last transpose pads from axis −2 inward and, when the last axis alone exceeds the budget, splits
  axis −2 by at most `128 / alignment` and the last axis separately (`ubFormerLastAxis`,
  `ubOuterLastAxis`, `ubTailLastAxis`). The n-last transpose pads from axis −2 (−1 with
  `isUbBroadcast`);
- `Result`: the stored fields, and the header's adapters, which add `outputStridesWithPad`
  (`OutputStridesWithPad`, padding the stride of axis −3, or −2 for `ubBroadcast`).

### `DimensionCollapse`

The collapse is a pure function of shapes and strides. So it is the operator `CollapseResult`,
and its per-row merge loop is the `RECURSIVE` operator `CollapseLoop`. A call has two steps:
`Reject` (the checks, in the code's order) or `Collapse`.

The inputs are enumerated as follows:
- every input shape of rank ≤ 3 over the given lengths;
- contiguous inputs, and strided inputs in every axis permutation;
- the output either inferred by broadcasting or given explicitly, as `BroadcastTo` passes it.

### `TileCover` and `BroadcastKernel`

`TileCover` has a set `tiles`, fixed once by `Plan`, and a bag `processed`. `Process(t)` adds a
tile not yet processed. Weak fairness on processing means every tile is eventually processed.

`BroadcastKernel` runs a `BroadcastSplit` call, then `Launch` starts `blockNum` cores. Each core's
`ProcessTile` models:
- one iteration of `Process`;
- its start index `blockFormer * blockIdx` and its count (`blockFormer`, or `blockTail` on the last core);
- the odometer `UpdateAxesIndices` with its `Carry`.

The steps of different cores interleave. The refinement mapping is `tiles <- Tiles` (once
launched) and `processed <- written`, and `TC!Spec` is checked as a `PROPERTY`.

For a last-transpose plan the kernel is the `Process` of `broadcast_sch_last_transpose.h`:
`ProcessTile` advances the indices and enters the inner loop, and `ProcessLastAxisTile` is one
inner iteration, which writes the tile `<<axes..., lastAxisLoopIdx>>`. Each write adds the
tile's element count (`TileElems`: `ubTail` on the split axis's last index, `ubTailLastAxis` in
the last inner iteration). The step also models `CopyInBrc`'s cache:
- `lastAxisBrc`, chosen at launch, says whether the input is broadcast on the last axis;
- `brcBuf` holds the two `pingPong` buffers of each core;
- `CopyInBrcCopies` is the code's test for copying instead of reusing;
- `brcRead` records what the Run read and what its tile needed.

For a `ubBroadcast` plan the kernel is the `Process` of
`broadcast_sch_nlast_transpose_ub_broadcast.h`, the same block walk as the NDDMA kernel. The
step also models `CopyInAndVecBrc`:
- `RealIdx` is the position on the UB split axis, `(blockIdx * blockFormer + ubLoopIdx) % ubOuter`;
- `UbFormerRows` and `UbTailRows` are the rows it copies (`ubTail` at the last `realIdx`, and 1 when the output's split axis has length 1);
- `splitAxisBrc` and `vecSplitAxisBrc`, chosen at launch, say whether the copied input and the vector-broadcast input are broadcast on the split axis;
- `ubBrcBuf` holds each core's two broadcast buffers, and `UbBrcRun` is one iteration's copy or reuse, with the skip tests `CopyInAndVecBrcSkips` and `VecCopyInRuns`.

The buffers are assumed to keep their contents across iterations: `GetBufId<pos, true>`, which
picks them, is not in the repository.

The last-transpose kernel calls `BroadcastGetAxesIndices` and `BroadcastUpdateAxesIndices`,
which are not in the repository. They have the signature of the NDDMA helpers, and the model
uses those.

**Fairness.** The fairness is weak fairness:
- of the call's own steps, because a started host call is not descheduled forever;
- of `Launch`;
- of each core, because hardware cores run their loops to the end and do not preempt one another.

### `ReduceShape`

**State.** `input` (shape, strides, axes), `axes` (`opInput_.axes`), and `viewShape`,
`viewStride`, `shapeSize`, `sliceNum`, `sliceShape`, `sliceStride`, `viewStride_`. The fixed
`MAX_DIM` arrays are sequences, and the code's 0-based index `i` is position `i+1`.

**Actions.**

| Action | Models |
|---|---|
| `Call` | `GetInputParam`: the all-reduce shortcut `CheckAllReduce && CheckIsContiguous` |
| `ParamCheck` | `MakeWrapDim`, then `AxesCheck` |
| `Eliminate` | `EliminateOne` |
| `Pad` | `PadDimForNonContiguous` |
| `Merge` | `MergeAxis` |
| `MatchPattern` | `DoTilingMatchPattern`: `PadDimOne` for 5–7 axes, and the unsupported default |

Each loop of the code is a `RECURSIVE` operator over its index. `std::find` is `SelectInSeq`, and
`erase` is `RemoveAt`.

### `ReduceSplit`

`ReduceShape` runs first (`Normalise`). Then `PreProcessOptionalParam` reads the platform, and
`ComputeTiling` runs one step per function, in its order:

| Action | Models |
|---|---|
| `PreProcessOptionalParam` | zeroes the tiling data, takes a platform record as `compileInfo_` and fails the call (`rejected`) when any of its five fields is 0 (`CompileInfoValid`). Its default row-major strides are those `GetInputStride` already gives every input. |
| `BasicBlock` | `CalcBasicBlock`, on a compute-graph record (`opDag_`) |
| `CacheLine` | `ComputeCacheLineBlockAndUnit` |
| `UnitA` | `ComputeUnitA` |
| `UnitR` | `ComputeUnitR` |
| `ProgressUnitA` | `ComputeProgressUnitA` |
| `TilingData` | `SetTilingData` with `IsUseNddma` and `ComputeStride`, and `SetTilingKey` |
| `EmptyTiling` | `ComputeEmptyTiling` up to its plan: `outSize`, `SetBlockDim(vectorCoreNum)`, the return for an empty output, the halved basic block and `newshape` |
| `EmptyCacheLine` | its `ComputeCacheLineBlock<A>` and `unitA_.outer *= cacheLineOuter` |
| `EmptyUnitA` | its `ComputeUnitA<A>` |
| `EmptyTilingData` | its `SetTilingData<A>`; there is no `SetTilingKey` on this path |
| `WorkSpace` | `CalcUserWorkSpace` |

The planner's functions take the shape they are called on, and so do the model's: the variable
`shape` is the pattern's `viewShape_` in `ComputeTiling`, and `<<outSize>>` (`newshape`) in
`ComputeEmptyTiling`. `BasicBlock` goes to `EmptyTiling` when `IsEmtpyTensor` holds. The slice
arrays stay those of the pattern, as in the code.

`WorkSpace` also runs after a failed `CalcBasicBlock` or an unsupported pattern (`Dispatched`),
because `DoReduceTiling` ignores the status.

The loops over axes are `RECURSIVE` operators. A step scan inside one axis runs up to thousands
of iterations, so it is a set computation with the same result:
- the steps it visits;
- the first step at which it breaks;
- the step its running maximum settles on. In `ComputeUnitA` that is the first step that reaches the largest rate of the scan.

The `double` comparisons `rate > 0.95` are exact comparisons of integer fractions.
`TryGetReduceBlock`'s quotient is the exact rational one, floored.

### `TilingBuffer` and `TilingBufferSpec`

`TilingBuffer` models `ExtendedTilingBuffer` of `op_ctx_def.h`. The tiling functions write their
tiling data through it. Its members `addr_`, `offset_` and `size_` are variables. A block is a
function from `0..size_-1` to `Bytes \cup {Undef}`; `Undef` stands for the indeterminate bytes
`malloc` returns, and `addr_ = Null` before the first `Init`.

| Action | Code |
|---|---|
| `InitBuf` | `Init(size)`: a fresh block, `offset_ = 0` |
| `CallAppend`, `CallSeek` | the user calls `Append(data, len)` or `Seek(len, dir)`; the arguments come from small sets |
| `Append` | the `offset_ + len > size_` test, in `size_t`, and the call of `Enlarge` |
| `Seek` | `newOffset` for `beg`, `cur` and `end`, then `Enlarge` when `newOffset`, cast to `size_t`, passes `size_` |
| `Grow` | one iteration of `while (newSize < size) newSize *= DOUBLE` |
| `Realloc` | `Enlarge`'s `malloc`, the copy of the `size_` old bytes, `free`, and the new `size_` |
| `ReallocFails` | `Enlarge`'s `malloc` returns `nullptr`: the call fails, nothing changes |
| `Copy` | Append's `memcpy_s` and `offset_ += len`; `memcpy_s` refuses a null block and `destMax = 0` |
| `Commit` | Seek's `offset_ = newOffset` |

`size_t` and `off_t` are `W` bits wide. `ToSizeT` and `ToOffT` wrap as the build's conversions do.
The doubling loop is one `Grow` step per iteration, so a loop that never ends is a behaviour
that stays at `pc = "grow"`. TLC does reach such a state: a `Seek` to a negative position. Its
`newOffset` is a huge `size_t`, and doubling `size_` wraps to 0, which stays below the target
forever. `AppendReturns` is about `Append` only, which cannot reach it (hazard `op_ctx_def.h:124`).

`TilingBufferSpec` is what the buffer promises: a partial function from positions to bytes and a
cursor. `Reset`, `Write` and `SetPos` are its steps. `TilingBuffer` implements it under the
mapping `content <- Content`, the bytes of the block that are not `Undef`, and `pos <- offset_`.
`Refines` checks this; every handler step except `Copy` and `Commit` is a stuttering step there.

**Fairness.** `WF_vars(Handler)`: one buffer is used by one thread, and a started call runs on
that thread until it returns. The user's calls (`InitBuf`, `CallAppend`, `CallSeek`) get no
fairness, because nothing makes a user call again.

## 3. Properties

| Property | Module | States |
|---|---|---|
| `TypeOK` | each | the type invariant |
| `Coverage` | BroadcastSplit | `1 <= ubTail <= ubFormer`, `1 <= blockTail <= blockFormer`, `blockNum <= coreNum`, and the tiles and blocks hold exactly the output's outer trip count; for the last transpose, the last-axis pieces rebuild the last axis |
| `TileFitsElemNum` | BroadcastSplit | one tile, laid out as its kernel lays it out (with `outputStridesWithPad` for the transposes), fits in `elemNum` |
| `BudgetRespected` | BroadcastSplit | `elemNum` never exceeds the budget `BroadcastGetMaxElemNum` granted, and one tile fits in it |
| `PreferenceKeepsBlocks` | BroadcastSplit | the preference pass never ends with fewer blocks than the first split |
| `LineAlignedBudgetSafe` | BroadcastSplit | when the granted budget is a multiple of `CACHE_LINE`, `BudgetRespected` and `PreferenceKeepsBlocks` hold. This does not say the round-up is harmless: the re-split at one `CACHE_LINE` above the budget at which the loop succeeded (hazard `broadcast_tiling.cpp:547`) is not checked |
| `NoBudgetWrap` | BroadcastSplit | the budget never goes below `CACHE_LINE` inside the loop |
| `BroadcastLegal` | DimensionCollapse | every collapsed input dim is 1 or the output dim |
| `AddressingPreserved` | DimensionCollapse | every output index addresses the same input element before and after the collapse |
| `KernelCoversTiles` | BroadcastKernel | the cores implement `TileCover`: every tile once, nothing else, eventually all |
| `ElementsWritten` | BroadcastKernel | once every core has finished, the element counts of the tiles written, with the tails each kernel picks, add up to the output |
| `BrcBufferCurrent` | BroadcastKernel | a last-transpose `CopyInBrc` that skips its copy finds, in its `pingPong` buffer, the input its tile needs |
| `UbBrcBufferCurrent` | BroadcastKernel | after each UB-broadcast iteration, both broadcast buffers hold the input row of the core's current tile, and the copied buffer holds at least the rows the tile needs |
| `AddressingPreserved` | ReduceShape | the normalised view addresses every element where the input view does |
| `ReductionPreserved` | ReduceShape | each output element of the normalised A/R pattern reduces the same input elements as the requested axes do |
| `PatternAlternates` | ReduceShape | after merging, exactly the odd positions are reduced |
| `NoArrayOverrun` | ReduceShape | `shapeSize <= MAX_DIM` |
| `UnitsTileShape` | ReduceSplit | for a pattern with no empty axis, `unitA` and `unitR` equal the closed-form tiling of their axes (inner axes whole, the split axis cut by `step`, outer counts the pieces). The closed form reads the slices as the code does, so the empty-tensor plan, which keeps the slices of another axis, is left to `EmptyOutputCovered` |
| `TileFitsBasicBlock` | ReduceSplit | the UB tile fits the basic block unless one cache-line block alone is larger |
| `BlockDimWithinCores` | ReduceSplit | `SetTilingData` launches 1..`vectorCoreNum` cores that cover every unit |
| `CursorInBlock` | TilingBuffer | between calls, `0 <= offset_ <= size_`: `Data()` points into the block |
| `Refines` | TilingBuffer | every sequence of calls implements `TilingBufferSpec`: `Enlarge` keeps the bytes written, `Append` writes at the cursor, a failed call changes nothing |
| `AppendReturns` | TilingBuffer | every `Append` returns: `Enlarge`'s doubling loop ends |
| `EmptyOutputCovered` | ReduceSplit | for a reduction over an empty axis, the units `ComputeEmptyTiling` hands the cores are exactly the `ubFactorA`-sized pieces of the `outSize` output |

Every property of a passing run has a mutant in `PROJECT.json`: a plausible bug in one mapped
definition (a dropped bound, an off-by-one, a missed restore) that TLC must catch under the run's
own configuration.

## 4. Runs

| Run | Expect | Shows |
|---|---|---|
| `split_cover` | pass | `TypeOK`, `Coverage`, `LineAlignedBudgetSafe` and `TileFitsElemNum` hold for all four tiling variants and every dtype width, on UB sizes from the early returns to budgets below `CACHE_LINE` (fires `ShrinkWrap`) |
| `split_wide_budget` | violation | `BudgetRespected` fails for 32/64-bit dtypes |
| `split_wrap` | violation | `NoBudgetWrap` fails: a budget below 128 reaches the preference loop of any of the variants |
| `dc_inferred` | pass | `TypeOK`, `BroadcastLegal` and `AddressingPreserved` for two inputs of rank ≤ 3, contiguous or strided, with the inferred output |
| `dc_explicit_out` | violation | `BroadcastLegal` fails for an explicit output shape |
| `kernel_cover` | pass | `KernelCoversTiles` (refinement of `TileCover`, liveness included), `ElementsWritten`, `BrcBufferCurrent` and `UbBrcBufferCurrent`, for n-last NDDMA, last-transpose and UB-broadcast plans |
| `reduce_normalise` | pass | `TypeOK`, `AddressingPreserved`, `ReductionPreserved` and `PatternAlternates` for rank ≤ 3 with row-major or view strides and up to 2 distinct axes |
| `reduce_dup_axes` | violation | `ReductionPreserved` fails when an axis is named twice |
| `reduce_overrun` | violation | `NoArrayOverrun` fails for strided inputs of a rank `GetInputShape` accepts |
| `reduce_split` | pass | `TypeOK`, `UnitsTileShape`, `TileFitsBasicBlock` and `BlockDimWithinCores` over normalised inputs of rank ≤ 3, empty axes included (`UnitsTileShape` on the pattern plans only), and on platforms reporting 0 cores or a 0 cache line |
| `tiling_buffer` | pass | `TypeOK`, `CursorInBlock`, `Refines` and `AppendReturns` over every sequence of four `Init`, `Append` and `Seek` calls, allocation failure in `Enlarge` included |
| `reduce_empty` | violation | `EmptyOutputCovered` fails: the empty-tensor plan of a 3-axis input covers part of the output |

### Bounds and why they are enough

- **Broadcast split.**
  - Axis lengths {1, 3, 40, 700} at rank ≤ 3 put the split on every axis.
  - UB sizes {0, 100, 1000, 1200, 2200} with `extraSize` {0, 100} and divisors {8, 16} reach every early return. They give budgets on both sides of the 512 floor and below `CACHE_LINE`.
  - There are 0, 4 or 8 cores.
  - Both values of `preferMultiCore` occur, and the compute key is either present or missing.
- **Kernel.** Rank-2 shapes with lengths {3, 90, 2000} and 3 or 4 cores give plans of up to 12 tiles. They split on both axes and have a last core with `blockTail < blockFormer`. Last-transpose plans of `[3, 2000]` split the last axis into 6 pieces with a shorter tail, so the inner loop runs past its first two iterations and `CopyInBrc` reuses its buffers. UB-broadcast plans of the same shapes give cores whose first tile lies inside an outer row (`realIdx > 0` at `ubLoopIdx` 0) and rows that end in a `ubTail` tile, so both the copy and the skip of `CopyInAndVecBrc` occur.
- **Variants.** `split_cover` runs all four schedules. The other split runs check the contiguous driver, except `split_wrap`, which takes all four.
- **Collapse.** Lengths {0, 1, 2, 3} tell every merge rule apart. 0 is an empty tensor, and 2 and 3 make the strides of different axes differ.
- **Reduce normaliser.**
  - Lengths {1, 2, 3} and strides {1, 2, 3, 4, 6} at rank ≤ 3 give every contiguity pattern.
  - Up to 2 axes of −(n+1)..n include out-of-range values and wrapping.
  - The overrun run uses rank 7 with length 2 and strides {1, 4}.
- **Reduce planner.**
  - Lengths {3, 16, 100} at rank ≤ 3 lie below, near and above a 256-byte cache line. `reduce_split` takes {0, 3, 100}: 0 sends the call to `ComputeEmptyTiling`, with an empty output or, when only R axes are empty, a planned one. Dropping 16 there keeps the run, with its extra UB, at the size of the three-length one.
  - Strides {1, 500} give views.
  - UBs have 0, 4K or 16K above the 16K reduce cache, with 8 or 40 cores and 2- or 4-byte types. These make the basic block small enough that the split search cuts A and R axes and the preference step runs. A real UB (192K) reaches the same code paths only with much larger shapes, which are out of TLC's reach. One UB with 18K above the cache (8 cores) is added: with a reduced size of 0, `CalcBasicBlock` clamps the result block to 16K and fails unless more than that is left, so only this UB reaches the empty-tensor plan. `reduce_empty` uses it alone, on contiguous inputs.
  - The run gives the fixed arrays room (`MAX_DIM` 16), because `reduce_overrun` checks the overrun on its own.
- **Constants not in the repository** (`MAX_DIM`, `CACHE_BUF_SIZE`, the `math_util.h` helpers) are taken as the spec and the call sites describe them: `MAX_DIM` 8 and `CACHE_BUF_SIZE` 16K. `PadDimOne` writes index 8 of the same arrays for 9-axis patterns, which suggests the build's `MAX_DIM` is at least 9; the planner runs use 16, and the overrun `reduce_overrun` shows (index 9 for a rank-5 view) exceeds 9 as well. `CeilDiv`, `FloorAlign` and `CeilAlign` are the usual integer operations, and `CeilDiv(x, 0) = x`.
- **Reduce planner, bad platforms.** `reduce_split` adds two platforms with a zero field (`coreNum` 0, `cacheLineSize` 0), so `PreProcessOptionalParam` rejects some calls and the planner never starts on them.
- **Tiling buffer.**
  - `W` = 8: `size_t` wraps at 256, far above every size the calls reach (at most 12 before a wrap is asked for), as 2^64 is for real tiling data. Only a negative `Seek` reaches the wrap, as in the code.
  - `Init` sizes {0, 3}: 0 gives the buffer that `Enlarge` cannot grow; 3 doubles to 6 and 12.
  - `Append` lengths {0, 2, 5} fit, overflow by a little, and need two doublings. `Seek` offsets {-1, 0, 4} with all three directions reach a negative position, the start, and a position past the end.
  - Four calls per behaviour allow `Init`, two writes and a `Seek`, or a re-`Init` of a buffer in use; two byte values tell an overwrite from a kept byte.
- **`CalcUserBasicBlock`** is called by `CalcBasicBlock` but not defined in the repository. It is taken to leave `basicBlock_` unchanged.

## 5. Findings

- **Budget overrun** (`split_wide_budget`, `broadcast_tiling.cpp:546`).
  - *The code:* the round-up after the preference loop exceeds the budget `BroadcastGetMaxElemNum` granted whenever that budget is not a multiple of 128, which is the case for 32/64-bit minimum dtypes.
  - *TLC's example:* dims `[1]`, UB 1000. The budget is 448 and `elemNum` is 512.
  - *Consequence:* the kernel sizes its UB queues from `elemNum`.
- **Budget wrap** (`split_wrap`, `broadcast_tiling.cpp:539`).
  - *The code:* a budget below 128 that enters the preference loop wraps `maxElemNum - CACHE_LINE` as `uint64_t`, and the 512 floor no longer stops the loop.
  - *Also:* the transpose splitters' copies of the loop (`broadcast_tiling_noncontiguous.cpp:149`, `:294`) wrap the same way.
- **Broadcast axis absorbed** (`dc_explicit_out`, `broadcast_tiling.cpp:210`).
  - *The code:* merge rule (b) compares the signature of the whole group with the target.
  - *Result:* an all-broadcast axis followed by a size-1 axis absorbs the next real axis. Input `[2]` broadcast to `[2,1,2]` collapses to an input dim of 2 against an output dim of 4.
- **Duplicate reduce axes** (`reduce_dup_axes`, `reduce_tiling.cpp:357`).
  - *The code:* `AxesCheck` accepts an axis named twice, and `EliminateOne` erases only the first copy.
  - *TLC's example:* shape `[1,2]` with axes `[-2,-2]` reduces the wrong axis.
- **Fixed-array overrun** (`reduce_overrun`, `reduce_tiling.cpp:393`).
  - *The code:* `PadDimForNonContiguous` adds an axis per non-contiguous axis with no bound check.
  - *TLC's example:* a rank-5 view with all strides 1 writes index 9 of the `MAX_DIM` arrays.
- **Empty-tensor plan covers part of the output** (`reduce_empty`, `reduce_tiling.cpp:574`, reached from `:929`).
  - *The code:* `ComputeEmptyTiling` flattens the A axes into `newshape = {outSize}` and plans it as `PATTERN_A`. But `ComputeCacheLineBlock<A>` and `ComputeUnitA<A>` cut axis 0 with `sliceShape_[0]` and `sliceNum_[0]`, the slices of the pattern's first axis, not of the flattened output.
  - *TLC's example:* a contiguous float `[100, 0, 3]` reduced over axis 1. `outSize` is 300 and a cache line holds 64 elements. `cacheLineStep` 64 is below `sliceShape_[0]` = 100, so `cacheLineOuter = CeilDiv(100, 64) = 2` instead of `CeilDiv(300, 64) = 5`. The tiling hands 2 cores one unit of 64 each: 128 of the 300 output elements, which a reduction over an empty axis must fill with its initial value.
  - *When it happens:* with a real UB for any such input whose first A axis is longer than a cache line and is followed by another A axis of length > 1.

## 6. Not modelled, and why

- **`GetBufId`.** It is not in the repository. The UB-broadcast model assumes the broadcast buffers persist. The vector-broadcast skip of the last-transpose `Run` depends on which `pingPong` buffer `GetBufId` picks, so it is not modelled.
- **Data movement.** The NDDMA and `MovAlign2UB` parameter builders only move data. Their rank limits (`BROADCAST_MAX_DIMS_LAST_TRANSPOSE` = 4, `outputDims[1]` in `MovAlign2UB`) are listed as a hazard. The model's ranks stay at most 3.
- **The preference pass against spec §4.3.** The spec says the pass moves the split towards a target; the code can also shrink the tile without gaining a block (dims `[1]`, 4 cores: 768 → 640). No run checks this: the round-up that follows the same loop is already the `split_wide_budget` finding (hazard `broadcast_tiling.cpp:546`).
- **Memory level 2** (`Ratio() > 1`) and **`SetScheduleMode` failing**. These paths of the reduce planner are not reached by the planner's inputs.
- **Zero R step** (`reduce_tiling.cpp:729`). `ComputeUnitR` writes `ubFactorR = 0` when one cache-line block is larger than the basic block. TLC reaches it in `reduce_split`: contiguous fp16 `[3,100,3]` reduced over axes 0 and 2 on the UB 4K above the reduce cache gives a 768-byte basic block, and `ComputeUnitR` ends with step 0. No run states it. `TileFitsBasicBlock` exempts exactly this case, every run slot holds a question with a finding, and what the kernel does with `ubFactorR = 0` is outside the repository. The hazard list records it.
- **Reduce shape inference** (`infershape_reduce_util.cpp`). `InferShape4Reduce` copies the input shape for an empty axes tensor and otherwise calls `ReduceDims`, which is not in the repository. The one part of its result the tiling reads, the element count `CheckAllReduce` tests, is modelled in `ReduceShape`.
- **SoC singleton** (`indv_soc.cpp`). `GetCurSocVersion` initialises `socVersion` on first use without a lock. Nothing in the repository calls it or `Reset`, so which threads race on it is not known; a model would have to invent its callers. The hazard is listed.
- **A failed `Init` of the tiling buffer** (`op_ctx_def.h:81`). `Init` stores `malloc`'s result before checking it and keeps the old `size_` and `offset_`. The `tiling_buffer` run lets only `Enlarge`'s `malloc` fail: this path breaks every property of that run on its own, so it is a listed hazard and not part of the run's fault model.
- **Logging.** `OP_LOG*`, `*ToString`, `PrintTilingData` and `BrcPrint*` are layout only.
- **Compile-time kernel selection** (`node.h`, `broadcast_sch.h`). It is resolved by the C++ compiler and has no run-time state.
- **Binary/JSON loading, argument marshalling and `thread_var_container.cpp`.** These are file-system and runtime I/O with no state machine of their own.
- **AICPU declarations.** There is no behaviour in the code.
- **Integers.** TLC's integers are 32-bit. No modelled budget or product reaches 2^31. `ubFormer` is `uint32_t`, and only a budget that has wrapped at `broadcast_tiling.cpp:539` would exceed it; `split_wrap` stops at the wrap.

## 7. Further work

In order of importance:

1. **`BroadcastTiling`**: `DimensionCollapse` composed with `BroadcastSplit` for the whole `BroadcastTiling` call. Its main question is whether a zero output dim reaches the divisions of `GetBlockSplitFactor` (`broadcast_tiling.cpp:476`).
2. **The whole call with `DimensionCollapse`** for the transposes: the `NonContiguousDimensionCollapse` result as the input of the last- and n-last-transpose splitters.
3. **`TilingBuffer` faults**: a violation run for the failed `Init` and one for the negative `Seek` that never returns, the second of which TLC already reaches in the current model.
4. **`IndvSocInit`**: threads calling `GetCurSocVersion` concurrently over the unlocked `isInit` check, once the callers are known.
