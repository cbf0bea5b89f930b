---------------------------- MODULE BroadcastKernel ----------------------------
(***************************************************************************)
(* A broadcast tiling call followed by the kernel that consumes its result. *)
(* The call is the module BroadcastSplit. The kernel is the Process loop   *)
(* of broadcast_sch_nlast_transpose_nddma.h or, for a last-transpose plan, *)
(* of broadcast_sch_last_transpose.h, which every core runs with its block *)
(* index, using the axis-index helpers of                                 *)
(* broadcast_sch_util_nlast_transpose_naddma.h (the last-transpose kernel  *)
(* calls helpers of the same signature that are not in the repository).   *)
(* Cores share only the output; each core's loop is one step per UB tile, *)
(* and the last-transpose kernel one more step per last-axis tile; the    *)
(* steps of different cores interleave.                                   *)
(*                                                                         *)
(* A tile is named by the axis indices of the split axis and the axes     *)
(* outside it, axesIndices[0..ubSplitAxis], which is the part of the      *)
(* index that GetGmOffset turns into the tile's output offset; a          *)
(* last-transpose tile also carries its lastAxisLoopIdx.                   *)
(***************************************************************************)
EXTENDS Integers, Sequences, Bags

CONSTANTS DimVals, MaxRank, UbSizes, ExtraSizes, BufferDivisors, DtypeBits,
          CoreNums, Schedules,
          MaxTiles   \* bound on the tiles of a plan the model lets the kernel walk

VARIABLES
  params, pc, err, budget, maxElemNum, ubInfo, fusedProduct, blockFormer0,
  blockNum0, dstFusedProduct, tmpFusedProduct, loopExit, tiling,
  launched,     \* the kernel has been launched on tiling.blockNum cores
  ubLoopIdx,    \* per core: ubLoopIdx of its Process loop
  axesIndices,  \* per core: its axesIndices array, 0-based axes 0..ubSplitAxis
  lastAxisLoopIdx, \* per core: lastAxisLoopIdx of the inner last-axis loop
  lastAxisBrc,  \* the CopyInBrc input has stride 0 on the last axis
  brcBuf,       \* per core: what its two CopyInBrc buffers (pingPong 0, 1) hold
  brcRead,      \* per core: what the last Run read from its CopyInBrc buffer,
                \* and what that Run's tile needed
  splitAxisBrc, \* UB-broadcast kernel: its CopyInBrc input has stride 0 on
                \* the split axis
  vecSplitAxisBrc, \* UB-broadcast kernel: so has the input of its vector Brc
  ubBrcBuf,     \* per core: what the UB-broadcast kernel's broadcast buffers
                \* hold, [brc |-> the CopyInAndVecBrc output, vec |-> the
                \* input of the vector Brc]
  written,      \* bag of the tiles written to the output so far
  elems         \* output elements the written tiles hold, summed

BS == INSTANCE BroadcastSplit

splitVars == <<params, pc, err, budget, maxElemNum, ubInfo, fusedProduct,
               blockFormer0, blockNum0, dstFusedProduct, tmpFusedProduct,
               loopExit, tiling>>
walkVars == <<launched, ubLoopIdx, axesIndices, lastAxisLoopIdx, lastAxisBrc, brcBuf,
             brcRead, splitAxisBrc, vecSplitAxisBrc, ubBrcBuf, written, elems>>
vars == <<splitVars, walkVars>>

Cores == 0..(tiling.blockNum - 1)

MaxCoreNum == CHOOSE n \in CoreNums : \A m \in CoreNums : n >= m

\* The output dims as the kernel reads them (tilingData->outputDims).
OutDim(i) == params.dims[i + 1]

\* BroadcastGetAxesIndicesNDDMA: the indices of the prodIdx-th UB tile,
\* dividing totalProduct (dimProductBeforeUbInner) by the outer dims.
GetAxesIndices(prodIdx, endIdx, totalProduct) ==
  LET RECURSIVE Go(_, _, _, _)
      Go(idx, pIdx, tp, acc) ==
        IF idx = endIdx THEN Append(acc, pIdx)
        ELSE LET tp2 == tp \div OutDim(idx)
                 cur == pIdx \div tp2
             IN  Go(idx + 1, pIdx - cur * tp2, tp2, Append(acc, cur))
  IN  Go(0, prodIdx, totalProduct, <<>>)

\* BroadcastUpdateAxesIndicesNDDMA: advance to the next UB tile. The split
\* axis wraps at endDim (ubOuter) and carries; every outer axis that reached
\* its dim wraps and carries. The carry out of axis 0 writes
\* axesIndices[-1], outside the array; it is dropped here.
CarryPastEnd(a, idx, lim) ==
  IF idx >= 0 /\ a[idx + 1] > lim
  THEN [i \in DOMAIN a |-> IF i = idx + 1 THEN 0
                           ELSE IF i = idx THEN a[i] + 1 ELSE a[i]]
  ELSE a
Carry(a, idx, lim) ==
  IF idx >= 0 /\ a[idx + 1] = lim
  THEN [i \in DOMAIN a |-> IF i = idx + 1 THEN 0
                           ELSE IF i = idx THEN a[i] + 1 ELSE a[i]]
  ELSE a
UpdateAxesIndices(a, endIdx, endDim) ==
  LET RECURSIVE Down(_, _)
      Down(b, idx) == IF idx < 0 THEN b ELSE Down(Carry(b, idx, OutDim(idx)), idx - 1)
      bumped == [a EXCEPT ![endIdx + 1] = @ + 1]
  IN  Down(Carry(bumped, endIdx, endDim), endIdx - 1)

\* ubLoopNum: the last core runs blockTail tiles, the others blockFormer.
UbLoopNum(c) == IF c = tiling.blockNum - 1 THEN tiling.blockTail ELSE tiling.blockFormer

IsUbBroadcast == params.schedule = "ubBroadcast"

\* The inner loop runs ubOuterLastAxis times in the last-transpose kernel;
\* the n-last kernel has none.
IsLastTranspose == params.schedule = "lastTranspose"
LastAxisLoops == IF IsLastTranspose THEN tiling.ubOuterLastAxis ELSE 0

\* The elements of the tile at a (and l): notLastUBSplitSize (ubTail on the
\* last index of the split axis, else ubFormer) times the axes inside the
\* split, of which the last-transpose kernel takes lastUBSplitSize
\* (ubTailLastAxis in the last inner iteration, else ubFormerLastAxis).
SplitSize(a) ==
  IF a[tiling.ubSplitAxis + 1] = tiling.ubOuter - 1 THEN tiling.ubTail ELSE tiling.ubFormer
\* Fault model: ubFormerLastAxis in every inner iteration, the tail dropped.
LastUBSplitSizeNoTail(l) == tiling.ubFormerLastAxis
LastUBSplitSize(l) ==
  IF l = tiling.ubOuterLastAxis - 1 THEN tiling.ubTailLastAxis ELSE tiling.ubFormerLastAxis
TileElems(a, l) ==
  LET n == Len(params.dims)
      s == tiling.ubSplitAxis
  IN  IF IsLastTranspose
      THEN SplitSize(a) * BS!AxesProduct(params.dims, s + 1, n - 2) * LastUBSplitSize(l)
      ELSE SplitSize(a) * BS!AxesProduct(params.dims, s + 1, n - 1)

\* The input the CopyInBrc of tile (a, l) reads: its gmOffset adds
\* lastAxisLoopIdx times the last-axis stride, 0 for an input broadcast on
\* the last axis, so such a tile's input depends only on the outer indices
\* and on lastUBSplitSize.
NoData == <<>>
BrcData(a, l) == <<a, IF lastAxisBrc THEN 0 ELSE l, LastUBSplitSize(l)>>
\* Fault model: only the first inner iteration copies, as if one buffer
\* served both pingPong phases.
CopyInBrcCopiesFirstOnly(l) ==
  ~lastAxisBrc \/ l = 0 \/ l = tiling.ubOuterLastAxis - 1
CopyInBrcCopies(l) ==
  ~lastAxisBrc \/ l <= 1 \/ l = tiling.ubOuterLastAxis - 1

\* The UB-broadcast kernel's Init: the broadcast rows of a tile are ubFormer
\* and ubTail, or 1 when the output's split axis has length 1.
UbFormerRows == IF OutDim(tiling.ubSplitAxis) # 1 THEN tiling.ubFormer ELSE 1
UbTailRows == IF OutDim(tiling.ubSplitAxis) # 1 THEN tiling.ubTail ELSE 1

\* realIdx of the UB-broadcast kernel: the split-axis index of core c's
\* ubLoopIdx-th tile, computed from the tile's global number rather than
\* from axesIndices.
RealIdxNoBlockOffset(c, k) == k % tiling.ubOuter
RealIdx(c, k) == (c * tiling.blockFormer + k) % tiling.ubOuter

\* The key of the input data a tile at a reads: an input with stride 0 on
\* the split axis reads the same data for every split index of one outer
\* position.
InputKey(a, brc) == IF brc THEN SubSeq(a, 1, tiling.ubSplitAxis) ELSE a

\* One Run of the UB-broadcast kernel on core c for its k-th tile at a.
\* CopyInAndVecBrc returns early (keeping its buffer) when its input is
\* broadcast on the split axis, k > 0 and realIdx > 0; otherwise it copies
\* and broadcasts ubTail rows when realIdx = ubOuter - 1, else ubFormer.
\* The vector Brc's CopyIn runs only when its input is not broadcast on the
\* split axis, k = 0 or realIdx = 0.
CopyInAndVecBrcSkips(k, r) == splitAxisBrc /\ k > 0 /\ r > 0
VecCopyInRuns(k, r) == ~vecSplitAxisBrc \/ k = 0 \/ r = 0
UbBrcRun(buf, c, k, a) ==
  LET r == RealIdx(c, k)
      brc == IF CopyInAndVecBrcSkips(k, r) THEN buf.brc
             ELSE [key |-> InputKey(a, splitAxisBrc),
                   rows |-> IF r = tiling.ubOuter - 1 THEN UbTailRows ELSE UbFormerRows]
      vec == IF VecCopyInRuns(k, r) THEN InputKey(a, vecSplitAxisBrc)
             ELSE buf.vec
  IN  [brc |-> brc, vec |-> vec]

Init ==
  /\ BS!Init
  /\ launched = FALSE
  /\ ubLoopIdx = <<>>
  /\ axesIndices = <<>>
  /\ lastAxisLoopIdx = <<>>
  /\ lastAxisBrc = FALSE
  /\ brcBuf = <<>>
  /\ brcRead = <<>>
  /\ splitAxisBrc = FALSE
  /\ vecSplitAxisBrc = FALSE
  /\ ubBrcBuf = <<>>
  /\ written = EmptyBag
  /\ elems = 0

\* A step of the tiling call.
Tiling ==
  /\ BS!Next
  /\ UNCHANGED walkVars

\* The kernel starts on every core; each core computes the indices of its
\* first tile from blockFormer * blockIdx. Plans of more than MaxTiles tiles
\* are not launched (a bound of the model, not of the code).
Launch ==
  /\ pc = "done"
  /\ ~launched
  /\ tiling.dimProductBeforeUbInner * (IF IsLastTranspose THEN tiling.ubOuterLastAxis ELSE 1)
       <= MaxTiles
  /\ launched' = TRUE
  /\ ubLoopIdx' = [c \in Cores |-> 0]
  /\ axesIndices' = [c \in Cores |->
                       GetAxesIndices(tiling.blockFormer * c, tiling.ubSplitAxis,
                                      tiling.dimProductBeforeUbInner)]
  /\ lastAxisLoopIdx' = [c \in Cores |-> LastAxisLoops]
  /\ lastAxisBrc' \in BOOLEAN
  /\ brcBuf' = [c \in Cores |-> [p \in 0..1 |-> NoData]]
  /\ brcRead' = [c \in Cores |-> [read |-> NoData, need |-> NoData]]
  /\ splitAxisBrc' \in IF IsUbBroadcast THEN BOOLEAN ELSE {FALSE}
  /\ vecSplitAxisBrc' \in IF IsUbBroadcast THEN BOOLEAN ELSE {FALSE}
  /\ ubBrcBuf' = [c \in Cores |-> [brc |-> [key |-> NoData, rows |-> 0], vec |-> NoData]]
  /\ UNCHANGED <<splitVars, written, elems>>

\* One iteration of core c's loop, once the inner loop of the previous one
\* is over: the indices advance (except before the first tile). The n-last
\* kernel's Run copies the tile in, computes and writes it out; the
\* last-transpose kernel enters its inner loop at lastAxisLoopIdx 0.
ProcessTile(c) ==
  /\ launched
  /\ ubLoopIdx[c] < UbLoopNum(c)
  /\ lastAxisLoopIdx[c] = LastAxisLoops
  /\ LET a == IF ubLoopIdx[c] # 0
              THEN UpdateAxesIndices(axesIndices[c], tiling.ubSplitAxis, tiling.ubOuter)
              ELSE axesIndices[c]
     IN  /\ axesIndices' = [axesIndices EXCEPT ![c] = a]
         /\ IF IsLastTranspose
            THEN /\ lastAxisLoopIdx' = [lastAxisLoopIdx EXCEPT ![c] = 0]
                 /\ UNCHANGED <<written, elems>>
            ELSE /\ written' = written (+) SetToBag({a})
                 /\ elems' = elems + TileElems(a, 0)
                 /\ UNCHANGED lastAxisLoopIdx
         /\ ubBrcBuf' = IF IsUbBroadcast
                        THEN [ubBrcBuf EXCEPT ![c] = UbBrcRun(@, c, ubLoopIdx[c], a)]
                        ELSE ubBrcBuf
  /\ ubLoopIdx' = [ubLoopIdx EXCEPT ![c] = @ + 1]
  /\ UNCHANGED <<splitVars, launched, lastAxisBrc, brcBuf, brcRead, splitAxisBrc,
                 vecSplitAxisBrc>>

\* One iteration of the last-transpose kernel's inner loop on core c: Run
\* writes the tile of the current axis indices and lastAxisLoopIdx, with
\* pingPong = lastAxisLoopIdx & 1. Its CopyInBrc copies the input into the
\* pingPong buffer unless the input is broadcast on the last axis and the
\* iteration is neither of the first two nor the last; then it reuses the
\* buffer as it is (CopyInBrcCopies).
ProcessLastAxisTile(c) ==
  /\ launched
  /\ lastAxisLoopIdx[c] < LastAxisLoops
  /\ LET l == lastAxisLoopIdx[c]
         a == axesIndices[c]
         buf == IF CopyInBrcCopies(l)
                THEN [brcBuf[c] EXCEPT ![l % 2] = BrcData(a, l)]
                ELSE brcBuf[c]
     IN  /\ brcBuf' = [brcBuf EXCEPT ![c] = buf]
         /\ brcRead' = [brcRead EXCEPT ![c] = [read |-> buf[l % 2], need |-> BrcData(a, l)]]
         /\ written' = written (+) SetToBag({Append(a, l)})
         /\ elems' = elems + TileElems(a, l)
  /\ lastAxisLoopIdx' = [lastAxisLoopIdx EXCEPT ![c] = @ + 1]
  /\ UNCHANGED <<splitVars, launched, ubLoopIdx, axesIndices, lastAxisBrc, splitAxisBrc,
                 vecSplitAxisBrc, ubBrcBuf>>

Next ==
  \/ Tiling
  \/ Launch
  \/ launched /\ \E c \in Cores : ProcessTile(c)
  \/ launched /\ \E c \in Cores : ProcessLastAxisTile(c)

\* The call runs to completion (as in BroadcastSplit), the runtime launches
\* the kernel once the call succeeded, and every core runs its loop to the
\* end: hardware cores are not preempted by one another.
Spec ==
  /\ Init /\ [][Next]_vars
  /\ WF_vars(BS!DoBrodcastTiling /\ UNCHANGED walkVars)
  /\ WF_vars(Launch)
  /\ \A c \in 0..(MaxCoreNum - 1) : WF_vars(launched /\ c \in Cores /\ ProcessTile(c))
  /\ \A c \in 0..(MaxCoreNum - 1) : WF_vars(launched /\ c \in Cores /\ ProcessLastAxisTile(c))

-----------------------------------------------------------------------------
\* The tiles of the plan: the split-axis index below ubOuter and every outer
\* axis index below its dim.
Tiles ==
  LET bound(i) == IF i = tiling.ubSplitAxis THEN tiling.ubOuter ELSE OutDim(i)
      RECURSIVE Upto(_)
      Upto(k) == IF k = 0 THEN {<<>>}
                 ELSE {Append(a, x) : a \in Upto(k - 1), x \in 0..(bound(k - 1) - 1)}
      outer == Upto(tiling.ubSplitAxis + 1)
  IN  IF IsLastTranspose
      THEN {Append(a, l) : a \in outer, l \in 0..(tiling.ubOuterLastAxis - 1)}
      ELSE outer

TC == INSTANCE TileCover WITH
        tiles <- IF launched THEN Tiles ELSE {},
        processed <- written

\* The kernel implements TileCover: the blocks the cores walk, from
\* blockFormer * blockIdx for blockFormer (or blockTail) tiles through the
\* index odometer, write every tile of the plan exactly once and nothing else,
\* and with every core running to the end every tile is written.
KernelCoversTiles == TC!Spec

\* Every core has left its loop.
KernelDone ==
  launched /\ \A c \in Cores : ubLoopIdx[c] = UbLoopNum(c) /\ lastAxisLoopIdx[c] = LastAxisLoops

\* When every core has finished, the tiles written hold exactly the
\* output's elements: the sizes each kernel picks per tile, the split
\* axis's ubTail on its last index and the last axis's ubTailLastAxis in the
\* last inner iteration, add up to the product of the output dims. A tail
\* chosen on the wrong iteration, or ubFormer used for every tile, leaves
\* the tile identities intact and breaks only this sum.
ElementsWritten ==
  KernelDone => elems = BS!AxesProduct(params.dims, 0, Len(params.dims) - 1)

\* The last-transpose CopyInBrc cache: whenever a Run reuses its pingPong
\* buffer instead of copying, the buffer holds the input that Run's tile
\* needs, copied in an earlier iteration of the same outer tile with the
\* same lastUBSplitSize. Its skip test spans the pingPong alternation, the
\* tail iteration and the restart of the inner loop on every outer tile.
BrcBufferCurrent ==
  launched => \A c \in Cores : brcRead[c].read = brcRead[c].need

\* The UB-broadcast kernel's two caches: after each Run, the broadcast
\* output it used holds the input data of that Run's tile with at least
\* the tile's rows (ubSplitSize, chosen by Process from axesIndices), and
\* the vector Brc's input is that of the tile. The reuse tests go by realIdx,
\* a value the kernel recomputes from blockIdx, blockFormer and ubLoopIdx,
\* and must agree with the walk for every core, also one whose block starts
\* in the middle of an outer position.
UbBrcBufferCurrent ==
  launched /\ IsUbBroadcast =>
    \A c \in Cores : ubLoopIdx[c] > 0 =>
      /\ ubBrcBuf[c].brc.key = InputKey(axesIndices[c], splitAxisBrc)
      /\ ubBrcBuf[c].brc.rows >= SplitSize(axesIndices[c])
      /\ ubBrcBuf[c].vec = InputKey(axesIndices[c], vecSplitAxisBrc)
=============================================================================
