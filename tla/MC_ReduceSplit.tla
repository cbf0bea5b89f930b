---------------------------- MODULE MC_ReduceSplit ----------------------------
(* Instances of ReduceSplit for TLC.                                       *)
EXTENDS ReduceSplit

\* CACHE_BUF_SIZE: the 16K reduce cache between UB passes.
MCCacheBufSize == 16 * 1024

\* Axis lengths below, near and above a 256-byte cache line of floats.
MCDimVals == {3, 16, 100}

\* Lengths below and above the cache line, and 0: an empty axis sends the
\* planner to ComputeEmptyTiling.
MCDimValsEmpty == {0, 3, 100}

\* View strides: contiguous (1) or a gap (500) on an axis.
MCStrideVals == {1, 500}

\* No view strides: every input is a contiguous row-major tensor.
MCNoViewStrides == {}

\* A UB with 0, 4K or 16K above the reduce cache: with 0 CalcBasicBlock
\* fails; 4K and 16K are small enough that the shapes above fill the
\* basic block. 256-byte cache line, 32-byte UB block, 256-byte vector
\* register; 8 or 40 cores.
MCHardware ==
    {[ubSize |-> MCCacheBufSize + u, coreNum |-> c, cacheLineSize |-> 256,
      ubBlockSize |-> 32, vRegSize |-> 256] : u \in {0, 4096, 16384}, c \in {8, 40}}

\* An 18K UB above the reduce cache, on 8 cores: only a UB with more than
\* the 16K result block clamp above the cache lets CalcBasicBlock pass when
\* the reduced size is 0, so the plan of ComputeEmptyTiling needs it.
MCHardwareLarge ==
    {[ubSize |-> MCCacheBufSize + 18432, coreNum |-> 8, cacheLineSize |-> 256,
      ubBlockSize |-> 32, vRegSize |-> 256]}

\* Platforms whose query returned 0 cores or a 0 cache line.
MCHardwareZero ==
    {[ubSize |-> MCCacheBufSize + 4096, coreNum |-> 0, cacheLineSize |-> 256,
      ubBlockSize |-> 32, vRegSize |-> 256],
     [ubSize |-> MCCacheBufSize + 4096, coreNum |-> 8, cacheLineSize |-> 0,
      ubBlockSize |-> 32, vRegSize |-> 256]}

MCHardwareEmpty == MCHardware \cup MCHardwareLarge \cup MCHardwareZero

\* ReduceSum of one float or half input: one input before the reduce, the
\* reduce output after it.
MCDags ==
    {[dSize |-> d, maxInputBytes |-> d, memLevel2 |-> FALSE, preInput |-> 1,
      preTempCalc |-> 0, preOutput |-> 0, postInput |-> 0, postTempCalc |-> 0,
      postOutput |-> 0, reduceOpPos |-> 1, reservedNode |-> 0, reservedSize |-> 0]
     : d \in {2, 4}}
================================================================================
