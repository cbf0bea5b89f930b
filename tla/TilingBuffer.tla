------------------------------ MODULE TilingBuffer ------------------------------
(***************************************************************************)
(* ExtendedTilingBuffer of op_ctx_def.h: a malloc'ed block addr_ of size_  *)
(* bytes with a write cursor offset_. Append and Seek grow the block with  *)
(* Enlarge, which doubles size_ until it reaches the requested size.       *)
(*                                                                         *)
(* One object is used by one thread, so calls run one at a time. A call is *)
(* a Call step of the user followed by the handler's steps; Enlarge's      *)
(* doubling loop is one Grow step per iteration, so a loop that never ends *)
(* is a behaviour that never returns to "idle".                            *)
(*                                                                         *)
(* size_t is W bits wide (arithmetic modulo 2^W) and off_t is its signed   *)
(* counterpart; the conversions between them wrap as the build does. A     *)
(* block is a function from 0..size_-1 to Bytes \cup {Undef}, Undef being  *)
(* the indeterminate bytes malloc returns; addr_ = Null before Init.       *)
(* malloc may fail in Enlarge (EnlargeMayFail); Init's malloc is taken to  *)
(* succeed, and malloc(0) to return a block, as glibc does.                *)
(***************************************************************************)
EXTENDS Integers

CONSTANTS
    W,            \* bits of size_t and off_t
    Bytes,        \* the values one Append call writes
    Undef,        \* an indeterminate byte of a fresh block
    Null,         \* the null pointer
    InitSizes,    \* sizes passed to Init
    AppendLens,   \* lengths passed to Append
    SeekLens,     \* offsets passed to Seek
    MaxCalls,     \* calls one behaviour makes
    EnlargeMayFail \* TRUE: Enlarge's malloc may return nullptr

ASSUME W \in Nat \ {0} /\ MaxCalls \in Nat /\ EnlargeMayFail \in BOOLEAN
ASSUME Undef \notin Bytes

VARIABLES
    addr_, offset_, size_,  \* the members of ExtendedTilingBuffer
    pc,        \* "idle", "append", "seek", "grow", "copy" or "commit"
    op,        \* the call in progress: "append" or "seek"
    len, data, dir,         \* its arguments
    newOffset, \* Seek's newOffset
    target,    \* Enlarge's parameter size
    newSize,   \* Enlarge's newSize
    calls      \* calls made so far

vars == <<addr_, offset_, size_, pc, op, len, data, dir, newOffset,
          target, newSize, calls>>

Mod == 2 ^ W
ToSizeT(x) == x % Mod
ToOffT(x) == IF ToSizeT(x) >= Mod \div 2 THEN ToSizeT(x) - Mod ELSE ToSizeT(x)

\* malloc(n): n indeterminate bytes.
Block(n) == [i \in 0..(n - 1) |-> Undef]

Init ==
    /\ addr_ = Null /\ offset_ = 0 /\ size_ = 0
    /\ pc = "idle" /\ op = "append" /\ len = 0 /\ data = Undef /\ dir = "cur"
    /\ newOffset = 0 /\ target = 0 /\ newSize = 0 /\ calls = 0

\* Init(size): a fresh block, the cursor at its start.
InitBuf ==
    /\ pc = "idle" /\ calls < MaxCalls
    /\ \E size \in InitSizes :
         addr_' = Block(size) /\ offset_' = 0 /\ size_' = size
    /\ calls' = calls + 1
    /\ UNCHANGED <<pc, op, len, data, dir, newOffset, target, newSize>>

CallAppend ==
    /\ pc = "idle" /\ calls < MaxCalls
    /\ \E l \in AppendLens, d \in Bytes : len' = l /\ data' = d
    /\ pc' = "append" /\ op' = "append" /\ calls' = calls + 1
    /\ UNCHANGED <<addr_, offset_, size_, dir, newOffset, target, newSize>>

CallSeek ==
    /\ pc = "idle" /\ calls < MaxCalls
    /\ \E l \in SeekLens, d \in {"beg", "cur", "end"} : len' = l /\ dir' = d
    /\ pc' = "seek" /\ op' = "seek" /\ calls' = calls + 1
    /\ UNCHANGED <<addr_, offset_, size_, data, newOffset, target, newSize>>

\* Fault model: Enlarge without its size_ != 0 check.
EnlargeAnySize(size) == pc' = "grow" /\ target' = size /\ newSize' = size_

\* Enlarge(size), up to its loop: a zero-sized buffer cannot grow.
Enlarge(size) ==
    IF size_ = 0 THEN pc' = "idle" /\ UNCHANGED <<target, newSize>>
    ELSE pc' = "grow" /\ target' = size /\ newSize' = size_

\* Append: grow when the bytes do not fit (offset_ + len in size_t).
Append ==
    /\ pc = "append"
    /\ IF ToSizeT(offset_ + len) > size_
       THEN Enlarge(ToSizeT(offset_ + len))
       ELSE pc' = "copy" /\ UNCHANGED <<target, newSize>>
    /\ UNCHANGED <<addr_, offset_, size_, op, len, data, dir, newOffset, calls>>

\* Seek's newOffset; size_ + len is size_t arithmetic stored in an off_t.
SeekOffset(d, l) ==
    CASE d = "beg" -> l
      [] d = "cur" -> offset_ + l
      [] d = "end" -> ToOffT(size_ + l)

\* Fault model: Seek moves the cursor without growing the block.
SeekNoGrow ==
    /\ pc = "seek"
    /\ newOffset' = SeekOffset(dir, len) /\ pc' = "commit"
    /\ UNCHANGED <<addr_, offset_, size_, op, len, data, dir, calls, target, newSize>>

\* Seek: the block grows when newOffset, read as a size_t, lies past its end.
Seek ==
    /\ pc = "seek"
    /\ newOffset' = SeekOffset(dir, len)
    /\ IF ToSizeT(newOffset') > size_
       THEN Enlarge(ToSizeT(newOffset'))
       ELSE pc' = "commit" /\ UNCHANGED <<target, newSize>>
    /\ UNCHANGED <<addr_, offset_, size_, op, len, data, dir, calls>>

\* while (newSize < size) newSize *= DOUBLE;
Grow ==
    /\ pc = "grow" /\ newSize < target
    /\ newSize' = ToSizeT(newSize * 2)
    /\ UNCHANGED <<addr_, offset_, size_, pc, op, len, data, dir, newOffset,
                   target, calls>>

\* Fault model: only the bytes before the cursor are copied.
ReallocUsedPart ==
    /\ pc = "grow" /\ newSize >= target
    /\ addr_' = [i \in 0..(newSize - 1) |-> IF i < offset_ THEN addr_[i] ELSE Undef]
    /\ size_' = newSize
    /\ pc' = IF op = "append" THEN "copy" ELSE "commit"
    /\ UNCHANGED <<offset_, op, len, data, dir, newOffset, target, newSize, calls>>

\* Fault model: size_ records the requested size, not the allocated one.
ReallocRequested ==
    /\ pc = "grow" /\ newSize >= target
    /\ addr_' = [i \in 0..(newSize - 1) |-> IF i < size_ THEN addr_[i] ELSE Undef]
    /\ size_' = target
    /\ pc' = IF op = "append" THEN "copy" ELSE "commit"
    /\ UNCHANGED <<offset_, op, len, data, dir, newOffset, target, newSize, calls>>

\* The rest of Enlarge: a new block holding the size_ old bytes replaces the
\* old one; the caller then goes on.
Realloc ==
    /\ pc = "grow" /\ newSize >= target
    /\ addr_' = [i \in 0..(newSize - 1) |-> IF i < size_ THEN addr_[i] ELSE Undef]
    /\ size_' = newSize
    /\ pc' = IF op = "append" THEN "copy" ELSE "commit"
    /\ UNCHANGED <<offset_, op, len, data, dir, newOffset, target, newSize, calls>>

\* memcpy_s(addr_ + offset_, size_ - offset_, data, len) then offset_ += len;
\* memcpy_s refuses a null destination and a zero destMax.
Copy ==
    /\ pc = "copy"
    /\ IF addr_ = Null \/ size_ - offset_ = 0
       THEN UNCHANGED <<addr_, offset_>>
       ELSE /\ addr_' = [i \in DOMAIN addr_ |->
                           IF i >= offset_ /\ i < offset_ + len THEN data ELSE addr_[i]]
            /\ offset_' = offset_ + len
    /\ pc' = "idle"
    /\ UNCHANGED <<size_, op, len, data, dir, newOffset, target, newSize, calls>>

\* offset_ = newOffset
Commit ==
    /\ pc = "commit"
    /\ offset_' = newOffset /\ pc' = "idle"
    /\ UNCHANGED <<addr_, size_, op, len, data, dir, newOffset, target, newSize, calls>>

\* Enlarge's malloc returns nullptr: the call fails and nothing changes.
ReallocFails ==
    /\ EnlargeMayFail
    /\ pc = "grow" /\ newSize >= target
    /\ pc' = "idle"
    /\ UNCHANGED <<addr_, offset_, size_, op, len, data, dir, newOffset, target, newSize, calls>>

\* The steps of a call in progress, which its thread runs to the end.
Handler == Append \/ Seek \/ Grow \/ Realloc \/ ReallocFails \/ Copy \/ Commit

Next == InitBuf \/ CallAppend \/ CallSeek \/ Handler

Spec == Init /\ [][Next]_vars /\ WF_vars(Handler)

-----------------------------------------------------------------------------
\* The bytes written so far, as the user of the buffer sees them.
Written == {i \in 0..(size_ - 1) : addr_[i] # Undef}
Content == [i \in Written |-> addr_[i]]

Abstract == INSTANCE TilingBufferSpec WITH content <- Content, pos <- offset_

TypeOK ==
    /\ size_ \in 0..(Mod - 1) /\ offset_ \in (-(Mod \div 2))..(Mod \div 2 - 1)
    /\ addr_ = Null \/ addr_ \in [0..(size_ - 1) -> Bytes \cup {Undef}]
    /\ pc \in {"idle", "append", "seek", "grow", "copy", "commit"}
    /\ newSize \in 0..(Mod - 1) /\ target \in 0..(Mod - 1)

\* Data() is addr_ + offset_, where the tiling function writes next: the
\* cursor never leaves the block, whatever Append and Seek were asked.
CursorInBlock == pc = "idle" => 0 <= offset_ /\ offset_ <= size_

\* Every sequence of Init, Append and Seek calls behaves as the byte array of
\* TilingBufferSpec: Enlarge keeps every byte written before, Append writes
\* at the cursor and a failed call changes nothing.
Refines == Abstract!Spec

\* Every Append call returns: Enlarge's doubling loop ends.
AppendReturns == pc = "append" ~> pc = "idle"
================================================================================
