--------------------------- MODULE TilingBufferSpec ---------------------------
(***************************************************************************)
(* What ExtendedTilingBuffer (op_ctx_def.h) promises its user: a byte      *)
(* array with a cursor. Init starts an empty buffer with the cursor at 0;  *)
(* Append writes len copies of its byte at the cursor and moves the cursor *)
(* past them; Seek moves the cursor to a position that is not negative.    *)
(* A byte is kept until it is overwritten. A call that fails changes       *)
(* nothing, so it is a stuttering step here.                               *)
(*                                                                         *)
(* content is a function from the positions written so far to the byte    *)
(* last written there; growing the block is invisible at this level.       *)
(***************************************************************************)
EXTENDS Naturals, TLC

CONSTANT Bytes   \* the values one Append call writes

VARIABLES content, pos

vars == <<content, pos>>

NoContent == [i \in {} |-> CHOOSE b \in Bytes : TRUE]

Init == content = NoContent /\ pos = 0

\* Init of a buffer already in use: everything written before is gone.
Reset == content' = NoContent /\ pos' = 0

\* Append: the bytes pos .. pos'-1 now hold one value, the others are kept.
Write ==
    /\ pos' \in Nat
    /\ pos' >= pos
    /\ \E d \in Bytes : content' = [i \in pos..(pos' - 1) |-> d] @@ content

\* Seek: the cursor moves to a non-negative position, nothing is written.
SetPos == pos' \in Nat /\ UNCHANGED content

Next == Reset \/ Write \/ SetPos

Spec == Init /\ [][Next]_vars
================================================================================
