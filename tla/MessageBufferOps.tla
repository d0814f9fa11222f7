-------------------------- MODULE MessageBufferOps --------------------------
(***************************************************************************)
(* The operations of MessageBuffer on its members: how much memory buf_    *)
(* has, where rdPtr_ and wrtPtr_ are in it, and bad_.  The bytes           *)
(* themselves are left to the modules that use a buffer.                   *)
(*                                                                         *)
(* dangling: realloc has moved or lost the memory and rdPtr_ and wrtPtr_   *)
(* still point into the old block.                                         *)
(***************************************************************************)
EXTENDS Naturals

Buffers == [null : BOOLEAN, size : Nat, rd : Nat, wrt : Nat,
            dangling : BOOLEAN, bad : BOOLEAN]

\* The constructor, when malloc gives the memory and when it does not.
NewBuffer(size, allocated) ==
    [null |-> ~allocated, size |-> IF allocated THEN size ELSE 0,
     rd |-> 0, wrt |-> 0, dangling |-> FALSE, bad |-> ~allocated]

WrtBufFree(b) == b.size - b.wrt
LeftToRead(b) == b.wrt - b.rd

\* What realloc may do: grow the block in place, move it, or fail.
ReallocOutcomes == {"grown", "moved", "failed"}

\* expandIfRequired: neither pointer is adjusted.
ExpandIfRequired(b, size, outcome) ==
    IF size <= b.size THEN b
    ELSE [b EXCEPT !.null = (outcome = "failed"),
                   !.size = IF outcome = "failed" THEN 0 ELSE size,
                   !.bad = (outcome = "failed"),
                   !.dangling = @ \/ outcome # "grown"]

Reset(b) == [b EXCEPT !.rd = 0, !.wrt = 0, !.dangling = FALSE, !.bad = FALSE]

\* Mutant: a write that fits clears bad_.
WriteClearsBad(b, size) ==
    IF size <= WrtBufFree(b) THEN [b EXCEPT !.wrt = @ + size, !.bad = FALSE]
                             ELSE [b EXCEPT !.bad = TRUE]

\* write, and the part of readFromSocket that a call of read has delivered.
Write(b, size) ==
    IF size <= WrtBufFree(b) THEN [b EXCEPT !.wrt = @ + size]
                             ELSE [b EXCEPT !.bad = TRUE]

\* Mutant: rdPtr_ is taken back without having been moved.
MoveRdPtrTakenBack(b, bytes) ==
    IF b.rd + bytes > b.wrt THEN [b EXCEPT !.rd = @ - bytes, !.bad = TRUE]
                            ELSE [b EXCEPT !.rd = @ + bytes]

\* Mutant: rdPtr_ is not taken back.
MoveRdPtrNotTakenBack(b, bytes) ==
    [b EXCEPT !.rd = @ + bytes, !.bad = @ \/ b.rd + bytes > b.wrt]

MoveRdPtr(b, bytes) ==
    IF b.rd + bytes > b.wrt THEN [b EXCEPT !.bad = TRUE]
                            ELSE [b EXCEPT !.rd = @ + bytes]

MoveWrtPtr(b, bytes) ==
    IF b.wrt + bytes > b.size THEN [b EXCEPT !.bad = TRUE]
                              ELSE [b EXCEPT !.wrt = @ + bytes]
=============================================================================
