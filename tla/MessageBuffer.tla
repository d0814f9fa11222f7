---------------------------- MODULE MessageBuffer ----------------------------
(***************************************************************************)
(* A MessageBuffer and the one thread that uses it: any sequence of calls  *)
(* the code makes of its methods.  readFromSocket and sendToSocket loop    *)
(* over partial reads and writes; everything else is one step.             *)
(*                                                                         *)
(* A caller that expands the buffer resets it before doing anything else   *)
(* with it, as processMessages does: expandIfRequired leaves rdPtr_ and    *)
(* wrtPtr_ where they were.                                                *)
(***************************************************************************)
EXTENDS MessageBufferOps

CONSTANTS
    InitialSize,    \* the constructor's argument
    Sizes,          \* the sizes given to the methods
    MaxOffered      \* bound: bytes offered to the buffer between two resets

ASSUME SizesAssumption ==
    InitialSize \in Nat /\ Sizes \subseteq Nat /\ MaxOffered \in Nat

VARIABLES
    buffer,     \* the object's members
    call,       \* the socket call that is under way
    result,     \* what the last socket call returned
    expanded,   \* expandIfRequired was called and reset was not, yet
    offered,    \* history: bytes the caller has tried to put in since the reset
    shortRead   \* history: a readFromSocket since the reset has failed

vars == <<buffer, call, result, expanded, offered, shortRead>>

NoCall == [op |-> "none", start |-> 0, asked |-> 0, done |-> 0]
Calls == [op : {"none", "read", "send"}, start : Nat, asked : Nat, done : Nat]

TypeOK ==
    /\ buffer \in Buffers
    /\ call \in Calls
    /\ result \in {"none", "true", "false"}
    /\ expanded \in BOOLEAN
    /\ shortRead \in BOOLEAN
    /\ offered \in Nat

Init ==
    /\ \E allocated \in BOOLEAN : buffer = NewBuffer(InitialSize, allocated)
    /\ call = NoCall
    /\ result = "none"
    /\ expanded = FALSE
    /\ offered = 0
    /\ shortRead = FALSE

\* No call is under way, and the pointers are valid.
Usable == call.op = "none" /\ ~expanded

ExpandBuffer(n) ==
    /\ call.op = "none"
    /\ \E outcome \in ReallocOutcomes : buffer' = ExpandIfRequired(buffer, n, outcome)
    /\ expanded' = TRUE
    /\ UNCHANGED <<call, result, offered, shortRead>>

ResetBuffer ==
    /\ call.op = "none"
    /\ buffer' = Reset(buffer)
    /\ expanded' = FALSE
    /\ offered' = 0
    /\ shortRead' = FALSE
    /\ UNCHANGED <<call, result>>

Offer(n) == offered + n <= MaxOffered /\ offered' = offered + n

WriteBuffer(n) ==
    /\ Usable
    /\ Offer(n)
    /\ buffer' = Write(buffer, n)
    /\ UNCHANGED <<call, result, expanded, shortRead>>

\* The caller has filled in n bytes at getWrtPtr itself.
AdvanceWrt(n) ==
    /\ Usable
    /\ Offer(n)
    /\ buffer' = MoveWrtPtr(buffer, n)
    /\ UNCHANGED <<call, result, expanded, shortRead>>

AdvanceRd(n) ==
    /\ Usable
    /\ buffer' = MoveRdPtr(buffer, n)
    /\ UNCHANGED <<call, result, expanded, offered, shortRead>>

-----------------------------------------------------------------------------
(* readFromSocket.                                                         *)

Read(n) ==
    /\ Usable
    /\ Offer(n)
    /\ IF n > WrtBufFree(buffer)
       THEN /\ buffer' = [buffer EXCEPT !.bad = TRUE]
            /\ result' = "false"
            /\ UNCHANGED call
       ELSE /\ call' = [op |-> "read", start |-> buffer.wrt, asked |-> n, done |-> 0]
            /\ result' = "none"
            /\ UNCHANGED buffer
    /\ UNCHANGED <<expanded, shortRead>>

\* Mutant: the first successful call of read is taken for the whole message.
ReadSomeOnce ==
    /\ call.op = "read"
    /\ \E n \in 1..(call.asked - call.done) :
        /\ buffer' = [buffer EXCEPT !.wrt = @ + n]
        /\ call' = NoCall
        /\ result' = "true"
    /\ UNCHANGED <<expanded, offered, shortRead>>

\* read has delivered n more bytes.  (EAGAIN and EINTR change nothing.)
ReadSome ==
    /\ call.op = "read"
    /\ \E n \in 1..(call.asked - call.done) :
        /\ buffer' = [buffer EXCEPT !.wrt = @ + n]
        /\ call' = [call EXCEPT !.done = @ + n]
    /\ UNCHANGED <<result, expanded, offered, shortRead>>

ReadReturns ==
    /\ call.op = "read"
    /\ call.done = call.asked
    /\ call' = NoCall
    /\ result' = "true"
    /\ UNCHANGED <<buffer, expanded, offered, shortRead>>

\* EOF or an error: what has been read stays in the buffer, and bad_ as it was.
ReadFails ==
    /\ call.op = "read"
    /\ call.done < call.asked
    /\ call' = NoCall
    /\ result' = "false"
    /\ shortRead' = TRUE
    /\ UNCHANGED <<buffer, expanded, offered>>

-----------------------------------------------------------------------------
(* sendToSocket: everything from buf_ to wrtPtr_.                          *)

SendBuffer ==
    /\ Usable
    /\ call' = [op |-> "send", start |-> 0, asked |-> buffer.wrt, done |-> 0]
    /\ result' = "none"
    /\ UNCHANGED <<buffer, expanded, offered, shortRead>>

\* Mutant: a partial write is started over.
SendSomeAgain ==
    /\ call.op = "send"
    /\ \E n \in 1..buffer.wrt : call' = [call EXCEPT !.done = @ + n]
    /\ call.done < call.asked
    /\ UNCHANGED <<buffer, result, expanded, offered, shortRead>>

SendSome ==
    /\ call.op = "send"
    /\ \E n \in 1..(call.asked - call.done) : call' = [call EXCEPT !.done = @ + n]
    /\ UNCHANGED <<buffer, result, expanded, offered, shortRead>>

SendReturns ==
    /\ call.op = "send"
    /\ call.done >= call.asked
    /\ call' = NoCall
    /\ result' = "true"
    /\ UNCHANGED <<buffer, expanded, offered, shortRead>>

SendFails ==
    /\ call.op = "send"
    /\ call.done < call.asked
    /\ call' = NoCall
    /\ result' = "false"
    /\ UNCHANGED <<buffer, expanded, offered, shortRead>>

-----------------------------------------------------------------------------
Next ==
    \/ \E n \in Sizes :
          \/ ExpandBuffer(n)
          \/ WriteBuffer(n)
          \/ AdvanceWrt(n)
          \/ AdvanceRd(n)
          \/ Read(n)
    \/ ResetBuffer
    \/ ReadSome
    \/ ReadReturns
    \/ ReadFails
    \/ SendBuffer
    \/ SendSome
    \/ SendReturns
    \/ SendFails

Spec == Init /\ [][Next]_vars

-----------------------------------------------------------------------------
(* Safety.                                                                 *)

\* The pointers stay in the memory and in order, through failed allocations and
\* failed and partial calls, for a caller that resets what it has expanded.
Bounds ==
    /\ buffer.null => buffer.size = 0
    /\ ~expanded => /\ ~buffer.dangling
                    /\ buffer.rd <= buffer.wrt
                    /\ buffer.wrt <= buffer.size

\* A caller that looks at bad() once, after all its writes, as sendMsg does, knows
\* that none of them was dropped.
GoodMeansComplete ==
    (~buffer.bad /\ ~expanded /\ ~shortRead /\ call.op # "read") =>
        buffer.wrt = offered

\* A call under way, in terms of the bytes it has moved so far.
CallInv ==
    /\ call.op # "none" => ~expanded
    /\ call.op = "read" =>
           /\ call.done <= call.asked
           /\ buffer.wrt = call.start + call.done
           /\ call.start + call.asked <= buffer.size
           /\ ~buffer.bad /\ ~shortRead => offered = call.start + call.asked
    /\ call.op = "send" => call.asked = buffer.wrt /\ call.done <= call.asked

\* The invariant the proofs of these properties rest on.
IInv == TypeOK /\ Bounds /\ GoodMeansComplete /\ CallInv

\* readFromSocket says true just when all the bytes asked for have been appended.
ReadIsExact ==
    [][call.op = "read" /\ call'.op = "none" =>
          (result' = "true" <=> buffer'.wrt = call.start + call.asked)]_vars

\* sendToSocket says true just when every byte was written, and never writes more.
SendIsExact ==
    [][/\ call.op = "send" /\ call'.op = "none" =>
             (result' = "true" <=> call.done = buffer.wrt)
       /\ call'.op = "send" => call'.done <= buffer'.wrt]_vars
=============================================================================
