----------------------- MODULE MessageBufferOpsProofs -----------------------
(***************************************************************************)
(* Lemmas about the operations of MessageBuffer, for every buffer, size    *)
(* and outcome: what each does to the pointers, the memory and bad_.       *)
(***************************************************************************)
EXTENDS MessageBufferOps, TLAPS

\* The operations never change what memory the buffer has.
SameMemory(b, c) ==
    c.null = b.null /\ c.size = b.size /\ c.dangling = b.dangling

LEMMA SetBad ==
    ASSUME NEW b \in Buffers, NEW c, c = [b EXCEPT !.bad = TRUE]
    PROVE  /\ c \in Buffers /\ SameMemory(b, c)
           /\ c.rd = b.rd /\ c.wrt = b.wrt /\ c.bad = TRUE
BY DEF Buffers, SameMemory

LEMMA Appended ==
    ASSUME NEW b \in Buffers, NEW n \in Nat, NEW c, c = [b EXCEPT !.wrt = @ + n]
    PROVE  /\ c \in Buffers /\ SameMemory(b, c)
           /\ c.rd = b.rd /\ c.wrt = b.wrt + n /\ c.bad = b.bad
BY DEF Buffers, SameMemory

LEMMA Consumed ==
    ASSUME NEW b \in Buffers, NEW n \in Nat, NEW c, c = [b EXCEPT !.rd = @ + n]
    PROVE  /\ c \in Buffers /\ SameMemory(b, c)
           /\ c.rd = b.rd + n /\ c.wrt = b.wrt /\ c.bad = b.bad
BY DEF Buffers, SameMemory

\* write and moveWrtPtr either append all n bytes or set bad_ and append none.
AppendsOrBad(b, c, n) ==
    /\ c \in Buffers
    /\ SameMemory(b, c)
    /\ c.rd = b.rd
    /\ \/ b.wrt + n <= b.size /\ c.wrt = b.wrt + n /\ c.bad = b.bad
       \/ c.wrt = b.wrt /\ c.bad = TRUE

LEMMA WriteAppends ==
    ASSUME NEW b \in Buffers, NEW n \in Nat
    PROVE  AppendsOrBad(b, Write(b, n), n)
<1>1. CASE b.wrt + n <= b.size
  <2>1. Write(b, n) = [b EXCEPT !.wrt = @ + n]
    BY <1>1 DEF Write, WrtBufFree, Buffers
  <2> QED BY <1>1, <2>1, Appended DEF AppendsOrBad
<1>2. CASE ~(b.wrt + n <= b.size)
  <2>1. Write(b, n) = [b EXCEPT !.bad = TRUE]
    BY <1>2 DEF Write, WrtBufFree, Buffers
  <2> QED BY <2>1, SetBad DEF AppendsOrBad
<1> QED BY <1>1, <1>2

LEMMA MoveWrtPtrAppends ==
    ASSUME NEW b \in Buffers, NEW n \in Nat
    PROVE  AppendsOrBad(b, MoveWrtPtr(b, n), n)
<1>1. CASE b.wrt + n <= b.size
  <2>1. MoveWrtPtr(b, n) = [b EXCEPT !.wrt = @ + n]
    BY <1>1 DEF MoveWrtPtr, Buffers
  <2> QED BY <1>1, <2>1, Appended DEF AppendsOrBad
<1>2. CASE ~(b.wrt + n <= b.size)
  <2>1. MoveWrtPtr(b, n) = [b EXCEPT !.bad = TRUE]
    BY <1>2 DEF MoveWrtPtr, Buffers
  <2> QED BY <2>1, SetBad DEF AppendsOrBad
<1> QED BY <1>1, <1>2

\* moveRdPtr never passes wrtPtr_.
LEMMA MoveRdPtrConsumes ==
    ASSUME NEW b \in Buffers, NEW n \in Nat, b.rd <= b.wrt
    PROVE  LET c == MoveRdPtr(b, n)
           IN  /\ c \in Buffers /\ SameMemory(b, c)
               /\ c.rd <= c.wrt /\ c.wrt = b.wrt
               /\ c.bad = b.bad \/ c.bad = TRUE
               /\ ~c.bad => b.rd + n <= b.wrt /\ c.rd = b.rd + n
<1>1. CASE b.rd + n <= b.wrt
  <2>1. MoveRdPtr(b, n) = [b EXCEPT !.rd = @ + n]
    BY <1>1 DEF MoveRdPtr, Buffers
  <2> QED BY <1>1, <2>1, Consumed
<1>2. CASE ~(b.rd + n <= b.wrt)
  <2>1. MoveRdPtr(b, n) = [b EXCEPT !.bad = TRUE]
    BY <1>2 DEF MoveRdPtr, Buffers
  <2> QED BY <2>1, SetBad
<1> QED BY <1>1, <1>2

\* What is written into a buffer that has room for it.
LEMMA WriteFits ==
    ASSUME NEW b \in Buffers, NEW n \in Nat, n <= WrtBufFree(b)
    PROVE  LET c == Write(b, n)
           IN  /\ c \in Buffers /\ SameMemory(b, c)
               /\ c.rd = b.rd /\ c.wrt = b.wrt + n /\ c.bad = b.bad
<1>1. Write(b, n) = [b EXCEPT !.wrt = @ + n]
  BY DEF Write
<1> QED BY <1>1, Appended

LEMMA ExpandKeepsTypes ==
    ASSUME NEW b \in Buffers, b.null => b.size = 0, NEW n \in Nat, NEW o \in ReallocOutcomes
    PROVE  /\ ExpandIfRequired(b, n, o) \in Buffers
           /\ ExpandIfRequired(b, n, o).null => ExpandIfRequired(b, n, o).size = 0
           /\ ExpandIfRequired(b, n, o).size =
                 IF n <= b.size THEN b.size ELSE IF o = "failed" THEN 0 ELSE n
<1>1. CASE n <= b.size
  BY <1>1 DEF ExpandIfRequired
<1>2. CASE ~(n <= b.size) /\ o = "failed"
  BY <1>2 DEF ExpandIfRequired, Buffers
<1>3. CASE ~(n <= b.size) /\ o # "failed"
  BY <1>3 DEF ExpandIfRequired, Buffers
<1> QED BY <1>1, <1>2, <1>3

LEMMA ResetClears ==
    ASSUME NEW b \in Buffers
    PROVE  LET c == Reset(b)
           IN  /\ c \in Buffers /\ c.null = b.null /\ c.size = b.size
               /\ c.rd = 0 /\ c.wrt = 0 /\ c.dangling = FALSE /\ c.bad = FALSE
BY DEF Reset, Buffers
=============================================================================
