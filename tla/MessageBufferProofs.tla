------------------------- MODULE MessageBufferProofs -------------------------
(***************************************************************************)
(* Proofs about MessageBuffer, for every initial size, every set of sizes  *)
(* and every bound on what is offered.                                     *)
(***************************************************************************)
EXTENDS MessageBuffer, MessageBufferOpsProofs, TLAPS

-----------------------------------------------------------------------------
LEMMA InitIInv == Init => IInv
<1> SUFFICES ASSUME Init PROVE IInv
  OBVIOUS
<1>1. PICK allocated \in BOOLEAN : buffer = NewBuffer(InitialSize, allocated)
  BY DEF Init
<1>2. /\ buffer \in Buffers /\ buffer.rd = 0 /\ buffer.wrt = 0
      /\ buffer.dangling = FALSE /\ (buffer.null => buffer.size = 0)
  BY <1>1, SizesAssumption DEF NewBuffer, Buffers
<1>3. call \in Calls /\ call.op = "none"
  BY DEF Init, Calls, NoCall
<1>4. TypeOK
  BY <1>2, <1>3 DEF Init, TypeOK
<1>5. Bounds
  BY <1>2 DEF Bounds, Buffers
<1>6. GoodMeansComplete /\ CallInv
  BY <1>2, <1>3 DEF Init, GoodMeansComplete, CallInv
<1> QED BY <1>4, <1>5, <1>6 DEF IInv

\* An append, whether of write or of moveWrtPtr.
LEMMA AppendStep ==
    ASSUME IInv, NEW n \in Sizes, WriteBuffer(n) \/ AdvanceWrt(n)
    PROVE  IInv'
<1>1. n \in Nat /\ buffer \in Buffers
  BY SizesAssumption DEF IInv, TypeOK
<1>2. AppendsOrBad(buffer, buffer', n)
  BY <1>1, WriteAppends, MoveWrtPtrAppends DEF WriteBuffer, AdvanceWrt
<1>3. /\ call' = call /\ result' = result /\ expanded' = expanded
      /\ shortRead' = shortRead /\ offered' = offered + n
      /\ call.op = "none" /\ ~expanded
  BY DEF WriteBuffer, AdvanceWrt, Usable, Offer
<1>4. TypeOK'
  BY <1>1, <1>2, <1>3 DEF IInv, TypeOK, AppendsOrBad
<1>5. Bounds'
  BY <1>1, <1>2, <1>3 DEF IInv, Bounds, AppendsOrBad, SameMemory, Buffers
<1>6. GoodMeansComplete'
  BY <1>1, <1>2, <1>3 DEF IInv, TypeOK, GoodMeansComplete, AppendsOrBad, Buffers
<1>7. CallInv'
  BY <1>3 DEF CallInv
<1> QED BY <1>4, <1>5, <1>6, <1>7 DEF IInv

LEMMA AdvanceRdStep ==
    ASSUME IInv, NEW n \in Sizes, AdvanceRd(n)
    PROVE  IInv'
<1>1. /\ n \in Nat /\ buffer \in Buffers /\ call.op = "none" /\ ~expanded
      /\ UNCHANGED <<call, result, expanded, offered, shortRead>>
  BY SizesAssumption DEF IInv, TypeOK, AdvanceRd, Usable
<1>2. /\ buffer' \in Buffers /\ SameMemory(buffer, buffer')
      /\ buffer'.rd <= buffer'.wrt /\ buffer'.wrt = buffer.wrt
      /\ buffer'.bad = buffer.bad \/ buffer'.bad = TRUE
  BY <1>1, MoveRdPtrConsumes DEF IInv, Bounds, AdvanceRd
<1>3. TypeOK'
  BY <1>1, <1>2 DEF IInv, TypeOK
<1>4. Bounds'
  BY <1>1, <1>2 DEF IInv, Bounds, SameMemory
<1>5. GoodMeansComplete' /\ CallInv'
  BY <1>1, <1>2 DEF IInv, GoodMeansComplete, CallInv
<1> QED BY <1>3, <1>4, <1>5 DEF IInv

LEMMA ExpandStep ==
    ASSUME IInv, NEW n \in Sizes, ExpandBuffer(n)
    PROVE  IInv'
<1>1. /\ n \in Nat /\ buffer \in Buffers /\ (buffer.null => buffer.size = 0)
      /\ call.op = "none" /\ expanded' = TRUE
      /\ UNCHANGED <<call, result, offered, shortRead>>
  BY SizesAssumption DEF IInv, TypeOK, Bounds, ExpandBuffer
<1>2. buffer' \in Buffers /\ (buffer'.null => buffer'.size = 0)
  <2>1. PICK outcome \in ReallocOutcomes : buffer' = ExpandIfRequired(buffer, n, outcome)
    BY DEF ExpandBuffer
  <2> QED BY <1>1, <2>1, ExpandKeepsTypes
<1> QED BY <1>1, <1>2 DEF IInv, TypeOK, Bounds, GoodMeansComplete, CallInv

LEMMA ResetStep == IInv /\ ResetBuffer => IInv'
<1> SUFFICES ASSUME IInv, ResetBuffer PROVE IInv'
  OBVIOUS
<1>1. /\ buffer \in Buffers /\ call.op = "none" /\ expanded' = FALSE
      /\ offered' = 0 /\ shortRead' = FALSE /\ UNCHANGED <<call, result>>
  BY DEF IInv, TypeOK, ResetBuffer
<1>2. /\ buffer' \in Buffers /\ buffer'.null = buffer.null /\ buffer'.size = buffer.size
      /\ buffer'.rd = 0 /\ buffer'.wrt = 0 /\ buffer'.dangling = FALSE
  BY <1>1, ResetClears DEF ResetBuffer
<1>3. TypeOK'
  BY <1>1, <1>2 DEF IInv, TypeOK
<1>4. Bounds'
  BY <1>1, <1>2 DEF IInv, Bounds, Buffers
<1>5. GoodMeansComplete' /\ CallInv'
  BY <1>1, <1>2 DEF GoodMeansComplete, CallInv
<1> QED BY <1>3, <1>4, <1>5 DEF IInv

\* readFromSocket, from the call to its return.
LEMMA ReadCallStep ==
    ASSUME IInv, NEW n \in Sizes, Read(n)
    PROVE  IInv'
<1>1. /\ n \in Nat /\ buffer \in Buffers /\ call.op = "none" /\ ~expanded
      /\ offered' = offered + n /\ UNCHANGED <<expanded, shortRead>>
  BY SizesAssumption DEF IInv, TypeOK, Read, Usable, Offer
<1>2. CASE n > WrtBufFree(buffer)
  <2>1. /\ buffer' = [buffer EXCEPT !.bad = TRUE] /\ result' = "false" /\ UNCHANGED call
    BY <1>2 DEF Read
  <2>2. /\ buffer' \in Buffers /\ SameMemory(buffer, buffer')
        /\ buffer'.rd = buffer.rd /\ buffer'.wrt = buffer.wrt /\ buffer'.bad = TRUE
    BY <1>1, <2>1, SetBad
  <2> QED BY <1>1, <2>1, <2>2
          DEF IInv, TypeOK, Bounds, GoodMeansComplete, CallInv, SameMemory
<1>3. CASE ~(n > WrtBufFree(buffer))
  <2>1. /\ call' = [op |-> "read", start |-> buffer.wrt, asked |-> n, done |-> 0]
        /\ result' = "none" /\ UNCHANGED buffer
    BY <1>3 DEF Read
  <2>2. buffer.wrt + n <= buffer.size
    BY <1>1, <1>3 DEF WrtBufFree, Buffers
  <2>3. TypeOK'
    BY <1>1, <2>1 DEF IInv, TypeOK, Calls, Buffers
  <2>4. CallInv'
    <3>1. ~buffer.bad /\ ~shortRead => buffer.wrt = offered
      BY <1>1 DEF IInv, GoodMeansComplete
    <3> QED BY <1>1, <2>1, <2>2, <3>1 DEF IInv, TypeOK, CallInv, Buffers
  <2>5. Bounds' /\ GoodMeansComplete'
    BY <1>1, <2>1 DEF IInv, Bounds, GoodMeansComplete
  <2> QED BY <2>3, <2>4, <2>5 DEF IInv
<1> QED BY <1>2, <1>3

LEMMA ReadStep ==
    ASSUME IInv, ReadSome \/ ReadReturns \/ ReadFails
    PROVE  IInv'
<1> USE DEF IInv, TypeOK, Bounds, GoodMeansComplete, CallInv, Calls, NoCall, Buffers
<1>1. CASE ReadSome
  BY <1>1 DEF ReadSome
<1>2. CASE ReadReturns
  BY <1>2 DEF ReadReturns
<1>3. CASE ReadFails
  BY <1>3 DEF ReadFails
<1> QED BY <1>1, <1>2, <1>3

\* sendToSocket, from the call to its return.
LEMMA SendStep ==
    ASSUME IInv, SendBuffer \/ SendSome \/ SendReturns \/ SendFails
    PROVE  IInv'
<1> USE DEF IInv, TypeOK, Bounds, GoodMeansComplete, CallInv, Calls, NoCall, Buffers
<1>1. CASE SendBuffer
  BY <1>1 DEF SendBuffer, Usable
<1>2. CASE SendSome
  BY <1>2 DEF SendSome
<1>3. CASE SendReturns
  BY <1>3 DEF SendReturns
<1>4. CASE SendFails
  BY <1>4 DEF SendFails
<1> QED BY <1>1, <1>2, <1>3, <1>4

LEMMA NextIInv == IInv /\ [Next]_vars => IInv'
<1> SUFFICES ASSUME IInv, [Next]_vars PROVE IInv'
  OBVIOUS
<1>1. CASE UNCHANGED vars
  BY <1>1 DEF vars, IInv, TypeOK, Bounds, GoodMeansComplete, CallInv
<1>2. CASE Next
  BY <1>2, AppendStep, AdvanceRdStep, ExpandStep, ResetStep, ReadCallStep, ReadStep, SendStep
     DEF Next
<1> QED BY <1>1, <1>2

\* The invariant holds whatever is done with a buffer.
THEOREM BufferInvariance == Spec => []IInv
<1> QED BY InitIInv, NextIInv, PTL DEF Spec

\* The members and the history keep their types.
THEOREM BufferTypeCorrect == Spec => []TypeOK
<1>1. IInv => TypeOK
  BY DEF IInv
<1> QED BY <1>1, BufferInvariance, PTL

\* The pointers of a buffer stay in its memory and in order, whatever realloc and
\* the socket do and whatever sizes the methods are given.
THEOREM PointersInBounds == Spec => []Bounds
<1>1. IInv => Bounds
  BY DEF IInv
<1> QED BY <1>1, BufferInvariance, PTL

\* bad() tells of every write that was dropped.
THEOREM BadIsSticky == Spec => []GoodMeansComplete
<1>1. IInv => GoodMeansComplete
  BY DEF IInv
<1> QED BY <1>1, BufferInvariance, PTL

\* readFromSocket returns true just when it has appended what it was asked for.
THEOREM ReadsAreExact == Spec => ReadIsExact
<1>1. IInv /\ [Next]_vars =>
        [call.op = "read" /\ call'.op = "none" =>
            (result' = "true" <=> buffer'.wrt = call.start + call.asked)]_vars
  <2> SUFFICES ASSUME IInv, Next, call.op = "read", call'.op = "none"
               PROVE  result' = "true" <=> buffer'.wrt = call.start + call.asked
    OBVIOUS
  <2>1. ReadReturns \/ ReadFails
    <3>1. ~SendBuffer /\ ~SendSome /\ ~SendReturns /\ ~SendFails /\ ~ResetBuffer
      BY DEF SendBuffer, Usable, SendSome, SendReturns, SendFails, ResetBuffer
    <3>2. ~ReadSome
      <4> SUFFICES ASSUME ReadSome PROVE FALSE
        OBVIOUS
      <4>1. PICK k \in 1..(call.asked - call.done) : call' = [call EXCEPT !.done = @ + k]
        BY DEF ReadSome
      <4> QED BY <4>1 DEF IInv, TypeOK, Calls
    <3>3. ASSUME NEW n \in Sizes
          PROVE  ~ExpandBuffer(n) /\ ~WriteBuffer(n) /\ ~AdvanceWrt(n) /\ ~AdvanceRd(n) /\ ~Read(n)
      BY DEF ExpandBuffer, WriteBuffer, AdvanceWrt, AdvanceRd, Read, Usable
    <3> QED BY <3>1, <3>2, <3>3 DEF Next
  <2>2. call.done <= call.asked /\ buffer.wrt = call.start + call.done
    BY DEF IInv, CallInv
  <2>3. call.done \in Nat /\ call.asked \in Nat /\ call.start \in Nat
    BY DEF IInv, TypeOK, Calls
  <2> QED BY <2>1, <2>2, <2>3 DEF ReadReturns, ReadFails
<1> QED BY <1>1, BufferInvariance, PTL DEF Spec, ReadIsExact

\* sendToSocket returns true just when it has written the whole buffer, once.
THEOREM SendsAreExact == Spec => SendIsExact
<1>1. IInv /\ IInv' /\ [Next]_vars =>
        [/\ call.op = "send" /\ call'.op = "none" =>
                (result' = "true" <=> call.done = buffer.wrt)
         /\ call'.op = "send" => call'.done <= buffer'.wrt]_vars
  <2> SUFFICES ASSUME IInv, IInv', Next
               PROVE  /\ call.op = "send" /\ call'.op = "none" =>
                            (result' = "true" <=> call.done = buffer.wrt)
                      /\ call'.op = "send" => call'.done <= buffer'.wrt
    OBVIOUS
  <2>1. ASSUME call.op = "send", call'.op = "none"
        PROVE  SendReturns \/ SendFails
    <3>1. ~ReadSome /\ ~ReadReturns /\ ~ReadFails /\ ~SendBuffer /\ ~ResetBuffer
      BY <2>1 DEF ReadSome, ReadReturns, ReadFails, SendBuffer, Usable, ResetBuffer
    <3>2. ~SendSome
      <4> SUFFICES ASSUME SendSome PROVE FALSE
        OBVIOUS
      <4>1. PICK k \in 1..(call.asked - call.done) : call' = [call EXCEPT !.done = @ + k]
        BY DEF SendSome
      <4> QED BY <2>1, <4>1 DEF IInv, TypeOK, Calls
    <3>3. ASSUME NEW n \in Sizes
          PROVE  ~ExpandBuffer(n) /\ ~WriteBuffer(n) /\ ~AdvanceWrt(n) /\ ~AdvanceRd(n) /\ ~Read(n)
      BY <2>1 DEF ExpandBuffer, WriteBuffer, AdvanceWrt, AdvanceRd, Read, Usable
    <3> QED BY <3>1, <3>2, <3>3 DEF Next
  <2>2. ASSUME call.op = "send", call'.op = "none"
        PROVE  result' = "true" <=> call.done = buffer.wrt
    <3>1. call.done <= call.asked /\ call.asked = buffer.wrt
      BY <2>2 DEF IInv, CallInv
    <3>2. call.done \in Nat /\ call.asked \in Nat
      BY DEF IInv, TypeOK, Calls
    <3> QED BY <2>1, <2>2, <3>1, <3>2 DEF SendReturns, SendFails
  <2>3. call'.op = "send" => call'.done <= buffer'.wrt
    BY DEF IInv, CallInv
  <2> QED BY <2>2, <2>3
<1> QED BY <1>1, BufferInvariance, PTL DEF Spec, SendIsExact
=============================================================================
