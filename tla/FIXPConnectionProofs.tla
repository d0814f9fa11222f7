------------------------ MODULE FIXPConnectionProofs ------------------------
(***************************************************************************)
(* Proofs about FIXPConnection, for every set of frames, whatever clients  *)
(* send, memory does and the link does, and for sequences of frames of any *)
(* length.                                                                 *)
(***************************************************************************)
EXTENDS FIXPConnection, MessageBufferOpsProofs, FiniteSetTheorems, TLAPS

LEMMA BlockSizes ==
    /\ Handled = {"Negotiate", "Establish", "Sequence", "RetransmitRequest", "NewOrderSingle"}
    /\ \A t \in Handled : BlockSize[t] \in Nat
    /\ SofhSize = 4 /\ HeaderSize = 8
    /\ MaxMsgSize \in Nat /\ Unallocatable = MaxMsgSize + 1
BY DEF Handled, BlockSize, NegotiateBlock, EstablishBlock, SequenceBlock,
       RetransmitRequestBlock, NewOrderSingleBlock, SofhSize, HeaderSize, MaxMsgSize,
       Unallocatable

LEMMA Replies ==
    /\ DOMAIN ReplyTo = {"Negotiate", "Establish", "NewOrderSingle"}
    /\ ReplyTo["Negotiate"] = "NegotiationResponse"
    /\ ReplyTo["Establish"] = "EstablishmentAck"
    /\ ReplyTo["NewOrderSingle"] = "ExecutionReportNew"
BY DEF ReplyTo

\* The frame that is being served is one the client may send.
LEMMA ServedFrame ==
    ASSUME TypeOK, HandledInv, Serving
    PROVE  /\ taken \in 1..Len(sent) /\ frame = sent[taken]
           /\ frame \in FrameType /\ frame.msgSize \in 0..MaxMsgSize
           /\ frame.template \in Templates /\ frame.uuid \in UUIDs
           /\ RestOfMessage(frame) \in 0..Unallocatable
           /\ frame.msgSize >= SofhSize => RestOfMessage(frame) = frame.msgSize - SofhSize
           /\ frame.msgSize < SofhSize => RestOfMessage(frame) = Unallocatable
<1>1. taken \in 1..Len(sent) /\ frame = sent[taken]
  BY DEF TypeOK, HandledInv, frame
<1>2. frame \in FrameType
  BY <1>1, FramesAssumption DEF TypeOK
<1>3. /\ frame.msgSize \in 0..MaxMsgSize /\ frame.template \in Templates
      /\ frame.uuid \in UUIDs
  BY <1>2 DEF FrameType
<1>4. RestOfMessage(frame) = IF frame.msgSize >= 4 THEN frame.msgSize - 4 ELSE Unallocatable
  BY BlockSizes DEF RestOfMessage
<1>5. RestOfMessage(frame) \in 0..Unallocatable
  BY <1>3, <1>4, BlockSizes
<1> QED BY <1>1, <1>2, <1>3, <1>4, <1>5, BlockSizes

-----------------------------------------------------------------------------
LEMMA InitIInv == Init => IInv
<1> SUFFICES ASSUME Init PROVE IInv
  OBVIOUS
<1>1. PICK allocated \in {TRUE, ~MemoryFails} : buffer = NewBuffer(BufferSize, allocated)
  BY DEF Init
<1>2. /\ buffer \in Buffers /\ ~buffer.dangling
      /\ (buffer.null => buffer.size = 0 /\ MemoryFails)
      /\ buffer.size < Unallocatable
  <2>1. BufferSize \in Nat /\ BufferSize < Unallocatable /\ 0 < Unallocatable
    BY FramesAssumption, BlockSizes
  <2>2. allocated \in BOOLEAN /\ (~allocated => MemoryFails)
    BY FramesAssumption
  <2>3. buffer = [null |-> ~allocated, size |-> IF allocated THEN BufferSize ELSE 0,
                  rd |-> 0, wrt |-> 0, dangling |-> FALSE, bad |-> ~allocated]
    BY <1>1 DEF NewBuffer
  <2> QED BY <2>1, <2>2, <2>3 DEF Buffers
<1>3. /\ sent = << >> /\ handled = << >> /\ wire = << >> /\ taken = 0 /\ link = "up"
      /\ pc = "header" /\ nextSeqNo = 1 /\ uuid \in Junk /\ residue \in Templates
      /\ Len(sent) = 0 /\ Len(handled) = 0 /\ Len(wire) = 0 /\ reply = NoReply
  BY DEF Init
<1>4. TypeOK
  BY <1>2, <1>3 DEF TypeOK
<1>5. BufferInv
  BY <1>2, <1>3 DEF BufferInv
<1>6. HandledInv /\ FramingInv /\ NoStaleDispatch /\ SendInv /\ EndsForAReason
  BY <1>3 DEF HandledInv, FramingInv, NoStaleDispatch, SendInv, EndsForAReason, Positions,
              Serving, Sending
<1>7. WellFramed /\ AnswersInv /\ RepliesInOrder /\ SessionNumbering
  BY <1>3 DEF WellFramed, AnswersInv, RepliesInOrder, SessionNumbering, Positions, Bodies
<1>8. SessionInv
  <2>1. Orders(0, 0) = {}
    BY DEF Orders
  <2>2. Cardinality({}) = 0
    BY FS_EmptySet
  <2>3. \A e \in 0..Len(handled) : e = 0
    BY <1>3
  <2>4. ASSUME NEW e \in 0..Len(handled)
        PROVE  /\ nextSeqNo = Cardinality(Orders(e, Len(handled))) + 1
               /\ e = 0
    <3>1. Orders(e, Len(handled)) = {}
      BY <1>3, <2>1, <2>3
    <3>2. nextSeqNo = 0 + 1
      BY <1>3
    <3> QED BY <2>2, <2>3, <3>1, <3>2
  <2> QED BY <1>3, <2>4 DEF SessionInv, Sending
<1> QED BY <1>4, <1>5, <1>6, <1>7, <1>8 DEF IInv

-----------------------------------------------------------------------------
(* The buffer. *)

\* What the body of a message leaves in the buffer.
LEMMA ReadBodyBuffer ==
    ASSUME TypeOK, BufferInv, HandledInv, ReadBody
    PROVE  /\ buffer' \in Buffers /\ buffer'.size < Unallocatable /\ ~buffer'.dangling
           /\ buffer'.null => buffer'.size = 0 /\ MemoryFails
           /\ buffer'.rd = 0 /\ buffer'.wrt = frame.msgSize - SofhSize
           /\ frame.msgSize >= SofhSize
           /\ buffer'.wrt >= 4 => residue' = frame.template
           /\ residue' \in Templates
<1> DEFINE size == RestOfMessage(frame)
<1>1. PICK outcome \in ReallocOutcomes :
         LET ready == Reset(ExpandIfRequired(buffer, size, outcome))
         IN  /\ Prepare(buffer, size, outcome)
             /\ size <= WrtBufFree(ready)
             /\ buffer' = Write(ready, size)
             /\ residue' \in IF size >= 4 THEN {frame.template}
                             ELSE IF size = 3 THEN Templates ELSE {residue}
  BY DEF ReadBody
<1> DEFINE grown == ExpandIfRequired(buffer, size, outcome)
           ready == Reset(grown)
<1>2. /\ Serving /\ buffer \in Buffers /\ (buffer.null => buffer.size = 0)
      /\ buffer.null => MemoryFails
      /\ buffer.size \in Nat /\ buffer.size < Unallocatable
  BY BlockSizes DEF ReadBody, Serving, TypeOK, BufferInv, Buffers
<1>3. /\ size \in 0..Unallocatable /\ size \in Nat
      /\ frame.msgSize >= 4 => size = frame.msgSize - 4
      /\ frame.msgSize < 4 => size = Unallocatable
      /\ frame.msgSize \in Nat /\ frame.template \in Templates
  BY <1>2, ServedFrame, BlockSizes
<1>4. /\ Prepare(buffer, size, outcome)
      /\ size <= WrtBufFree(ready)
      /\ buffer' = Write(ready, size)
      /\ residue' \in IF size >= 4 THEN {frame.template}
                      ELSE IF size = 3 THEN Templates ELSE {residue}
  BY <1>1
<1> HIDE DEF size
<1>5. /\ grown \in Buffers /\ (grown.null => grown.size = 0)
      /\ grown.size = IF size <= buffer.size THEN buffer.size
                      ELSE IF outcome = "failed" THEN 0 ELSE size
      /\ grown.null => buffer.null \/ outcome = "failed"
  <2>1. grown.null = IF size <= buffer.size THEN buffer.null ELSE outcome = "failed"
    BY <1>2, <1>3 DEF ExpandIfRequired, Buffers
  <2> HIDE DEF grown
  <2>2. grown.null => buffer.null \/ outcome = "failed"
    BY <2>1
  <2> QED BY <1>2, <1>3, <2>2, ExpandKeepsTypes DEF grown
<1> HIDE DEF grown
<1>6. /\ ready \in Buffers /\ ready.null = grown.null /\ ready.size = grown.size
      /\ ready.rd = 0 /\ ready.wrt = 0 /\ ready.dangling = FALSE /\ ready.bad = FALSE
  BY <1>5, ResetClears
<1> HIDE DEF ready
<1>7. size <= grown.size /\ grown.size \in Nat
  BY <1>3, <1>4, <1>5, <1>6 DEF WrtBufFree, Buffers
<1>8. size > buffer.size /\ size >= Unallocatable => outcome = "failed"
  BY <1>4, BlockSizes DEF Prepare
<1>9. size < Unallocatable /\ grown.size < Unallocatable
  BY <1>2, <1>3, <1>5, <1>7, <1>8, BlockSizes
<1>10. /\ buffer' \in Buffers /\ SameMemory(ready, buffer')
       /\ buffer'.rd = ready.rd /\ buffer'.wrt = ready.wrt + size
  BY <1>3, <1>4, <1>6, WriteFits
<1>11. frame.msgSize >= 4 /\ size = frame.msgSize - 4
  BY <1>3, <1>9
<1>12. residue' \in Templates /\ (size >= 4 => residue' = frame.template)
  BY <1>3, <1>4 DEF TypeOK
<1>13. buffer'.rd = 0 /\ buffer'.wrt = size
  BY <1>3, <1>6, <1>10
<1>14. /\ buffer'.size < Unallocatable /\ ~buffer'.dangling
       /\ buffer'.null => buffer'.size = 0
  BY <1>5, <1>6, <1>9, <1>10 DEF SameMemory
<1>15. outcome = "failed" => MemoryFails
  BY <1>3, <1>4, <1>9, BlockSizes DEF Prepare
<1>16. buffer'.null => MemoryFails
  BY <1>2, <1>5, <1>6, <1>10, <1>15 DEF SameMemory
<1> QED BY <1>10, <1>11, <1>12, <1>13, <1>14, <1>16, BlockSizes

\* Taking a header and a block off the buffer that holds a message.
LEMMA ParsedBuffer ==
    ASSUME NEW b \in Buffers, b.rd = 0, NEW n \in Nat
    PROVE  LET one == MoveRdPtr(b, HeaderSize)
               two == MoveRdPtr(one, n)
           IN  /\ one \in Buffers /\ SameMemory(b, one)
               /\ two \in Buffers /\ SameMemory(b, two)
               /\ ~two.bad => b.wrt >= HeaderSize + n
<1> DEFINE one == MoveRdPtr(b, HeaderSize)
           two == MoveRdPtr(one, n)
<1>1. b.rd <= b.wrt /\ b.wrt \in Nat /\ HeaderSize = 8 /\ HeaderSize \in Nat
  BY BlockSizes DEF Buffers
<1>2. /\ one \in Buffers /\ SameMemory(b, one) /\ one.rd <= one.wrt /\ one.wrt = b.wrt
      /\ one.bad = b.bad \/ one.bad = TRUE
      /\ ~one.bad => b.rd + HeaderSize <= b.wrt /\ one.rd = b.rd + HeaderSize
  BY <1>1, MoveRdPtrConsumes
<1> HIDE DEF one
<1>3. /\ two \in Buffers /\ SameMemory(one, two)
      /\ two.bad = one.bad \/ two.bad = TRUE
      /\ ~two.bad => one.rd + n <= one.wrt
  BY <1>2, MoveRdPtrConsumes
<1> HIDE DEF two
<1>4. SameMemory(b, two)
  BY <1>2, <1>3 DEF SameMemory
<1>5. ~two.bad => ~one.bad
  BY <1>3
<1>6. ~two.bad => b.wrt >= HeaderSize + n
  BY <1>1, <1>2, <1>3, <1>5
<1> QED BY <1>2, <1>3, <1>4, <1>6 DEF one, two

\* A message that reaches its handler is the one that was sent, to its end.
LEMMA ReceivedWhole ==
    ASSUME TypeOK, BufferInv, HandledInv, NEW t \in Handled, Receive(t)
    PROVE  /\ frame.template = t /\ frame.whole
           /\ frame.msgSize >= SofhSize + HeaderSize + BlockSize[t]
           /\ buffer' \in Buffers /\ SameMemory(buffer, buffer')
<1>1. /\ pc = "dispatch" /\ residue = t /\ buffer' = Parsed(t) /\ ~Parsed(t).bad
      /\ Serving
  BY DEF Receive, Serving
<1>2. /\ buffer \in Buffers /\ buffer.rd = 0 /\ buffer.wrt = frame.msgSize - SofhSize
      /\ frame.whole /\ (buffer.wrt >= 4 => residue = frame.template)
  BY <1>1 DEF TypeOK, BufferInv
<1>3. BlockSize[t] \in Nat
  BY BlockSizes
<1>4. /\ Parsed(t) \in Buffers /\ SameMemory(buffer, Parsed(t))
      /\ buffer.wrt >= HeaderSize + BlockSize[t]
  BY <1>1, <1>2, <1>3, ParsedBuffer DEF Parsed
<1>5. frame.msgSize \in Nat
  BY <1>1, ServedFrame
<1>6. frame.msgSize >= SofhSize + HeaderSize + BlockSize[t] /\ buffer.wrt >= 4
  BY <1>2, <1>3, <1>4, <1>5, BlockSizes
<1> QED BY <1>1, <1>2, <1>4, <1>6

-----------------------------------------------------------------------------
(* The client's steps, and the steps of the server that neither receive nor  *)
(* write a message, leave the histories and the session alone.               *)

\* What such a step may do to where processMessages is and to what it serves.
Quiet ==
    /\ UNCHANGED <<session, reply, handled, wire>>
    /\ \A i \in 1..Len(sent) : sent'[i] = sent[i]
    /\ sent' \in Seq(Frames) /\ Len(sent') >= Len(sent)
    /\ taken' \in 0..Len(sent') /\ taken' >= taken
    /\ link' \in {"up", "halfClosed", "down"} /\ (link = "down" => link' = "down")
    /\ \/ pc' = pc /\ taken' = taken
       \/ /\ pc \in {"header", "body", "dispatch"}
          /\ pc' \in {"header", "body", "dispatch", "ended", "killed"}
          /\ pc' \in {"body", "dispatch"} =>
                \/ taken' = taken /\ pc \in {"body", "dispatch"}
                \/ taken' = taken + 1

\* The properties of the histories survive a quiet step.
LEMMA QuietKeepsHistories ==
    ASSUME IInv, Quiet
    PROVE  /\ NoStaleDispatch' /\ RepliesInOrder' /\ SessionNumbering' /\ SessionInv'
           /\ SendInv' /\ WellFramed' /\ AnswersInv' /\ HandledInv'
<1> USE DEF IInv
<1>1. /\ uuid' = uuid /\ nextSeqNo' = nextSeqNo /\ reply' = reply /\ handled' = handled
      /\ wire' = wire
  BY DEF Quiet, session
<1>2. handled \in Seq(Receipts) /\ wire \in Seq(WireParts) /\ taken \in 0..Len(sent)
  BY DEF TypeOK
<1>3. NoStaleDispatch'
  <2>1. ASSUME NEW i \in 1..Len(handled)
        PROVE  sent'[handled[i].request] = sent[handled[i].request]
    BY <1>2, <2>1 DEF HandledInv, Positions, Quiet
  <2> QED BY <1>1, <2>1 DEF NoStaleDispatch, Positions
<1>4. /\ Bodies' = Bodies /\ \A i : Answer(i)' = Answer(i)
      /\ \A e, k : (Orders(e, k))' = Orders(e, k) /\ ((InForce(e, k))' <=> InForce(e, k))
  BY <1>1 DEF Bodies, Positions, Answer, Orders, InForce
<1>11. \A m : (Numbered(m))' <=> Numbered(m)
  BY <1>1, <1>4 DEF Numbered, Positions
<1>12. RepliesInOrder'
  BY <1>1, <1>4 DEF RepliesInOrder, Positions
<1>13. SessionNumbering'
  BY <1>4, <1>11 DEF SessionNumbering, IsReport
<1>5. (Sending' => Sending /\ pc' = pc /\ taken' = taken) /\ (Serving' => Serving \/ taken' = taken + 1)
  BY DEF Quiet, Sending, Serving
<1>6. SessionInv'
  <2>1. \A e \in 0..Len(handled) :
           InForce(e, Len(handled)) =>
               /\ nextSeqNo = Cardinality(Orders(e, Len(handled))) + 1
               /\ e # 0 => uuid = handled[e].uuid
    BY DEF SessionInv
  <2>2. Sending' /\ IsReport(reply') => (Numbered(reply))'
    BY <1>1, <1>5, <1>11 DEF SessionInv, IsReport
  <2> QED BY <1>1, <1>4, <2>1, <2>2 DEF SessionInv, IsReport
<1>7. SendInv'
  BY <1>1, <1>5 DEF SendInv, Sending, Quiet, BodyOf
<1>8. WellFramed'
  <2>1. link = "down" => link' = "down"
    BY DEF Quiet
  <2>2. pc = "sendBody" => pc' = "sendBody"
    BY DEF Quiet
  <2> QED BY <1>1, <2>1, <2>2 DEF WellFramed, Positions
<1>9. HandledInv'
  <2>1. ASSUME NEW k \in 1..Len(handled)
        PROVE  /\ handled[k].request \in 1..taken'
               /\ pc' \in {"body", "dispatch"} => handled[k].request < taken'
    BY <1>2, <2>1 DEF HandledInv, Positions, Quiet
  <2>2. Serving' => taken' > 0
    BY <1>2, <1>5 DEF HandledInv, Quiet
  <2> QED BY <1>1, <2>1, <2>2 DEF HandledInv, Positions
<1>10. AnswersInv'
  <2>2. ASSUME NEW i \in Bodies
        PROVE  /\ Answer(i).request \in 1..taken'
               /\ Serving' => Answer(i).request < taken'
    BY <1>2, <1>5, <2>2 DEF AnswersInv, Quiet
  <2>3. link' # "down" /\ pc' # "killed" => link # "down" /\ pc # "killed"
    BY DEF Quiet
  <2>4. ~Sending \/ Sending'
    BY DEF Quiet, Sending
  <2> QED BY <1>1, <1>4, <2>2, <2>3, <2>4 DEF AnswersInv, Positions
<1> QED BY <1>3, <1>6, <1>7, <1>8, <1>9, <1>10, <1>12, <1>13

\* The client, as long as the connection is not reset.
LEMMA ClientKeeps ==
    ASSUME IInv, (\E f \in Frames : Send(f)) \/ HalfClose \/ UNCHANGED vars
    PROVE  IInv'
<1> USE DEF IInv
<1>1. UNCHANGED <<taken, pc, buffer, residue, session, reply, handled, wire>>
  BY DEF Send, HalfClose, vars
<1>2. /\ \A i \in 1..Len(sent) : sent'[i] = sent[i]
      /\ sent' \in Seq(Frames) /\ Len(sent') >= Len(sent)
      /\ link' \in {"up", "halfClosed", "down"} /\ (link = "down" => link' = "down")
  <2>1. CASE UNCHANGED <<sent, link>> \/ HalfClose
    BY <2>1 DEF HalfClose, TypeOK
  <2>3. ASSUME NEW f \in Frames, Send(f) PROVE <1>2
    BY <2>3 DEF Send, TypeOK
  <2> QED BY <2>1, <2>3 DEF vars, client
<1>3. Quiet
  BY <1>1, <1>2 DEF Quiet, TypeOK
<1>4. TypeOK'
  BY <1>1, <1>2, <1>3 DEF TypeOK, session, Quiet
<1>5. /\ taken \in Nat /\ (taken > 0 => frame' = frame)
      /\ \A n \in 1..taken : sent'[n] = sent[n]
  BY <1>1, <1>2 DEF frame, TypeOK
<1>6. BufferInv' /\ FramingInv'
  <2>1. Serving => frame' = frame
    BY <1>5 DEF HandledInv
  <2> QED BY <1>1, <1>5, <2>1 DEF BufferInv, FramingInv, Serving, Sending
<1>7. EndsForAReason'
  BY <1>1, <1>2, <1>5 DEF EndsForAReason, TypeOK, Send, HalfClose, vars, client
<1> QED BY <1>3, <1>4, <1>6, <1>7, QuietKeepsHistories

\* A body is refused for want of memory, for a size that cannot be or because the
\* stream ends.
LEMMA ReadBodyRefused ==
    ASSUME TypeOK, BufferInv, HandledInv, ReadBodyFails
    PROVE  MemoryFails \/ link = "down" \/ ~frame.whole \/ frame.msgSize < SofhSize
<1> DEFINE size == RestOfMessage(frame)
<1>1. PICK outcome \in ReallocOutcomes :
         LET ready == Reset(ExpandIfRequired(buffer, size, outcome))
         IN  /\ Prepare(buffer, size, outcome)
             /\ size > WrtBufFree(ready) \/ link = "down" \/ ~frame.whole
  BY DEF ReadBodyFails
<1> DEFINE grown == ExpandIfRequired(buffer, size, outcome)
           ready == Reset(grown)
<1>2. /\ Serving /\ buffer \in Buffers /\ (buffer.null => buffer.size = 0)
      /\ buffer.size \in Nat
  BY DEF ReadBodyFails, Serving, TypeOK, BufferInv, Buffers
<1>3. /\ size \in 0..Unallocatable /\ size \in Nat /\ frame.msgSize \in Nat
      /\ frame.msgSize >= SofhSize => size = frame.msgSize - SofhSize
      /\ frame.msgSize <= MaxMsgSize
  BY <1>2, ServedFrame, BlockSizes
<1>4. /\ outcome = "failed" => MemoryFails \/ size >= Unallocatable
      /\ size > WrtBufFree(ready) \/ link = "down" \/ ~frame.whole
  BY <1>1 DEF Prepare
<1> HIDE DEF size
<1>5. /\ grown \in Buffers
      /\ grown.size = IF size <= buffer.size THEN buffer.size
                      ELSE IF outcome = "failed" THEN 0 ELSE size
  BY <1>2, <1>3, ExpandKeepsTypes
<1> HIDE DEF grown
<1>6. ready.size = grown.size /\ ready.wrt = 0
  BY <1>5, ResetClears
<1> HIDE DEF ready
<1>7. outcome # "failed" => ~(size > WrtBufFree(ready))
  BY <1>2, <1>3, <1>5, <1>6 DEF WrtBufFree
<1>8. size >= Unallocatable => frame.msgSize < SofhSize
  BY <1>3, BlockSizes
<1>9. CASE outcome = "failed"
  BY <1>4, <1>8, <1>9
<1>10. CASE outcome # "failed"
  BY <1>4, <1>7, <1>10
<1> QED BY <1>9, <1>10

\* Dropping a message keeps the buffer's memory.
LEMMA DiscardBuffer ==
    ASSUME TypeOK, BufferInv, Discard
    PROVE  buffer' \in Buffers /\ SameMemory(buffer, buffer')
<1>1. /\ pc = "dispatch" /\ buffer \in Buffers /\ buffer.rd = 0
      /\ buffer' = IF residue \in Handled THEN Parsed(residue)
                                          ELSE MoveRdPtr(buffer, HeaderSize)
  BY DEF Discard, TypeOK, BufferInv
<1>2. CASE residue \in Handled
  <2>1. BlockSize[residue] \in Nat
    BY <1>2, BlockSizes
  <2> QED BY <1>1, <1>2, <2>1, ParsedBuffer DEF Parsed
<1>3. CASE residue \notin Handled
  <2>1. 0 \in Nat
    OBVIOUS
  <2> QED BY <1>1, <1>3, <2>1, ParsedBuffer
<1> QED BY <1>2, <1>3

LEMMA ReadingKeeps ==
    ASSUME IInv,
           \/ ReadHeader \/ ReadHeaderFails \/ ReadBody \/ ReadBodyFails
           \/ Discard \/ DispatchNull
    PROVE  IInv'
<1> USE DEF IInv
<1>1. CASE ReadHeader \/ ReadHeaderFails
  <2>1. /\ pc = "header" /\ taken \in Nat /\ taken' \in 0..Len(sent)
        /\ taken' = taken \/ taken' = taken + 1
        /\ pc' \in {"body", "ended"}
        /\ pc' = "body" => taken' = taken + 1 /\ sent[taken + 1].encodingOk
        /\ UNCHANGED <<client, buffer, residue, session, reply, handled, wire>>
    BY <1>1 DEF ReadHeader, ReadHeaderFails, Ended, TypeOK
  <2>2. UNCHANGED <<sent, link, buffer, residue, uuid, nextSeqNo, reply, handled, wire>>
    BY <2>1 DEF client, session
  <2>3. Quiet
    BY <2>1, <2>2 DEF Quiet, TypeOK
  <2>4. TypeOK'
    BY <2>1, <2>2 DEF TypeOK
  <2>5. BufferInv'
    BY <2>1, <2>2 DEF BufferInv
  <2>6. EndsForAReason' /\ FramingInv'
    <3>1. CASE taken' = taken + 1
      <4>1. frame' = sent[taken + 1]
        BY <2>2, <3>1 DEF frame
      <4>2. \A n \in 1..taken : Framed(sent[n])
        <5>1. taken = 0 \/ Framed(sent[taken])
          BY <2>1 DEF FramingInv, frame
        <5> QED BY <2>1, <5>1 DEF EndsForAReason
      <4>3. pc' = "ended" => ~Framed(frame')
        BY <1>1, <2>1, <3>1, <4>1 DEF ReadHeader, ReadHeaderFails, Framed
      <4> QED BY <2>1, <2>2, <3>1, <4>1, <4>2, <4>3 DEF EndsForAReason, FramingInv, Sending
    <3>2. CASE taken' = taken
      <4>1. /\ pc' = "ended"
            /\ link = "down" \/ MemoryFails \/ (link = "halfClosed" /\ taken = Len(sent))
        BY <1>1, <2>1, <3>2 DEF ReadHeader, ReadHeaderFails
      <4> QED BY <2>2, <3>2, <4>1 DEF EndsForAReason, FramingInv, Sending
    <3> QED BY <2>1, <3>1, <3>2
  <2> QED BY <2>3, <2>4, <2>5, <2>6, QuietKeepsHistories
<1>2. CASE ReadBody
  <2>1. /\ pc = "body" /\ pc' = "dispatch" /\ frame.whole
        /\ UNCHANGED <<sent, link, taken, uuid, nextSeqNo, reply, handled, wire>>
    BY <1>2 DEF ReadBody, client, session
  <2>2. frame' = frame
    BY <2>1 DEF frame
  <2>3. Quiet
    BY <2>1 DEF Quiet, TypeOK, session
  <2>4. TypeOK' /\ BufferInv'
    BY <1>2, <2>1, <2>2, ReadBodyBuffer DEF TypeOK, BufferInv
  <2>5. EndsForAReason'
    BY <2>1 DEF EndsForAReason
  <2>6. FramingInv'
    BY <1>2, <2>1, <2>2, ReadBodyBuffer DEF FramingInv, Framed, Sending
  <2> QED BY <2>3, <2>4, <2>5, <2>6, QuietKeepsHistories
<1>3. CASE ReadBodyFails \/ Discard \/ DispatchNull
  <2>1. /\ pc \in {"body", "dispatch"} /\ pc' \in {"header", "ended", "killed"}
        /\ pc' = "ended" => ReadBodyFails
        /\ pc' = "header" => pc = "dispatch"
        /\ pc' = "killed" => buffer.null
        /\ UNCHANGED <<sent, link, taken, residue, uuid, nextSeqNo, reply, handled, wire>>
    BY <1>3 DEF ReadBodyFails, Discard, DispatchNull, Ended, client, session
  <2>2. buffer' \in Buffers /\ SameMemory(buffer, buffer')
    <3>1. CASE Discard
      BY <3>1, DiscardBuffer
    <3>2. CASE ReadBodyFails \/ DispatchNull
      BY <3>2 DEF ReadBodyFails, DispatchNull, Ended, SameMemory, TypeOK
    <3> QED BY <1>3, <3>1, <3>2
  <2>3. frame' = frame
    BY <2>1 DEF frame
  <2>4. Quiet
    BY <2>1 DEF Quiet, TypeOK, session
  <2>5. TypeOK' /\ BufferInv'
    BY <2>1, <2>2 DEF TypeOK, BufferInv, SameMemory
  <2>6. EndsForAReason' /\ FramingInv'
    <3>1. ReadBodyFails => taken > 0
      BY <2>1 DEF ReadBodyFails, HandledInv, Serving
    <3>2. ASSUME ReadBodyFails
          PROVE  MemoryFails \/ link = "down" \/ ~Framed(frame)
      <4>1. frame.msgSize \in 0..MaxMsgSize
        BY <3>2, ServedFrame DEF ReadBodyFails, Serving
      <4> QED BY <3>2, <4>1, BlockSizes, ReadBodyRefused DEF Framed
    <3>3. pc' = "killed" => MemoryFails
      BY <2>1 DEF BufferInv
    <3> QED BY <2>1, <2>3, <3>1, <3>2, <3>3 DEF EndsForAReason, FramingInv, Sending
  <2> QED BY <2>4, <2>5, <2>6, QuietKeepsHistories
<1> QED BY <1>1, <1>2, <1>3

-----------------------------------------------------------------------------
(* sendMsg. *)

\* The size of a message of the kinds the server sends, and that it fits.
LEMMA BodySize ==
    ASSUME NEW m, m.template \in DOMAIN ReplySizes
    PROVE  /\ ~BodyOf(m, TRUE).bad
           /\ LeftToRead(BodyOf(m, TRUE)) \in Nat
<1> DEFINE first  == ReplySizes[m.template][1]
           second == ReplySizes[m.template][2]
           new    == NewBuffer(SendBufferSize, TRUE)
           one    == Write(new, first)
           two    == Write(one, second)
<1>1. /\ first \in Nat /\ second \in Nat /\ first + second <= SendBufferSize
      /\ SendBufferSize \in Nat
  BY FramesAssumption DEF ReplySizes, NegotiationResponseBlock, EstablishmentAckBlock,
     ExecutionReportNewBlock
<1>2. /\ new \in Buffers /\ new.size = SendBufferSize /\ new.rd = 0 /\ new.wrt = 0
      /\ new.bad = FALSE
  BY <1>1 DEF NewBuffer, Buffers
<1>3. BodyOf(m, TRUE) = two
  BY DEF BodyOf
<1> HIDE DEF first, second, new
<1>4. first <= WrtBufFree(new)
  BY <1>1, <1>2 DEF WrtBufFree
<1>5. /\ one \in Buffers /\ SameMemory(new, one) /\ one.rd = 0 /\ one.wrt = 0 + first
      /\ one.bad = FALSE
  BY <1>1, <1>2, <1>4, WriteFits
<1> HIDE DEF one
<1>6. second <= WrtBufFree(one)
  BY <1>1, <1>2, <1>5 DEF WrtBufFree, SameMemory
<1>7. two.rd = 0 /\ two.wrt = one.wrt + second /\ two.bad = FALSE
  BY <1>1, <1>5, <1>6, WriteFits
<1> HIDE DEF two
<1>8. LeftToRead(two) \in Nat
  BY <1>1, <1>5, <1>7 DEF LeftToRead
<1> QED BY <1>3, <1>7, <1>8

\* Where a handler's answer takes processMessages.
LEMMA Sends ==
    ASSUME NEW m \in Messages, SendMsg(m)
    PROVE  /\ \/ pc' = "sendHeader" /\ reply' = m
              \/ MemoryFails /\ pc' \in {"header", "killed"} /\ reply' = NoReply
<1>1. m.template \in DOMAIN ReplySizes
  BY DEF Messages, ReplySizes
<1>2. PICK allocated \in {TRUE, ~MemoryFails} :
        IF BodyOf(m, allocated).bad
        THEN pc' = "header" /\ reply' = NoReply
        ELSE \/ pc' = "sendHeader" /\ reply' = m
             \/ MemoryFails /\ pc' = "killed" /\ reply' = NoReply
  BY DEF SendMsg
<1>3. CASE ~MemoryFails
  <2>1. allocated = TRUE
    BY <1>2, <1>3
  <2>2. ~BodyOf(m, allocated).bad
    BY <1>1, <2>1, BodySize
  <2> QED BY <1>2, <1>3, <2>2
<1>4. CASE MemoryFails
  BY <1>2, <1>4
<1> QED BY <1>3, <1>4

-----------------------------------------------------------------------------
(* The handlers. *)

\* What a handler of a message of template t leaves sendMsg to do.
Answers(t) ==
    \/ /\ t \in DOMAIN ReplyTo /\ pc' = "sendHeader"
       /\ reply' \in Messages /\ reply'.template = ReplyTo[t] /\ reply'.request = taken
    \/ /\ (t \notin DOMAIN ReplyTo /\ pc' = "header") \/ MemoryFails
       /\ pc' \in {"header", "killed"} /\ reply' \in {reply, NoReply}

\* What it does to the session, and with it.
Counts(t) ==
    /\ t = "Establish" => uuid' = frame.uuid /\ nextSeqNo' = 1
    /\ t # "Establish" =>
           /\ uuid' = uuid
           /\ nextSeqNo' = IF t = "NewOrderSingle" THEN nextSeqNo + 1 ELSE nextSeqNo
    /\ t = "NewOrderSingle" /\ pc' = "sendHeader" =>
           reply'.uuid = uuid /\ reply'.seqNum = nextSeqNo % SeqNumRange
    /\ t # "NewOrderSingle" /\ pc' = "sendHeader" =>
           reply'.template # "ExecutionReportNew"

LEMMA HandlerEffect ==
    ASSUME IInv,
           OnNegotiate \/ OnEstablish \/ OnSequenceOrRetransmitRequest \/ OnNewOrderSingle
    PROVE  \E t \in Handled : Receive(t) /\ Answers(t) /\ Counts(t)
<1> USE BlockSizes, Replies DEF IInv
<1>1. pc = "dispatch" /\ Serving /\ taken \in Nat /\ frame.uuid \in UUIDs
  <2>1. pc = "dispatch" /\ Serving
    BY DEF OnNegotiate, OnEstablish, OnSequenceOrRetransmitRequest, OnNewOrderSingle,
           Receive, Serving
  <2> QED BY <2>1, ServedFrame DEF TypeOK
<1>2. uuid \in UUIDs \cup Junk /\ nextSeqNo \in Nat
  BY DEF TypeOK
<1>3. CASE OnNegotiate
  <2> DEFINE m == [template |-> "NegotiationResponse", request |-> taken,
                   uuid |-> frame.uuid, previousSeqNo |-> 1, previousUuid |-> frame.uuid]
  <2>1. m \in Messages
    BY <1>1 DEF Messages
  <2>2. SendMsg(m) /\ Receive("Negotiate") /\ uuid' = uuid /\ nextSeqNo' = nextSeqNo
    BY <1>3 DEF OnNegotiate, session
  <2>3. \/ pc' = "sendHeader" /\ reply' = m
        \/ MemoryFails /\ pc' \in {"header", "killed"} /\ reply' = NoReply
    BY <2>1, <2>2, Sends
  <2>4. Answers("Negotiate") /\ Counts("Negotiate")
    BY <2>1, <2>2, <2>3 DEF Answers, Counts
  <2> QED BY <2>2, <2>4
<1>4. CASE OnEstablish
  <2> DEFINE m == [template |-> "EstablishmentAck", request |-> taken,
                   uuid |-> frame.uuid, nextSeqNo |-> 1, previousSeqNo |-> 1,
                   previousUuid |-> frame.uuid]
  <2>1. m \in Messages
    BY <1>1 DEF Messages
  <2>2. SendMsg(m) /\ Receive("Establish") /\ uuid' = frame.uuid /\ nextSeqNo' = 1
    BY <1>4 DEF OnEstablish
  <2>3. \/ pc' = "sendHeader" /\ reply' = m
        \/ MemoryFails /\ pc' \in {"header", "killed"} /\ reply' = NoReply
    BY <2>1, <2>2, Sends
  <2>4. Answers("Establish") /\ Counts("Establish")
    BY <2>1, <2>2, <2>3 DEF Answers, Counts
  <2> QED BY <2>2, <2>4
<1>5. CASE OnSequenceOrRetransmitRequest
  <2>1. /\ pc' = "header" /\ reply' = reply /\ uuid' = uuid /\ nextSeqNo' = nextSeqNo
        /\ Receive("Sequence") \/ Receive("RetransmitRequest")
    BY <1>5 DEF OnSequenceOrRetransmitRequest, session
  <2>2. /\ Answers("Sequence") /\ Counts("Sequence")
        /\ Answers("RetransmitRequest") /\ Counts("RetransmitRequest")
    BY <2>1 DEF Answers, Counts
  <2> QED BY <2>1, <2>2
<1>6. CASE OnNewOrderSingle
  <2>1. PICK junk \in Junk :
           SendMsg([template |-> "ExecutionReportNew", request |-> taken, uuid |-> uuid,
                    seqNum |-> nextSeqNo % SeqNumRange, clOrdID |-> junk])
    BY <1>6 DEF OnNewOrderSingle
  <2> DEFINE m == [template |-> "ExecutionReportNew", request |-> taken, uuid |-> uuid,
                   seqNum |-> nextSeqNo % SeqNumRange, clOrdID |-> junk]
  <2>2. nextSeqNo % SeqNumRange \in 0..(SeqNumRange - 1)
    BY <1>2, FramesAssumption
  <2>3. m \in Messages
    BY <1>1, <1>2, <2>2 DEF Messages
  <2>4. SendMsg(m) /\ Receive("NewOrderSingle") /\ uuid' = uuid /\ nextSeqNo' = nextSeqNo + 1
    BY <1>6, <2>1 DEF OnNewOrderSingle
  <2>5. \/ pc' = "sendHeader" /\ reply' = m
        \/ MemoryFails /\ pc' \in {"header", "killed"} /\ reply' = NoReply
    BY <2>3, <2>4, Sends
  <2>6. Answers("NewOrderSingle") /\ Counts("NewOrderSingle")
    BY <2>3, <2>4, <2>5 DEF Answers, Counts
  <2> QED BY <2>4, <2>6
<1> QED BY <1>3, <1>4, <1>5, <1>6

\* A message that is handled is the last one, and changes nothing about those before.
LEMMA ReceivingKeeps ==
    ASSUME IInv, NEW t \in Handled, Receive(t), Answers(t), Counts(t)
    PROVE  IInv'
<1> USE DEF IInv
<1>0. PICK n \in Nat : n = Len(handled)
  BY DEF TypeOK
<1> DEFINE h == [template |-> t, request |-> taken, uuid |-> frame.uuid]
<1>1. /\ pc = "dispatch" /\ Serving /\ ~Sending
      /\ UNCHANGED <<sent, link, taken, residue, wire>>
      /\ handled' = Append(handled, h)
      /\ pc' \in {"header", "sendHeader", "killed"}
      /\ pc' = "killed" => MemoryFails
  BY DEF Receive, Answers, Serving, Sending, client
<1>2. /\ taken \in 1..Len(sent) /\ frame = sent[taken] /\ frame.uuid \in UUIDs
  BY <1>1, ServedFrame
<1>3. /\ handled \in Seq(Receipts) /\ n \in Nat /\ h \in Receipts /\ Len(handled) = n
      /\ sent \in Seq(Frames) /\ taken \in Nat
  BY <1>0, <1>2 DEF TypeOK, Receipts
<1>4. /\ handled' \in Seq(Receipts) /\ Len(handled') = n + 1
      /\ \A k \in 1..n : handled'[k] = handled[k]
      /\ handled'[n + 1] = h
      /\ h.template = t /\ h.request = taken /\ h.uuid = frame.uuid
  BY <1>1, <1>3
<1> HIDE DEF h
<1>5. \A k \in 1..n : handled[k].request \in 1..taken /\ handled[k].request < taken
  BY <1>1, <1>3 DEF HandledInv, Positions
<1>6. /\ Bodies' = Bodies /\ \A i : Answer(i)' = Answer(i)
      /\ \A i \in Bodies : Answer(i).request \in 1..taken /\ Answer(i).request < taken
  BY <1>1 DEF Bodies, Positions, Answer, AnswersInv
<1>7. TypeOK' /\ BufferInv'
  <2>1. buffer' \in Buffers /\ SameMemory(buffer, buffer')
    BY ReceivedWhole
  <2>2. uuid' \in UUIDs \cup Junk /\ nextSeqNo' \in Nat \ {0}
    BY <1>2 DEF Counts, TypeOK
  <2>3. reply' \in Messages \cup {NoReply}
    BY DEF Answers, TypeOK
  <2> QED BY <1>1, <1>4, <2>1, <2>2, <2>3 DEF TypeOK, BufferInv, SameMemory
<1>8. HandledInv'
  <2>1. \A k \in 1..(n + 1) : handled'[k].request \in 1..taken
    BY <1>2, <1>3, <1>4, <1>5
  <2>2. \A j, k \in 1..(n + 1) : j < k => handled'[j].request < handled'[k].request
    <3>1. ASSUME NEW j \in 1..(n + 1), NEW k \in 1..(n + 1), j < k
          PROVE  handled'[j].request < handled'[k].request
      <4>1. j \in 1..n /\ handled'[j] = handled[j]
        BY <1>3, <1>4, <3>1
      <4>2. CASE k = n + 1
        BY <1>4, <1>5, <4>1, <4>2
      <4>3. CASE k \in 1..n
        BY <1>0, <1>4, <3>1, <4>1, <4>3 DEF HandledInv, Positions
      <4> QED BY <1>3, <4>2, <4>3
    <3> QED BY <3>1
  <2> QED BY <1>1, <1>2, <1>4, <2>1, <2>2 DEF HandledInv, Positions
<1>9. NoStaleDispatch'
  <2>1. /\ sent[taken].template = t /\ sent[taken].whole
        /\ sent[taken].msgSize >= SofhSize + HeaderSize + BlockSize[t]
    BY <1>2, ReceivedWhole
  <2>2. ASSUME NEW k \in 1..(n + 1)
        PROVE  /\ sent[handled'[k].request].template = handled'[k].template
               /\ sent[handled'[k].request].msgSize >=
                     SofhSize + HeaderSize + BlockSize[sent[handled'[k].request].template]
               /\ sent[handled'[k].request].whole
    <3>1. CASE k = n + 1
      BY <1>4, <2>1, <3>1
    <3>2. CASE k \in 1..n
      BY <1>0, <1>4, <3>2 DEF NoStaleDispatch, Positions
    <3> QED BY <1>3, <3>1, <3>2
  <2> QED BY <1>1, <1>4, <2>2 DEF NoStaleDispatch, Positions
<1>10. SendInv'
  BY <1>1, <1>3, <1>4 DEF SendInv, Sending, Answers, Positions
<1>11. WellFramed'
  BY <1>1 DEF WellFramed, Positions
<1>12. AnswersInv'
  <2>1. Serving' => Sending'
    BY <1>1 DEF Serving, Sending
  <2>2. ASSUME ~MemoryFails, link # "down", NEW k \in 1..(n + 1),
               handled'[k].template \in DOMAIN ReplyTo
        PROVE  \/ \E j \in Bodies : Answer(j).request = handled'[k].request
               \/ Sending' /\ reply'.request = handled'[k].request
    <3>1. CASE k = n + 1
      BY <1>4, <2>2, <3>1 DEF Answers, Sending
    <3>2. CASE k \in 1..n
      BY <1>1, <1>4, <2>2, <3>2 DEF AnswersInv, Positions
    <3> QED BY <1>3, <3>1, <3>2
  <2>3. \A i \in Bodies : Answer(i).request \in 1..taken /\ Answer(i).request < taken
    BY <1>6
  <2> QED BY <1>1, <1>4, <1>6, <2>2, <2>3 DEF AnswersInv, Positions
<1>13. RepliesInOrder'
  <2>1. ASSUME NEW i \in Bodies
        PROVE  /\ \E k \in 1..(n + 1) :
                      /\ handled'[k].request = Answer(i).request
                      /\ handled'[k].template \in DOMAIN ReplyTo
                      /\ Answer(i).template = ReplyTo[handled'[k].template]
               /\ \A j \in Bodies : i < j => Answer(i).request < Answer(j).request
               /\ ~MemoryFails =>
                     \A k \in 1..(n + 1) :
                         /\ handled'[k].template \in DOMAIN ReplyTo
                         /\ handled'[k].request < Answer(i).request
                         => \E j \in Bodies : Answer(j).request = handled'[k].request
    <3>1. PICK k \in 1..n : /\ handled[k].request = Answer(i).request
                            /\ handled[k].template \in DOMAIN ReplyTo
                            /\ Answer(i).template = ReplyTo[handled[k].template]
      BY <1>0 DEF RepliesInOrder, Positions
    <3>2. k \in 1..(n + 1) /\ handled'[k] = handled[k]
      BY <1>3, <1>4, <3>1
    <3>3. ASSUME ~MemoryFails, NEW l \in 1..(n + 1),
                 handled'[l].template \in DOMAIN ReplyTo,
                 handled'[l].request < Answer(i).request
          PROVE  \E j \in Bodies : Answer(j).request = handled'[l].request
      <4>1. l # n + 1
        BY <1>3, <1>4, <1>6, <3>3
      <4>2. l \in 1..n /\ handled'[l] = handled[l]
        BY <1>3, <1>4, <4>1
      <4> QED BY <1>0, <3>3, <4>2 DEF RepliesInOrder, Positions
    <3>4. \A j \in Bodies : i < j => Answer(i).request < Answer(j).request
      BY DEF RepliesInOrder
    <3> QED BY <3>1, <3>2, <3>3, <3>4
  <2> QED BY <1>4, <1>6, <2>1 DEF RepliesInOrder, Positions
<1>14. \A e, k \in 0..n : /\ (Orders(e, k))' = Orders(e, k)
                          /\ (InForce(e, k))' <=> InForce(e, k)
  BY <1>3, <1>4 DEF Orders, InForce
<1>15. SessionNumbering'
  <2>1. ASSUME NEW i \in Bodies, IsReport(Answer(i)),
               NEW k \in 1..(n + 1), NEW e \in 0..(n + 1),
               handled'[k].request = Answer(i).request, e <= k, (InForce(e, k))'
        PROVE  /\ Answer(i).seqNum = Cardinality((Orders(e, k))') % SeqNumRange
               /\ e # 0 => Answer(i).uuid = handled'[e].uuid
    <3>1. k \in 1..n /\ e \in 0..n /\ k \in 0..n
      BY <1>3, <1>4, <1>6, <2>1
    <3>2. /\ handled'[k] = handled[k] /\ (e # 0 => handled'[e] = handled[e])
          /\ InForce(e, k) /\ (Orders(e, k))' = Orders(e, k)
      BY <1>4, <1>14, <2>1, <3>1
    <3>3. Numbered(Answer(i))
      BY <2>1 DEF SessionNumbering
    <3> QED BY <1>0, <2>1, <3>1, <3>2, <3>3 DEF Numbered, Positions
  <2> QED BY <1>4, <1>6, <2>1 DEF SessionNumbering, Numbered, Positions, IsReport
<1>16. SessionInv'
  <2>1. ASSUME NEW e \in 0..(n + 1), (InForce(e, n + 1))'
        PROVE  /\ nextSeqNo' = Cardinality((Orders(e, n + 1))') + 1
               /\ e # 0 => uuid' = handled'[e].uuid
               /\ t = "NewOrderSingle" =>
                     /\ nextSeqNo = Cardinality((Orders(e, n + 1))')
                     /\ e # 0 => uuid = handled'[e].uuid
    <3>1. CASE t = "Establish"
      <4>1. e = n + 1
        BY <1>3, <1>4, <2>1, <3>1 DEF InForce
      <4>2. (Orders(e, n + 1))' = {}
        <5>1. (e + 1)..(n + 1) = {}
          BY <1>3, <4>1
        <5>2. (Orders(e, n + 1))' =
                  {i \in (e + 1)..(n + 1) : handled'[i].template = "NewOrderSingle"}
          BY DEF Orders
        <5> QED BY <5>1, <5>2
      <4>3. Cardinality((Orders(e, n + 1))') = 0
        BY <4>2, FS_EmptySet
      <4> QED BY <1>4, <3>1, <4>1, <4>3 DEF Counts
    <3>2. CASE t # "Establish"
      <4>1. e \in 0..n /\ (e # 0 => handled'[e] = handled[e])
        BY <1>3, <1>4, <2>1, <3>2 DEF InForce
      <4>2. InForce(e, n)
        BY <1>3, <1>4, <2>1, <4>1 DEF InForce
      <4>3. nextSeqNo = Cardinality(Orders(e, n)) + 1 /\ (e # 0 => uuid = handled[e].uuid)
        BY <1>0, <4>1, <4>2 DEF SessionInv
      <4>4. (Orders(e, n + 1))' =
                IF t = "NewOrderSingle" THEN Orders(e, n) \cup {n + 1} ELSE Orders(e, n)
        <5>1. (Orders(e, n + 1))' =
                  {i \in (e + 1)..(n + 1) : handled'[i].template = "NewOrderSingle"}
          BY DEF Orders
        <5>2. (e + 1)..(n + 1) = ((e + 1)..n) \cup {n + 1}
          BY <1>3, <4>1
        <5>3. /\ \A i \in (e + 1)..n : handled'[i] = handled[i]
              /\ handled'[n + 1].template = t
          BY <1>3, <1>4, <4>1
        <5> QED BY <5>1, <5>2, <5>3 DEF Orders
      <4>5. IsFiniteSet(Orders(e, n)) /\ n + 1 \notin Orders(e, n)
        <5>1. IsFiniteSet((e + 1)..n)
          <6>1. e + 1 \in Int /\ n \in Int
            BY <1>3, <4>1
          <6> QED BY <6>1, FS_Interval
        <5> QED BY <1>3, <4>1, <5>1, FS_Subset DEF Orders
      <4>6. /\ Cardinality(Orders(e, n) \cup {n + 1}) = Cardinality(Orders(e, n)) + 1
            /\ Cardinality(Orders(e, n)) \in Nat
        BY <4>5, FS_AddElement, FS_CardinalityType
      <4>7. nextSeqNo' = Cardinality((Orders(e, n + 1))') + 1
        BY <3>2, <4>3, <4>4, <4>6 DEF Counts
      <4>8. t = "NewOrderSingle" => nextSeqNo = Cardinality((Orders(e, n + 1))')
        BY <4>3, <4>4, <4>6
      <4> QED BY <3>2, <4>1, <4>3, <4>7, <4>8 DEF Counts
    <3> QED BY <3>1, <3>2
  <2>2. ASSUME Sending', IsReport(reply')
        PROVE  (Numbered(reply))'
    <3>1. /\ t = "NewOrderSingle" /\ reply'.request = taken
          /\ reply'.uuid = uuid /\ reply'.seqNum = nextSeqNo % SeqNumRange
      BY <2>2, <1>1 DEF Answers, Counts, Sending, IsReport
    <3>2. ASSUME NEW k \in 1..(n + 1), NEW e \in 0..(n + 1),
                 handled'[k].request = taken, e <= k, (InForce(e, k))'
          PROVE  /\ reply'.seqNum = Cardinality((Orders(e, k))') % SeqNumRange
                 /\ e # 0 => reply'.uuid = handled'[e].uuid
      <4>1. k = n + 1
        BY <1>3, <1>4, <1>5, <3>2
      <4> QED BY <2>1, <3>1, <3>2, <4>1 DEF InForce, Orders
    <3> QED BY <1>4, <3>1, <3>2 DEF Numbered, Positions
  <2>3. ASSUME NEW e \in 0..Len(handled'), (InForce(e, Len(handled)))'
        PROVE  /\ nextSeqNo' = Cardinality((Orders(e, Len(handled)))') + 1
               /\ e # 0 => uuid' = handled'[e].uuid
    BY <1>4, <2>1, <2>3 DEF InForce, Orders
  <2> QED BY <2>2, <2>3 DEF SessionInv
<1>17. EndsForAReason' /\ FramingInv'
  <2>1. Framed(frame) /\ frame' = frame
    BY <1>1, <1>2 DEF FramingInv, frame
  <2> QED BY <1>1, <2>1 DEF EndsForAReason, FramingInv
<1> QED BY <1>7, <1>8, <1>9, <1>10, <1>11, <1>12, <1>13, <1>15, <1>16, <1>17

-----------------------------------------------------------------------------
(* The writes. *)

\* The answer that is being written.
LEMMA BeingSent ==
    ASSUME IInv, Sending
    PROVE  /\ reply \in Messages /\ reply.request = taken /\ taken \in Nat /\ taken > 0
           /\ Len(handled) \in 1..Len(handled)
           /\ handled[Len(handled)].request = taken
           /\ handled[Len(handled)].template \in DOMAIN ReplyTo
           /\ reply.template = ReplyTo[handled[Len(handled)].template]
           /\ LeftToRead(BodyOf(reply, TRUE)) \in Nat
           /\ \A i \in Bodies : Answer(i).request < taken
<1> USE DEF IInv
<1>1. reply \in Messages
  BY DEF SendInv
<1>2. reply.template \in DOMAIN ReplySizes
  BY <1>1 DEF Messages, ReplySizes
<1>3. LeftToRead(BodyOf(reply, TRUE)) \in Nat
  BY <1>2, BodySize
<1>4. Serving
  BY DEF Serving
<1>5. /\ reply.request = taken /\ taken \in Nat /\ taken > 0
      /\ Len(handled) \in 1..Len(handled)
      /\ handled[Len(handled)].request = taken
      /\ handled[Len(handled)].template \in DOMAIN ReplyTo
      /\ reply.template = ReplyTo[handled[Len(handled)].template]
  BY <1>4 DEF SendInv, HandledInv, TypeOK
<1>6. \A i \in Bodies : Answer(i).request < taken
  BY <1>4 DEF AnswersInv
<1> QED BY <1>1, <1>3, <1>5, <1>6

\* What a write leaves alone.
WriteFrame ==
    /\ UNCHANGED <<sent, link, taken, buffer, residue, uuid, nextSeqNo, handled>>
    /\ Sending
    /\ pc' \in {"sendBody", "header", "killed"}
    /\ pc' = "killed" => SigpipeFatal /\ link = "down"

LEMMA WriteFrameKeeps ==
    ASSUME IInv, WriteFrame
    PROVE  BufferInv' /\ HandledInv' /\ NoStaleDispatch' /\ EndsForAReason' /\ FramingInv'
<1> USE DEF IInv, WriteFrame
<1>1. BufferInv' /\ NoStaleDispatch' /\ EndsForAReason'
  BY DEF BufferInv, NoStaleDispatch, EndsForAReason, Positions
<1>3. FramingInv'
  BY DEF FramingInv, frame
<1>2. HandledInv'
  BY BeingSent DEF HandledInv, Positions
<1> QED BY <1>1, <1>2, <1>3

\* A header, or some bytes of a message, answer nothing.
LEMMA UnansweredKeeps ==
    ASSUME IInv, UNCHANGED <<taken, uuid, nextSeqNo, handled>>,
           NEW x \in WireParts, x.part # "body", wire' \in {wire, Append(wire, x)},
           link' = "down" \/ (Sending' /\ link' = link),
           Sending' => Sending /\ reply' = reply, Serving' => Serving
    PROVE  RepliesInOrder' /\ SessionNumbering' /\ SessionInv' /\ AnswersInv'
<1> USE DEF IInv
<1>1. Bodies' = Bodies /\ \A i \in Bodies : Answer(i)' = Answer(i)
  <2>1. CASE wire' = wire
    BY <2>1 DEF Bodies, Positions, Answer
  <2>2. CASE wire' = Append(wire, x)
    <3>1. PICK n \in Nat : n = Len(wire)
      BY DEF TypeOK
    <3>2. /\ Len(wire') = n + 1 /\ wire'[n + 1] = x
          /\ \A i \in 1..n : wire'[i] = wire[i]
      BY <2>2, <3>1 DEF TypeOK
    <3> QED BY <3>1, <3>2 DEF Bodies, Positions, Answer
  <2> QED BY <2>1, <2>2
<1>2. \A e, k : (Orders(e, k))' = Orders(e, k) /\ ((InForce(e, k))' <=> InForce(e, k))
  BY DEF Orders, InForce
<1>3. \A m : (Numbered(m))' <=> Numbered(m)
  BY <1>2 DEF Numbered, Positions
<1>4. RepliesInOrder'
  BY <1>1 DEF RepliesInOrder, Positions
<1>5. SessionNumbering'
  BY <1>1, <1>3 DEF SessionNumbering, IsReport
<1>6. SessionInv'
  <2>1. Sending' /\ IsReport(reply') => (Numbered(reply))'
    BY <1>3 DEF SessionInv, IsReport
  <2>2. \A e \in 0..Len(handled) :
           InForce(e, Len(handled)) =>
               /\ nextSeqNo = Cardinality(Orders(e, Len(handled))) + 1
               /\ e # 0 => uuid = handled[e].uuid
    BY DEF SessionInv
  <2> QED BY <1>2, <2>1, <2>2 DEF SessionInv, IsReport
<1>7. AnswersInv'
  <2>1. \A i \in Bodies : Answer(i).request \in 1..taken
                             /\ (Serving' => Answer(i).request < taken)
    BY DEF AnswersInv
  <2>2. ASSUME ~MemoryFails, link' # "down", NEW k \in Positions(handled),
               handled[k].template \in DOMAIN ReplyTo
        PROVE  \/ \E j \in Bodies : Answer(j).request = handled[k].request
               \/ Sending' /\ reply'.request = handled[k].request
    BY <2>2 DEF AnswersInv, Sending
  <2> QED BY <1>1, <2>1, <2>2 DEF AnswersInv, Positions
<1> QED BY <1>4, <1>5, <1>6, <1>7

LEMMA SendHeaderKeeps ==
    ASSUME IInv, SendHeader
    PROVE  IInv'
<1> USE DEF IInv
<1>0. PICK n \in Nat : n = Len(wire)
  BY DEF TypeOK
<1> DEFINE x == [part |-> "header", message |-> reply,
                 msgSize |-> LeftToRead(BodyOf(reply, TRUE)) + SofhSize + HeaderSize]
<1>1. /\ pc = "sendHeader" /\ Sending /\ pc' = "sendBody" /\ Sending' /\ reply' = reply
      /\ link # "down" /\ wire' = Append(wire, x) /\ WriteFrame
  BY DEF SendHeader, Sending, WriteFrame, client, session
<1>2. x \in WireParts
  <2>1. LeftToRead(BodyOf(reply, TRUE)) + SofhSize + HeaderSize \in Nat
    <3>1. \A size \in Nat : size + SofhSize + HeaderSize \in Nat
      BY BlockSizes
    <3> QED BY <1>1, <3>1, BeingSent
  <2> QED BY <1>1, <2>1, BeingSent DEF WireParts
<1>3. (BodyOf(reply, TRUE))' = BodyOf(reply, TRUE)
  BY <1>1 DEF BodyOf
<1>4. /\ Len(wire') = n + 1 /\ wire'[n + 1] = x /\ wire' \in Seq(WireParts)
      /\ \A i \in 1..n : wire'[i] = wire[i]
      /\ x.part = "header"
  BY <1>0, <1>1, <1>2 DEF TypeOK
<1>5. RepliesInOrder' /\ SessionNumbering' /\ SessionInv' /\ AnswersInv'
  BY <1>1, <1>2, UnansweredKeeps DEF WriteFrame, Serving
<1>6. BufferInv' /\ HandledInv' /\ NoStaleDispatch' /\ EndsForAReason' /\ FramingInv'
  BY <1>1, WriteFrameKeeps
<1>7. TypeOK'
  BY <1>1, <1>4 DEF TypeOK, WriteFrame
<1>8. SendInv'
  BY <1>1, <1>3, <1>4, BeingSent DEF SendInv, WriteFrame
<1>9. WellFramed'
  <2>1. ASSUME NEW i \in 1..n
        PROVE  /\ wire[i].part # "torn"
               /\ wire[i].part = "header" =>
                     /\ i < n
                     /\ \/ wire[i + 1].part = "torn"
                        \/ /\ wire[i + 1].part = "body"
                           /\ wire[i + 1].message = wire[i].message
                           /\ wire[i + 1].bytes + SofhSize + HeaderSize = wire[i].msgSize
               /\ wire[i].part = "body" => i > 1 /\ wire[i - 1].part = "header"
    BY <1>0, <1>1, <2>1 DEF WellFramed, Positions
  <2>2. ASSUME NEW i \in 1..(n + 1)
        PROVE  /\ wire'[i].part # "torn"
               /\ wire'[i].part = "header" =>
                     IF i = n + 1 THEN TRUE
                     ELSE wire'[i + 1].part = "torn" \/
                          /\ wire'[i + 1].part = "body"
                          /\ wire'[i + 1].message = wire'[i].message
                          /\ wire'[i + 1].bytes + SofhSize + HeaderSize = wire'[i].msgSize
               /\ wire'[i].part = "body" => i > 1 /\ wire'[i - 1].part = "header"
    <3>1. CASE i = n + 1
      BY <1>4, <3>1
    <3>2. CASE i \in 1..n
      <4>1. wire'[i] = wire[i]
        BY <1>4, <3>2
      <4>2. i < n => wire'[i + 1] = wire[i + 1]
        BY <1>4, <3>2
      <4>3. i > 1 => wire'[i - 1] = wire[i - 1]
        BY <1>4, <3>2
      <4> QED BY <2>1, <3>2, <4>1, <4>2, <4>3
    <3> QED BY <3>1, <3>2
  <2> QED BY <1>1, <1>4, <2>2 DEF WellFramed, Positions
<1> QED BY <1>5, <1>6, <1>7, <1>8, <1>9

LEMMA WriteFailsKeeps ==
    ASSUME IInv, WriteFails
    PROVE  IInv'
<1> USE DEF IInv
<1>1. /\ Sending /\ ~Sending' /\ ~Serving' /\ pc' \in {"header", "killed"}
      /\ reply' = NoReply /\ link = "down" /\ wire' = wire /\ WriteFrame
  BY DEF WriteFails, Sending, Serving, WriteFrame, client, session
<1>2. [part |-> "torn"] \in WireParts
  BY DEF WireParts
<1>3. RepliesInOrder' /\ SessionNumbering' /\ SessionInv' /\ AnswersInv'
  BY <1>1, <1>2, UnansweredKeeps DEF WriteFrame
<1>4. BufferInv' /\ HandledInv' /\ NoStaleDispatch' /\ EndsForAReason' /\ FramingInv'
  BY <1>1, WriteFrameKeeps
<1>5. TypeOK' /\ SendInv' /\ WellFramed'
  BY <1>1 DEF TypeOK, SendInv, WellFramed, Positions, WriteFrame, Serving, Sending
<1> QED BY <1>3, <1>4, <1>5

\* A reset ends what is on the wire, with a message cut short or with a whole one.
LEMMA LinkDownKeeps ==
    ASSUME IInv, LinkDown
    PROVE  IInv'
<1> USE DEF IInv
<1>0. PICK n \in Nat : n = Len(wire)
  BY DEF TypeOK
<1> DEFINE x == [part |-> "torn"]
<1>1. /\ link # "down" /\ link' = "down"
      /\ wire' = wire \/ wire' = Append(wire, x)
      /\ UNCHANGED <<sent, taken, pc, buffer, residue, uuid, nextSeqNo, reply, handled>>
  BY DEF LinkDown, session
<1>2. x \in WireParts /\ x.part = "torn"
  BY DEF WireParts
<1>3. (Sending' <=> Sending) /\ (Serving' <=> Serving) /\ frame' = frame
  BY <1>1 DEF Sending, Serving, frame
<1>4. RepliesInOrder' /\ SessionNumbering' /\ SessionInv' /\ AnswersInv'
  BY <1>1, <1>2, <1>3, UnansweredKeeps
<1>5. BufferInv' /\ FramingInv' /\ HandledInv' /\ NoStaleDispatch' /\ EndsForAReason'
  BY <1>1, <1>3 DEF BufferInv, FramingInv, HandledInv, NoStaleDispatch, EndsForAReason,
                    Positions
<1>6. SendInv'
  BY <1>1, <1>3 DEF SendInv
<1>7. TypeOK'
  <2>1. wire \in Seq(WireParts)
    BY DEF TypeOK
  <2>2. wire' \in Seq(WireParts)
    BY <1>1, <1>2, <2>1
  <2> QED BY <1>1, <2>2 DEF TypeOK
<1>8. WellFramed'
  <2>1. CASE wire' = wire
    BY <1>1, <2>1 DEF WellFramed, Positions
  <2>2. CASE wire' = Append(wire, x)
    <3>1. /\ Len(wire') = n + 1 /\ wire'[n + 1] = x
          /\ \A i \in 1..n : wire'[i] = wire[i]
      BY <1>0, <2>2 DEF TypeOK
    <3>2. ASSUME NEW i \in 1..n
          PROVE  /\ wire[i].part # "torn"
                 /\ wire[i].part = "header" =>
                       IF i = n THEN TRUE
                       ELSE wire[i + 1].part = "torn" \/
                            /\ wire[i + 1].part = "body"
                            /\ wire[i + 1].message = wire[i].message
                            /\ wire[i + 1].bytes + SofhSize + HeaderSize = wire[i].msgSize
                 /\ wire[i].part = "body" => i > 1 /\ wire[i - 1].part = "header"
      BY <1>0, <1>1, <3>2 DEF WellFramed, Positions
    <3>3. ASSUME NEW i \in 1..(n + 1)
          PROVE  /\ wire'[i].part = "torn" => i = n + 1
                 /\ wire'[i].part = "header" =>
                       IF i = n + 1 THEN TRUE
                       ELSE wire'[i + 1].part = "torn" \/
                            /\ wire'[i + 1].part = "body"
                            /\ wire'[i + 1].message = wire'[i].message
                            /\ wire'[i + 1].bytes + SofhSize + HeaderSize = wire'[i].msgSize
                 /\ wire'[i].part = "body" => i > 1 /\ wire'[i - 1].part = "header"
      <4>1. CASE i = n + 1
        BY <1>2, <3>1, <4>1
      <4>2. CASE i \in 1..n
        <5>1. wire'[i] = wire[i] /\ (i > 1 => wire'[i - 1] = wire[i - 1])
          BY <3>1, <4>2
        <5>2. IF i = n THEN wire'[i + 1].part = "torn" ELSE wire'[i + 1] = wire[i + 1]
          BY <1>2, <3>1, <4>2
        <5> QED BY <3>2, <4>2, <5>1, <5>2
      <4> QED BY <4>1, <4>2
    <3> QED BY <1>1, <3>1, <3>3 DEF WellFramed, Positions
  <2> QED BY <1>1, <2>1, <2>2
<1> QED BY <1>4, <1>5, <1>6, <1>7, <1>8

\* The body makes the message the last answer.
LEMMA SendBodyKeeps ==
    ASSUME IInv, SendBody
    PROVE  IInv'
<1> USE DEF IInv
<1>0. PICK n \in Nat : n = Len(wire)
  BY DEF TypeOK
<1>1. PICK m \in Messages : m = reply
  BY BeingSent DEF SendBody, Sending
<1> DEFINE x == [part |-> "body", message |-> m, bytes |-> LeftToRead(BodyOf(m, TRUE))]
<1>2. /\ pc = "sendBody" /\ Sending /\ ~Sending' /\ ~Serving' /\ pc' = "header"
      /\ reply' = NoReply /\ link # "down" /\ wire' = Append(wire, x) /\ WriteFrame
  BY <1>1 DEF SendBody, Sending, Serving, WriteFrame, client, session
<1>3. /\ m.request = taken /\ taken \in 1..taken
      /\ Len(handled) \in Positions(handled)
      /\ handled[Len(handled)].request = taken
      /\ handled[Len(handled)].template \in DOMAIN ReplyTo
      /\ m.template = ReplyTo[handled[Len(handled)].template]
      /\ LeftToRead(BodyOf(m, TRUE)) \in Nat
      /\ \A i \in Bodies : Answer(i).request < taken
  <2>1. BodyOf(m, TRUE) = BodyOf(reply, TRUE)
    BY <1>1
  <2>2. /\ Len(handled) \in 1..Len(handled) /\ taken \in Nat /\ taken > 0
        /\ LeftToRead(BodyOf(reply, TRUE)) \in Nat
        /\ reply.request = taken /\ handled[Len(handled)].request = taken
        /\ handled[Len(handled)].template \in DOMAIN ReplyTo
        /\ reply.template = ReplyTo[handled[Len(handled)].template]
        /\ \A i \in Bodies : Answer(i).request < taken
    BY <1>2, BeingSent
  <2>3. taken \in 1..taken /\ Len(handled) \in Positions(handled)
    BY <2>2 DEF Positions
  <2> QED BY <1>1, <2>1, <2>2, <2>3
<1>4. x \in WireParts /\ x.part = "body" /\ x.message = m
      /\ x.bytes = LeftToRead(BodyOf(m, TRUE))
  BY <1>3 DEF WireParts
<1>5. /\ Len(wire') = n + 1 /\ wire'[n + 1] = x /\ wire' \in Seq(WireParts)
      /\ \A i \in 1..n : wire'[i] = wire[i]
  BY <1>0, <1>2, <1>4 DEF TypeOK
<1>6. /\ Bodies' = Bodies \cup {n + 1} /\ n + 1 \notin Bodies /\ Bodies \subseteq 1..n
      /\ (Answer(n + 1))' = m
      /\ \A i \in Bodies : Answer(i)' = Answer(i)
  BY <1>0, <1>4, <1>5 DEF Bodies, Positions, Answer
<1> HIDE DEF x
<1>7. BufferInv' /\ HandledInv' /\ NoStaleDispatch' /\ EndsForAReason' /\ FramingInv'
  BY <1>2, WriteFrameKeeps
<1>8. TypeOK' /\ SendInv'
  BY <1>2, <1>5 DEF TypeOK, SendInv, WriteFrame
<1>9. /\ n > 0 /\ wire[n].part = "header" /\ wire[n].message = m
      /\ wire[n].msgSize = LeftToRead(BodyOf(m, TRUE)) + SofhSize + HeaderSize
      /\ \A i \in 1..n : wire[i].part # "torn"
  <2>1. BodyOf(m, TRUE) = BodyOf(reply, TRUE)
    BY <1>1
  <2>2. /\ n > 0
        /\ wire[n] = [part |-> "header", message |-> reply,
                      msgSize |-> LeftToRead(BodyOf(reply, TRUE)) + SofhSize + HeaderSize]
    BY <1>0, <1>2 DEF SendInv
  <2>3. \A i \in 1..n : wire[i].part # "torn"
    BY <1>0, <1>2 DEF WellFramed, Positions
  <2> QED BY <1>1, <2>1, <2>2, <2>3
<1>10. WellFramed'
  <2>1. ASSUME NEW i \in 1..n, i # n
        PROVE  /\ wire[i].part # "torn"
               /\ wire[i].part = "header" =>
                     \/ wire[i + 1].part = "torn"
                     \/ /\ wire[i + 1].part = "body"
                        /\ wire[i + 1].message = wire[i].message
                        /\ wire[i + 1].bytes + SofhSize + HeaderSize = wire[i].msgSize
               /\ wire[i].part = "body" => i > 1 /\ wire[i - 1].part = "header"
    BY <1>0, <1>9, <2>1 DEF WellFramed, Positions
  <2>2. ASSUME NEW i \in 1..(n + 1)
        PROVE  /\ wire'[i].part # "torn"
               /\ wire'[i].part = "header" =>
                     /\ i # n + 1
                     /\ \/ wire'[i + 1].part = "torn"
                        \/ /\ wire'[i + 1].part = "body"
                           /\ wire'[i + 1].message = wire'[i].message
                           /\ wire'[i + 1].bytes + SofhSize + HeaderSize = wire'[i].msgSize
               /\ wire'[i].part = "body" => i > 1 /\ wire'[i - 1].part = "header"
    <3>1. CASE i = n + 1
      <4>1. wire'[n] = wire[n] /\ i - 1 = n
        BY <1>5, <1>9, <3>1
      <4> QED BY <1>4, <1>5, <1>9, <3>1, <4>1
    <3>2. CASE i = n
      <4>1. wire'[i] = wire[n] /\ wire'[i + 1] = x /\ i # n + 1
        BY <1>5, <1>9, <3>2
      <4> QED BY <1>4, <1>9, <4>1
    <3>3. CASE i \in 1..n /\ i # n
      <4>1. /\ wire'[i] = wire[i] /\ wire'[i + 1] = wire[i + 1] /\ i # n + 1
            /\ i > 1 => wire'[i - 1] = wire[i - 1]
        BY <1>5, <3>3
      <4> QED BY <2>1, <3>3, <4>1
    <3> QED BY <3>1, <3>2, <3>3
  <2> QED BY <1>5, <2>2 DEF WellFramed, Positions
<1>11. \A k \in Positions(handled) :
          ~MemoryFails /\ handled[k].template \in DOMAIN ReplyTo =>
              \/ \E j \in Bodies : Answer(j).request = handled[k].request
              \/ handled[k].request = taken
  BY <1>1, <1>2, <1>3 DEF AnswersInv
<1>12. Positions(handled)' = Positions(handled) /\ handled' = handled /\ taken' = taken
  BY <1>2 DEF WriteFrame, Positions
<1>13. AnswersInv'
  <2>1. \A i \in Bodies' : (Answer(i))'.request \in 1..taken
    BY <1>3, <1>6 DEF AnswersInv
  <2>2. \A k \in Positions(handled) :
           ~MemoryFails /\ handled[k].template \in DOMAIN ReplyTo =>
               \E j \in Bodies' : (Answer(j))'.request = handled[k].request
    BY <1>3, <1>6, <1>11
  <2> QED BY <1>2, <1>12, <2>1, <2>2 DEF AnswersInv
<1>14. RepliesInOrder'
  <2>1. ASSUME NEW i \in Bodies'
        PROVE  /\ \E k \in Positions(handled) :
                      /\ handled[k].request = (Answer(i))'.request
                      /\ handled[k].template \in DOMAIN ReplyTo
                      /\ (Answer(i))'.template = ReplyTo[handled[k].template]
               /\ \A j \in Bodies' : i < j => (Answer(i))'.request < (Answer(j))'.request
               /\ ~MemoryFails =>
                     \A k \in Positions(handled) :
                         /\ handled[k].template \in DOMAIN ReplyTo
                         /\ handled[k].request < (Answer(i))'.request
                         => \E j \in Bodies' : (Answer(j))'.request = handled[k].request
    <3>1. CASE i = n + 1
      <4>1. (Answer(i))' = m /\ \A j \in Bodies' : ~(i < j)
        BY <1>6, <3>1
      <4>2. \A k \in Positions(handled) :
               handled[k].request < taken => handled[k].request # taken
        BY <1>3 DEF HandledInv
      <4> QED BY <1>3, <1>6, <1>11, <4>1, <4>2
    <3>2. CASE i \in Bodies
      <4>1. /\ (Answer(i))' = Answer(i)
            /\ \A j \in Bodies : i < j => Answer(i).request < Answer(j).request
            /\ Answer(i).request < m.request
            /\ \E k \in Positions(handled) :
                   /\ handled[k].request = Answer(i).request
                   /\ handled[k].template \in DOMAIN ReplyTo
                   /\ Answer(i).template = ReplyTo[handled[k].template]
        BY <1>3, <1>6, <3>2 DEF RepliesInOrder
      <4>2. ~MemoryFails =>
               \A k \in Positions(handled) :
                   /\ handled[k].template \in DOMAIN ReplyTo
                   /\ handled[k].request < Answer(i).request
                   => \E j \in Bodies : Answer(j).request = handled[k].request
        BY <3>2 DEF RepliesInOrder
      <4> QED BY <1>6, <4>1, <4>2
    <3> QED BY <1>6, <3>1, <3>2
  <2> QED BY <1>12, <2>1 DEF RepliesInOrder
<1>15. /\ \A e, k : (Orders(e, k))' = Orders(e, k) /\ ((InForce(e, k))' <=> InForce(e, k))
  BY <1>12 DEF Orders, InForce
<1>16. \A r : (Numbered(r))' <=> Numbered(r)
  BY <1>12, <1>15 DEF Numbered
<1>17. SessionNumbering'
  <2>1. \A i \in Bodies : IsReport(Answer(i)) => Numbered(Answer(i))
    BY DEF SessionNumbering
  <2>2. IsReport(m) => Numbered(m)
    BY <1>1, <1>2 DEF SessionInv
  <2>3. \A i \in Bodies' : IsReport((Answer(i))') => (Numbered(Answer(i)))'
    BY <1>6, <1>16, <2>1, <2>2
  <2> QED BY <2>3 DEF SessionNumbering, IsReport
<1>18. SessionInv'
  <2>1. \A e \in 0..Len(handled) :
           InForce(e, Len(handled)) =>
               /\ nextSeqNo = Cardinality(Orders(e, Len(handled))) + 1
               /\ e # 0 => uuid = handled[e].uuid
    BY DEF SessionInv
  <2> QED BY <1>2, <1>15, <2>1 DEF SessionInv, WriteFrame
<1> QED BY <1>7, <1>8, <1>10, <1>13, <1>14, <1>17, <1>18

-----------------------------------------------------------------------------
(* The theorems. *)

LEMMA NextKeeps ==
    ASSUME IInv, [Next]_vars
    PROVE  IInv'
<1>1. CASE (\E f \in Frames : Send(f)) \/ HalfClose \/ UNCHANGED vars
  BY <1>1, ClientKeeps
<1>7. CASE LinkDown
  BY <1>7, LinkDownKeeps
<1>2. CASE \/ ReadHeader \/ ReadHeaderFails \/ ReadBody \/ ReadBodyFails
           \/ Discard \/ DispatchNull
  BY <1>2, ReadingKeeps
<1>3. CASE OnNegotiate \/ OnEstablish \/ OnSequenceOrRetransmitRequest \/ OnNewOrderSingle
  BY <1>3, HandlerEffect, ReceivingKeeps
<1>4. CASE SendHeader
  BY <1>4, SendHeaderKeeps
<1>5. CASE SendBody
  BY <1>5, SendBodyKeeps
<1>6. CASE WriteFails
  BY <1>6, WriteFailsKeeps
<1> QED BY <1>1, <1>2, <1>3, <1>4, <1>5, <1>6, <1>7 DEF Next, Serve, Client

\* The inductive invariant holds whatever the client sends, in whatever order the
\* link, the memory and the server's thread do what they do.
THEOREM ConnectionInvariant == Spec => []IInv
BY InitIInv, NextKeeps, PTL DEF Spec

\* Every variable keeps its type.
THEOREM ConnectionTypeCorrect == Spec => []TypeOK
<1>1. IInv => TypeOK
  BY DEF IInv
<1> QED BY <1>1, ConnectionInvariant, PTL

\* The client can cut the stream into messages: each header announces the bytes that
\* follow it, and only the last message may be unfinished.
THEOREM AnswersAreFramed == Spec => []WellFramed
<1>1. IInv => WellFramed
  BY DEF IInv
<1> QED BY <1>1, ConnectionInvariant, PTL

\* No handler runs on bytes an earlier message, or nobody, left in the buffer.
THEOREM HandlersSeeTheFrame == Spec => []NoStaleDispatch
<1>1. IInv => NoStaleDispatch
  BY DEF IInv
<1> QED BY <1>1, ConnectionInvariant, PTL

\* Answers go to the messages that ask for them, in their order, and none is left out.
THEOREM AnswersInOrder == Spec => []RepliesInOrder
<1>1. IInv => RepliesInOrder
  BY DEF IInv
<1> QED BY <1>1, ConnectionInvariant, PTL

\* Reports count the orders since the Establish in force, modulo the SeqNum's range.
THEOREM ReportsAreNumbered == Spec => []SessionNumbering
<1>1. IInv => SessionNumbering
  BY DEF IInv
<1> QED BY <1>1, ConnectionInvariant, PTL

\* processMessages leaves its loop for one of the reasons its breaks name, only.
THEOREM LoopEndsForAReason == Spec => []EndsForAReason
<1>1. IInv => EndsForAReason
  BY DEF IInv
<1> QED BY <1>1, ConnectionInvariant, PTL

=============================================================================
