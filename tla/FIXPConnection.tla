--------------------------- MODULE FIXPConnection ---------------------------
(***************************************************************************)
(* One connection from the inside: FIXPConnection::processMessages reads   *)
(* frames, MsgFactory::processMessage picks the handler, the onMessage     *)
(* handlers of MarketSegmentGateway change the session and answer through  *)
(* sendMsg, which writes a header and then a body.                         *)
(*                                                                         *)
(* A frame is what the server makes of the client's bytes: is the encoding *)
(* type 0xCAFE, what do msgSize and templateId say, does the stream go on  *)
(* to the frame's end, which UUID is in the message.  The client's n-th    *)
(* frame carries n as its RequestTimestamp, OrderRequestID and ClOrdID.    *)
(***************************************************************************)
EXTENDS ILink3Headers, MessageBufferOps, Sequences, FiniteSets

CONSTANTS
    Frames,         \* the frames a client may send
    MaxFrames,      \* bound: how many it sends
    Templates,      \* template ids: the handled ones and others
    UUIDs,          \* session identifiers
    Junk,           \* what uninitialised memory may hold where a number is read
    SeqNumRange,    \* SeqNum is a uint32_t, nextSeqNo_ a size_t: 2^32
    BufferSize,     \* first size of SBEHeaderAndMessage (1024)
    SendBufferSize, \* size of sendMsg's msgBuffer (2000)
    MemoryFails,    \* malloc and realloc may run out of memory
    SigpipeFatal    \* SIGPIPE has its default disposition

\* What readFromBuffer takes off the buffer, for the messages that have a handler.
BlockSize ==
    [Negotiate |-> NegotiateBlock, Establish |-> EstablishBlock,
     Sequence |-> SequenceBlock, RetransmitRequest |-> RetransmitRequestBlock,
     NewOrderSingle |-> NewOrderSingleBlock]
Handled == DOMAIN BlockSize

\* The answers, and the sizes of writeToBuffer's block and, after it, of the empty
\* data field a NegotiationResponse ends with.
ReplyTo ==
    [Negotiate |-> "NegotiationResponse", Establish |-> "EstablishmentAck",
     NewOrderSingle |-> "ExecutionReportNew"]
ReplySizes ==
    [NegotiationResponse |-> <<NegotiationResponseBlock, 2>>,
     EstablishmentAck |-> <<EstablishmentAckBlock, 0>>,
     ExecutionReportNew |-> <<ExecutionReportNewBlock, 0>>]

\* msgSize_ is a uint16_t.
MaxMsgSize == 65535
FrameType == [encodingOk : BOOLEAN, msgSize : 0..MaxMsgSize, template : Templates,
              whole : BOOLEAN, uuid : UUIDs]

\* msgSize_ - sizeof (SOFH) is computed in 64 bits without a sign: a size that is
\* not a message's stands for the huge one that comes of it.
Unallocatable == MaxMsgSize + 1

\* Mutant: a size smaller than the header's is taken for an empty message.
RestOfMessageClamped(f) ==
    IF f.msgSize >= SofhSize THEN f.msgSize - SofhSize ELSE 0

RestOfMessage(f) ==
    IF f.msgSize >= SofhSize THEN f.msgSize - SofhSize ELSE Unallocatable

ASSUME FramesAssumption ==
    /\ Frames \subseteq FrameType
    /\ Handled \subseteq Templates
    /\ MaxFrames \in Nat
    /\ UUIDs \subseteq Nat /\ Junk \subseteq Nat /\ Junk # {}
    /\ SeqNumRange \in Nat \ {0}
    /\ BufferSize \in 1..MaxMsgSize
    /\ SendBufferSize \in Nat
    /\ \A r \in DOMAIN ReplySizes : ReplySizes[r][1] + ReplySizes[r][2] <= SendBufferSize
    /\ {MemoryFails, SigpipeFatal} \subseteq BOOLEAN

VARIABLES
    sent,       \* the frames the client has sent
    taken,      \* how many of them the server has taken from the socket
    link,       \* "up", "halfClosed" by the client, or "down"
    pc,         \* where processMessages is
    buffer,     \* SBEHeaderAndMessage
    residue,    \* the template id its first bytes spell, whoever wrote them
    uuid,       \* UUID_
    nextSeqNo,  \* nextSeqNo_
    reply,      \* the message sendMsg is writing
    handled,    \* history: the messages given to onMessage
    wire        \* history: what has been written to the socket

client  == <<sent, link>>
session == <<uuid, nextSeqNo>>
vars == <<client, taken, pc, buffer, residue, session, reply, handled, wire>>

\* The messages the server writes, and what a write puts on the wire.
Messages ==
    [template : {"NegotiationResponse"}, request : Nat, uuid : UUIDs,
     previousSeqNo : Nat, previousUuid : UUIDs]
    \cup [template : {"EstablishmentAck"}, request : Nat, uuid : UUIDs,
          nextSeqNo : Nat, previousSeqNo : Nat, previousUuid : UUIDs]
    \cup [template : {"ExecutionReportNew"}, request : Nat, uuid : UUIDs \cup Junk,
          seqNum : 0..(SeqNumRange - 1), clOrdID : Junk]
WireParts ==
    [part : {"header"}, message : Messages, msgSize : Nat]
    \cup [part : {"body"}, message : Messages, bytes : Nat]
    \cup [part : {"torn"}]
Receipts == [template : Handled, request : Nat, uuid : UUIDs]

NoReply == [template |-> "none"]
TypeOK ==
    /\ sent \in Seq(Frames)
    /\ taken \in 0..Len(sent)
    /\ link \in {"up", "halfClosed", "down"}
    /\ pc \in {"header", "body", "dispatch", "sendHeader", "sendBody", "ended",
               "killed"}
    /\ buffer \in Buffers
    /\ residue \in Templates
    /\ uuid \in UUIDs \cup Junk
    /\ nextSeqNo \in Nat \ {0}
    /\ reply \in Messages \cup {NoReply}
    /\ handled \in Seq(Receipts)
    /\ wire \in Seq(WireParts)

\* UUID_ has no initialiser, and neither has the memory of the buffer.
Init ==
    /\ sent = << >>
    /\ taken = 0
    /\ link = "up"
    /\ pc = "header"
    /\ \E allocated \in {TRUE, ~MemoryFails} :
           buffer = NewBuffer(BufferSize, allocated)
    /\ residue \in Templates
    /\ uuid \in Junk
    /\ nextSeqNo = 1
    /\ reply = NoReply
    /\ handled = << >>
    /\ wire = << >>

frame == sent[taken]

\* A frame that leaves the server in step with the stream.
Framed(f) == f.encodingOk /\ f.whole /\ f.msgSize >= SofhSize

\* sendMsg is between building an answer and the end of its second write.
Sending == pc \in {"sendHeader", "sendBody"}

-----------------------------------------------------------------------------
(* The client.                                                             *)

\* A client that closes, or fails, in the middle of a frame sends nothing more.
Send(f) ==
    /\ link = "up"
    /\ Len(sent) < MaxFrames
    /\ sent' = Append(sent, f)
    /\ link' = IF f.whole THEN "up" ELSE "halfClosed"
    /\ UNCHANGED <<taken, pc, buffer, residue, session, reply, handled, wire>>

HalfClose ==
    /\ link = "up"
    /\ link' = "halfClosed"
    /\ UNCHANGED <<sent, taken, pc, buffer, residue, session, reply, handled, wire>>

\* The connection is reset: the socket has taken some bytes or none of the message being
\* written and takes no more.  What has arrived before can still be read.
LinkDown ==
    /\ link # "down"
    /\ link' = "down"
    /\ wire' \in {wire} \cup IF Sending THEN {Append(wire, [part |-> "torn"])} ELSE {}
    /\ UNCHANGED <<sent, taken, pc, buffer, residue, session, reply, handled>>

-----------------------------------------------------------------------------
(* processMessages.                                                        *)

Ended ==
    /\ pc' = "ended"
    /\ UNCHANGED <<client, buffer, residue, session, reply, handled, wire>>

\* Read the four bytes of the SOFH; the encoding type must be 0xCAFE.
ReadHeader ==
    /\ pc = "header"
    /\ taken < Len(sent)
    /\ taken' = taken + 1
    /\ IF sent[taken + 1].encodingOk
       THEN /\ pc' = "body"
            /\ UNCHANGED <<client, buffer, residue, session, reply, handled, wire>>
       ELSE Ended

\* Mutant: at the end of the stream the loop tries again.
ReadHeaderRetries == pc = "header" /\ link # "up" /\ UNCHANGED vars

\* EOF or an error, before the header or, at a frame cut short, in it.  After a reset it
\* comes behind what has arrived, which may be any part of what was sent.
ReadHeaderFails ==
    /\ pc = "header"
    /\ \/ link = "down" /\ UNCHANGED taken
       \/ link = "halfClosed" /\ taken = Len(sent) /\ UNCHANGED taken
       \/ MemoryFails /\ taken = 0 /\ UNCHANGED taken     \* SOFHBuffer has none
       \/ /\ taken < Len(sent)
          /\ ~sent[taken + 1].whole
          /\ taken' = taken + 1
    /\ Ended

\* expandIfRequired, then reset.  A size that wrapped around is never available.
Prepare(b, size, outcome) ==
    /\ size > b.size /\ size >= Unallocatable => outcome = "failed"
    /\ outcome = "failed" => MemoryFails \/ size >= Unallocatable

\* Mutant: the buffer is reset and then expanded.
ReadBodyResetFirst ==
    /\ pc = "body"
    /\ \E outcome \in ReallocOutcomes :
        LET size  == RestOfMessage(frame)
            ready == ExpandIfRequired(Reset(buffer), size, outcome)
        IN  /\ Prepare(buffer, size, outcome)
            /\ size <= WrtBufFree(ready)
            /\ buffer' = Write(ready, size)
            /\ residue' \in IF size >= 4 THEN {frame.template}
                            ELSE IF size = 3 THEN Templates ELSE {residue}
    /\ frame.whole
    /\ pc' = "dispatch"
    /\ UNCHANGED <<client, taken, session, reply, handled, wire>>

\* Read the rest of the message into the buffer.  templateId_ is in bytes 2 and 3.
ReadBody ==
    /\ pc = "body"
    /\ \E outcome \in ReallocOutcomes :
        LET size  == RestOfMessage(frame)
            ready == Reset(ExpandIfRequired(buffer, size, outcome))
        IN  /\ Prepare(buffer, size, outcome)
            /\ size <= WrtBufFree(ready)
            /\ buffer' = Write(ready, size)
            /\ residue' \in IF size >= 4 THEN {frame.template}
                            ELSE IF size = 3 THEN Templates ELSE {residue}
    /\ frame.whole
    /\ pc' = "dispatch"
    /\ UNCHANGED <<client, taken, session, reply, handled, wire>>

\* No memory for the message, or the stream ends inside it.
ReadBodyFails ==
    /\ pc = "body"
    /\ \E outcome \in ReallocOutcomes :
        LET size  == RestOfMessage(frame)
            ready == Reset(ExpandIfRequired(buffer, size, outcome))
        IN  /\ Prepare(buffer, size, outcome)
            /\ size > WrtBufFree(ready) \/ link = "down" \/ ~frame.whole
    /\ UNCHANGED taken
    /\ Ended

-----------------------------------------------------------------------------
(* sendMsg.                                                                *)

\* Build the message: writeToBuffer into a buffer of its own.  The header is filled
\* in through a pointer that is null when its buffer got no memory.
BodyOf(m, allocated) ==
    LET sizes == ReplySizes[m.template]
    IN  Write(Write(NewBuffer(SendBufferSize, allocated), sizes[1]), sizes[2])

SendMsg(m) ==
    \E allocated \in {TRUE, ~MemoryFails} :
        IF BodyOf(m, allocated).bad
        THEN pc' = "header" /\ reply' = NoReply
        ELSE \/ pc' = "sendHeader" /\ reply' = m
             \/ MemoryFails /\ pc' = "killed" /\ reply' = NoReply

\* Mutant: msgSize counts the body only.
SendHeaderBodySize ==
    /\ pc = "sendHeader"
    /\ link # "down"
    /\ wire' = Append(wire, [part |-> "header", message |-> reply,
                            msgSize |-> LeftToRead(BodyOf(reply, TRUE))])
    /\ pc' = "sendBody"
    /\ UNCHANGED <<client, taken, buffer, residue, session, reply, handled>>

\* Mutant: sendMsg returns once the header is written.
SendHeaderOnly ==
    /\ pc = "sendHeader"
    /\ link # "down"
    /\ pc' = "header"
    /\ reply' = NoReply
    /\ UNCHANGED <<client, taken, buffer, residue, session, handled, wire>>

SendHeader ==
    /\ pc = "sendHeader"
    /\ link # "down"
    /\ wire' = Append(wire, [part |-> "header", message |-> reply,
                msgSize |-> LeftToRead(BodyOf(reply, TRUE)) + SofhSize + HeaderSize])
    /\ pc' = "sendBody"
    /\ UNCHANGED <<client, taken, buffer, residue, session, reply, handled>>

\* Mutant: processMessages leaves its loop when processMessage returns true.
SendBodyAndLeave ==
    /\ pc = "sendBody"
    /\ link # "down"
    /\ wire' = Append(wire, [part |-> "body", message |-> reply,
                            bytes |-> LeftToRead(BodyOf(reply, TRUE))])
    /\ pc' = "ended"
    /\ reply' = NoReply
    /\ UNCHANGED <<client, taken, buffer, residue, session, handled>>

SendBody ==
    /\ pc = "sendBody"
    /\ link # "down"
    /\ wire' = Append(wire, [part |-> "body", message |-> reply,
                            bytes |-> LeftToRead(BodyOf(reply, TRUE))])
    /\ pc' = "header"
    /\ reply' = NoReply
    /\ UNCHANGED <<client, taken, buffer, residue, session, handled>>

\* A write on the reset connection fails: sendMsg gives the message up and
\* processMessages goes on to the next one; or SIGPIPE ends the process.
WriteFails ==
    /\ Sending
    /\ link = "down"
    /\ pc' \in {"header"} \cup (IF SigpipeFatal THEN {"killed"} ELSE {})
    /\ reply' = NoReply
    /\ UNCHANGED <<client, taken, buffer, residue, session, handled, wire>>

-----------------------------------------------------------------------------
(* MsgFactory::processMessage and the onMessage handlers.                  *)

\* The header and the message's block have been taken off the buffer.
Parsed(template) == MoveRdPtr(MoveRdPtr(buffer, HeaderSize), BlockSize[template])

\* Mutant: bad() is not looked at.
ReceiveUnchecked(template) ==
    /\ pc = "dispatch"
    /\ ~buffer.null
    /\ residue = template
    /\ buffer' = Parsed(template)
    /\ handled' = Append(handled,
            [template |-> template, request |-> taken, uuid |-> frame.uuid])
    /\ UNCHANGED <<client, taken, residue, wire>>

\* processMessage: readFromBuffer has found the whole message.
Receive(template) ==
    /\ pc = "dispatch"
    /\ ~buffer.null
    /\ residue = template
    /\ ~Parsed(template).bad
    /\ buffer' = Parsed(template)
    /\ handled' = Append(handled,
            [template |-> template, request |-> taken, uuid |-> frame.uuid])
    /\ UNCHANGED <<client, taken, residue, wire>>

\* Mutant: processMessages leaves its loop when processMessage returns false.
DiscardBreaks ==
    /\ pc = "dispatch"
    /\ ~buffer.null
    /\ residue \in Handled => Parsed(residue).bad
    /\ pc' = "ended"
    /\ UNCHANGED <<client, taken, buffer, residue, session, reply, handled, wire>>

\* An unknown template, or a message shorter than its block, is dropped.
Discard ==
    /\ pc = "dispatch"
    /\ ~buffer.null
    /\ residue \in Handled => Parsed(residue).bad
    /\ buffer' = IF residue \in Handled THEN Parsed(residue)
                                        ELSE MoveRdPtr(buffer, HeaderSize)
    /\ pc' = "header"
    /\ UNCHANGED <<client, taken, residue, session, reply, handled, wire>>

\* The constructor got no memory and the message was empty: the header is read
\* through a null pointer.
DispatchNull ==
    /\ pc = "dispatch"
    /\ buffer.null
    /\ pc' = "killed"
    /\ UNCHANGED <<client, taken, buffer, residue, session, reply, handled, wire>>

\* Mutant: Negotiate is logged and not answered.
OnNegotiateUnanswered ==
    /\ Receive("Negotiate")
    /\ pc' = "header"
    /\ UNCHANGED <<session, reply>>

OnNegotiate ==
    /\ Receive("Negotiate")
    /\ SendMsg([template |-> "NegotiationResponse", request |-> taken,
                uuid |-> frame.uuid, previousSeqNo |-> 1,
                previousUuid |-> frame.uuid])
    /\ UNCHANGED session

\* Mutant: the acknowledgement is filled before the session is set.
OnEstablishAckFirst ==
    /\ Receive("Establish")
    /\ uuid' = frame.uuid
    /\ nextSeqNo' = 1
    /\ SendMsg([template |-> "EstablishmentAck", request |-> taken,
                uuid |-> frame.uuid, nextSeqNo |-> nextSeqNo, previousSeqNo |-> 1,
                previousUuid |-> frame.uuid])

OnEstablish ==
    /\ Receive("Establish")
    /\ uuid' = frame.uuid
    /\ nextSeqNo' = 1
    /\ SendMsg([template |-> "EstablishmentAck", request |-> taken,
                uuid |-> frame.uuid, nextSeqNo |-> 1, previousSeqNo |-> 1,
                previousUuid |-> frame.uuid])

\* Both are logged and not answered.
OnSequenceOrRetransmitRequest ==
    /\ Receive("Sequence") \/ Receive("RetransmitRequest")
    /\ pc' = "header"
    /\ UNCHANGED <<session, reply>>

\* Mutant: getNextSeqNoAndIncrement is ++nextSeqNo_.
OnNewOrderSinglePreIncrement ==
    /\ Receive("NewOrderSingle")
    /\ nextSeqNo' = nextSeqNo + 1
    /\ \E junk \in Junk :
           SendMsg([template |-> "ExecutionReportNew", request |-> taken, uuid |-> uuid,
                    seqNum |-> (nextSeqNo + 1) % SeqNumRange, clOrdID |-> junk])
    /\ UNCHANGED uuid

\* The setter of ClOrdID does nothing: the report has whatever was in memory.
OnNewOrderSingle ==
    /\ Receive("NewOrderSingle")
    /\ nextSeqNo' = nextSeqNo + 1
    /\ \E junk \in Junk :
           SendMsg([template |-> "ExecutionReportNew", request |-> taken, uuid |-> uuid,
                    seqNum |-> nextSeqNo % SeqNumRange, clOrdID |-> junk])
    /\ UNCHANGED uuid

-----------------------------------------------------------------------------
Serve ==
    \/ ReadHeader
    \/ ReadHeaderFails
    \/ ReadBody
    \/ ReadBodyFails
    \/ Discard
    \/ DispatchNull
    \/ OnNegotiate
    \/ OnEstablish
    \/ OnSequenceOrRetransmitRequest
    \/ OnNewOrderSingle
    \/ SendHeader
    \/ SendBody
    \/ WriteFails

Client == (\E f \in Frames : Send(f)) \/ HalfClose \/ LinkDown

\* The client may fall silent at any time, and the thread then waits in read.
Next == Serve \/ Client

Spec == Init /\ [][Next]_vars

\* The connection's thread is scheduled, and the client reads what it is sent.
FairSpec == Spec /\ WF_vars(Serve)

-----------------------------------------------------------------------------
(* Safety.                                                                 *)

Positions(seq) == 1..Len(seq)

\* The answers that have been written in full, in the order they were.
Bodies == {i \in Positions(wire) : wire[i].part = "body"}
Answer(i) == wire[i].message
Given == {Answer(i) : i \in Bodies}
IsReport(m) == m.template = "ExecutionReportNew"

\* Whatever fails between sendMsg's two writes, the client sees whole messages,
\* each announced with its size, and at most one unfinished at the end.
WellFramed ==
    \A i \in Positions(wire) :
        /\ wire[i].part = "torn" => i = Len(wire) /\ link = "down"
        /\ wire[i].part = "header" =>
               IF i = Len(wire) THEN pc = "sendBody" \/ link = "down"
               ELSE wire[i + 1].part = "torn" \/
                    /\ wire[i + 1].part = "body"
                    /\ wire[i + 1].message = wire[i].message
                    /\ wire[i + 1].bytes + SofhSize + HeaderSize = wire[i].msgSize
        /\ wire[i].part = "body" => i > 1 /\ wire[i - 1].part = "header"

\* A handler only ever sees a message that is, from its template id to the end of
\* its block, the one the client sent: never what an earlier message, or nobody,
\* left in the reused buffer.
NoStaleDispatch ==
    \A i \in Positions(handled) :
        LET f == sent[handled[i].request] IN
        /\ f.template = handled[i].template
        /\ f.msgSize >= SofhSize + HeaderSize + BlockSize[f.template]
        /\ f.whole

\* Every answer is to a message that asks for one and of the right kind, the
\* answers come in the order of those messages, and (when memory does not run out)
\* none of them is left out before a later one.
RepliesInOrder ==
    \A i \in Bodies :
        /\ \E k \in Positions(handled) :
               /\ handled[k].request = Answer(i).request
               /\ handled[k].template \in DOMAIN ReplyTo
               /\ Answer(i).template = ReplyTo[handled[k].template]
        /\ \A j \in Bodies : i < j => Answer(i).request < Answer(j).request
        /\ ~MemoryFails =>
               \A k \in Positions(handled) :
                   /\ handled[k].template \in DOMAIN ReplyTo
                   /\ handled[k].request < Answer(i).request
                   => \E j \in Bodies : Answer(j).request = handled[k].request

\* handled[e] is the Establish in force when handled[k] was handled (0: there was
\* none), and these are the orders since.
InForce(e, k) ==
    /\ e = 0 \/ handled[e].template = "Establish"
    /\ \A i \in e+1..k : handled[i].template # "Establish"
Orders(e, k) == {i \in e+1..k : handled[i].template = "NewOrderSingle"}

\* m, the report of an order, counts the orders since the Establish in force and
\* carries its UUID.
Numbered(m) ==
    \A k \in Positions(handled), e \in 0..Len(handled) :
        (handled[k].request = m.request /\ e <= k /\ InForce(e, k)) =>
            /\ m.seqNum = Cardinality(Orders(e, k)) % SeqNumRange
            /\ e # 0 => m.uuid = handled[e].uuid

\* The execution reports since the last Establish carry its UUID and are numbered
\* from the NextSeqNo 1 it was acknowledged with, one for each order, also when an
\* earlier report could not be sent, and for as long as a SeqNum can tell them apart.
SessionNumbering == \A i \in Bodies : IsReport(Answer(i)) => Numbered(Answer(i))

\* A message that is too short, or of an unknown template, costs the client an
\* answer but not the connection: only a broken stream or framing ends it, and a
\* frame after which the server is out of step always does.  What ends the whole
\* process is SIGPIPE, on a connection that was reset, or a lack of memory.
EndsForAReason ==
    /\ pc = "ended" =>
           \/ link = "down" \/ MemoryFails
           \/ link = "halfClosed" /\ taken = Len(sent)
           \/ taken > 0 /\ ~Framed(frame)
    /\ \A n \in 1..taken - 1 : Framed(sent[n])
    /\ pc = "killed" => MemoryFails \/ (SigpipeFatal /\ link = "down")

\* Framing, the reused buffer, the counter and the two writes of an answer hidden, the
\* connection is a session: each message is handled once or passed over, is answered
\* in whole before the next is read as long as the client can be reached, and the
\* answer follows from the messages before.
Session == INSTANCE FIXPSession WITH
    seen <- taken,
    log <- handled,
    answers <- Given,
    open <- pc \notin {"ended", "killed"},
    reachable <- link # "down",
    Lossy <- MemoryFails
ImplementsSession == Session!Spec

\* "Matches Establish.UUID used to establish the connection" (ExecutionReportNew,
\* Cme.Futures.iLink3.Sbe.v8.5.xml:652).
ReportMatchesEstablish ==
    \A i \in Bodies :
        IsReport(Answer(i)) =>
            \E k \in Positions(handled) :
                /\ handled[k].template = "Establish"
                /\ handled[k].request < Answer(i).request
                /\ handled[k].uuid = Answer(i).uuid

\* "Unique identifier for Order as assigned by the buy-side" (ExecutionReportNew,
\* Cme.Futures.iLink3.Sbe.v8.5.xml:655): the report has its order's ClOrdID.
ReportEchoesClOrdID ==
    \A i \in Bodies : IsReport(Answer(i)) => Answer(i).clOrdID = Answer(i).request

-----------------------------------------------------------------------------
(* The inductive invariant behind the safety properties.                   *)

Serving == Sending \/ pc \in {"body", "dispatch"}

\* The buffer between two messages, and the message in it while it is dispatched:
\* nothing of it is older than the frame once it spells a template id.  A realloc
\* that moved its memory has not left a pointer behind.
BufferInv ==
    /\ buffer.null => buffer.size = 0 /\ MemoryFails
    /\ buffer.size < Unallocatable
    /\ ~buffer.dangling
    /\ pc = "dispatch" =>
           /\ frame.whole /\ frame.msgSize >= SofhSize
           /\ buffer.rd = 0 /\ buffer.wrt = frame.msgSize - SofhSize
           /\ buffer.wrt >= 4 => residue = frame.template

\* The loop is in step with the stream: it goes on only behind a frame that was whole,
\* of the right encoding and of a size that can be.
FramingInv ==
    /\ pc = "body" => frame.encodingOk
    /\ pc \in {"header", "dispatch"} \/ Sending => taken = 0 \/ Framed(frame)

\* Frames are handled in order, each at most once.
HandledInv ==
    /\ Serving => taken > 0
    /\ \A k \in Positions(handled) :
           /\ handled[k].request \in 1..taken
           /\ pc \in {"body", "dispatch"} => handled[k].request < taken
    /\ \A j, k \in Positions(handled) : j < k => handled[j].request < handled[k].request

\* The answer sendMsg is writing is to the last message handled, and its header
\* is the last thing written when its body is next, unless the socket takes nothing
\* any more.
SendInv ==
    /\ Sending =>
           /\ Len(handled) > 0
           /\ handled[Len(handled)].request = taken
           /\ handled[Len(handled)].template \in DOMAIN ReplyTo
           /\ reply \in Messages
           /\ reply.template = ReplyTo[handled[Len(handled)].template]
           /\ reply.request = taken
    /\ pc = "sendBody" /\ link # "down" =>
           /\ Len(wire) > 0
           /\ wire[Len(wire)] =
                 [part |-> "header", message |-> reply,
                  msgSize |-> LeftToRead(BodyOf(reply, TRUE)) + SofhSize + HeaderSize]

\* What has been answered, and that nothing else that asks for an answer is left
\* without one while the connection lasts.
AnswersInv ==
    /\ \A i \in Bodies : /\ Answer(i).request \in 1..taken
                         /\ Serving => Answer(i).request < taken
    /\ ~MemoryFails /\ link # "down" /\ pc # "killed" =>
           \A k \in Positions(handled) :
               handled[k].template \in DOMAIN ReplyTo =>
                   \/ \E j \in Bodies : Answer(j).request = handled[k].request
                   \/ Sending /\ reply.request = handled[k].request

\* The session's counter and UUID are those of the Establish in force.
SessionInv ==
    /\ \A e \in 0..Len(handled) :
           InForce(e, Len(handled)) =>
               /\ nextSeqNo = Cardinality(Orders(e, Len(handled))) + 1
               /\ e # 0 => uuid = handled[e].uuid
    /\ Sending /\ IsReport(reply) => Numbered(reply)

\* The invariant the proofs of these properties rest on.
IInv ==
    /\ TypeOK
    /\ BufferInv
    /\ FramingInv
    /\ HandledInv
    /\ NoStaleDispatch
    /\ SendInv
    /\ WellFramed
    /\ AnswersInv
    /\ RepliesInOrder
    /\ SessionInv
    /\ SessionNumbering
    /\ EndsForAReason

-----------------------------------------------------------------------------
(* Liveness.                                                               *)

Answerable(f) ==
    /\ f.encodingOk /\ f.whole
    /\ f.template \in DOMAIN ReplyTo
    /\ f.msgSize >= SofhSize + HeaderSize + BlockSize[f.template]

Gone == link = "down" \/ pc \in {"ended", "killed"}

\* Every good message is answered, whatever bad ones came before it, for as long
\* as the connection lasts.
AnsweredOrGone ==
    \A n \in 1..MaxFrames :
        (n \in Positions(sent) /\ Answerable(sent[n])) ~>
            (Gone \/ \E i \in Bodies : Answer(i).request = n)

\* A client that goes away is noticed: the thread leaves processMessages.
EndsWithLink == link # "up" ~> pc \in {"ended", "killed"}
=============================================================================
