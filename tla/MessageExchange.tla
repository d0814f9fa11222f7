--------------------------- MODULE MessageExchange ---------------------------
(***************************************************************************)
(* What the members of a message go through from the setters at one end to *)
(* the getters at the other: the initialisers of an Out class, its         *)
(* setters, writeToBuffer, the headers of sendMsg, the buffer of           *)
(* processMessages, readFromBuffer, the getters - and, in the simulator,   *)
(* an onMessage handler that fills the answer from the request and sends   *)
(* it back the same way.                                                   *)
(*                                                                         *)
(* The bytes of a block are the members it was written as: a getter sees a *)
(* value only if it looks at exactly the bytes of one member.              *)
(***************************************************************************)
EXTENDS ILink3Headers, ILink3MsgsGen, MessageBufferOps

CONSTANTS
    Classes,        \* the Out classes that are exchanged
    BufferSize,     \* first size of SBEHeaderAndMessage
    SendBufferSize  \* size of sendMsg's msgBuffer

\* The struct is packed: its members have names and bytes of their own.
Packed(in) ==
    /\ in.members \in Seq([name : STRING, bytes : Nat \ {0}, optional : BOOLEAN,
                           stores : BOOLEAN])
    /\ in.at \in [DOMAIN in.members -> Nat] /\ in.size \in Nat
    /\ \A i, j \in DOMAIN in.members :
          /\ in.members[i].name = in.members[j].name => i = j
          /\ i < j => in.at[i] + in.members[i].bytes <= in.at[j]

ASSUME ClassesAssumption ==
    /\ \A c, d \in Classes : c.in.id = d.in.id => c = d
    /\ \A c \in Classes : /\ c.in.id \in Nat \ {0} /\ c.in.data \in BOOLEAN
                          /\ Packed(c.in)
    /\ {BufferSize, SendBufferSize} \subseteq Nat \ {0}

ClassOf(id) == CHOOSE c \in Classes : c.in.id = id
MembersOf(class) == Range(class.in.members)
Names(class) == {m.name : m \in MembersOf(class)}
Stored(class) == {m.name : m \in {k \in MembersOf(class) : k.stores}}
Optional(class) == {m.name : m \in {k \in MembersOf(class) : k.optional}}

\* A value: what an end gives a member, the member's Null, or what the end's memory
\* held where the member is; and bytes that are no member's.
Client(name)   == [of |-> "client", name |-> name]
Server(name)   == [of |-> "server", name |-> name]
Memory(end)    == [of |-> "memory", name |-> end]
Null           == [of |-> "Null", name |-> ""]
Torn           == [of |-> "torn", name |-> ""]

VARIABLES
    pc,      \* "idle", an Out object is "filled", its message "written", then "read"
    given,   \* the class of the message and what its setters were called with
    out,     \* the members of the Out object
    frame,   \* what is on the wire
    buffer,  \* the reader's SBEHeaderAndMessage
    view,    \* the In object: its class and where blockData_ points
    asked    \* history: what the setters were given for the request that is answered

vars == <<pc, given, out, frame, buffer, view, asked>>

NoClass   == [in |-> [id |-> 0]]
NoMessage == [class |-> NoClass, values |-> << >>]
NoFrame   == [templateId |-> 0, blockLength |-> 0, msgSize |-> 0, block |-> << >>]
NoView    == [class |-> NoClass, at |-> 0]

Init ==
    /\ pc = "idle"
    /\ given = NoMessage
    /\ out = << >>
    /\ frame = NoFrame
    /\ buffer = NewBuffer(BufferSize, TRUE)
    /\ view = NoView
    /\ asked = NoMessage

-----------------------------------------------------------------------------
(* The Out classes.                                                        *)

\* An object as its constructor leaves it.
New(class, end) ==
    [n \in Names(class) |-> IF n \in Optional(class) THEN Null ELSE Memory(end)]

\* After its setters: those of character arrays store nothing.
Fill(class, end, values) ==
    [n \in Names(class) |->
        IF n \in DOMAIN values \cap Stored(class) THEN values[n] ELSE New(class, end)[n]]

\* Mutant: the Data object itself is written.
WriteToBufferObject(b, in) ==
    IF in.data THEN Write(Write(b, in.size), 16) ELSE Write(b, in.size)

\* writeToBuffer: the block, then the length of the data field, which is empty.
WriteToBuffer(b, in) ==
    IF in.data THEN Write(Write(b, in.size), 2) ELSE Write(b, in.size)

\* The bytes of the block in the frame, by the member they were written for.
BlockOf(in, values) ==
    [i \in 1..Len(in.members) |->
        [at |-> HeaderSize + in.at[i], bytes |-> in.members[i].bytes,
         value |-> values[in.members[i].name]]]

Construct(class, end, values) ==
    /\ pc' = "filled"
    /\ given' = [class |-> class, values |-> values]
    /\ out' = Fill(class, end, values)

\* A client builds a message of any class and sets some of its members.
ClientFills(class, names) ==
    /\ pc = "idle"
    /\ Construct(class, "client", [n \in names |-> Client(n)])
    /\ UNCHANGED <<frame, buffer, view, asked>>

\* Nothing is sent when the message does not fit sendMsg's buffer.
Drop ==
    /\ pc' = "idle"
    /\ given' = NoMessage /\ out' = << >> /\ frame' = NoFrame
    /\ view' = NoView /\ asked' = NoMessage

\* sendMsg: msgSize_ from what was written, blockLength_ from the class.
SendMsg ==
    LET body == WriteToBuffer(NewBuffer(SendBufferSize, TRUE), given.class.in)
    IN  /\ pc = "filled"
        /\ IF body.bad
           THEN Drop
           ELSE /\ pc' = "written"
                /\ frame' = [templateId |-> given.class.in.id,
                             blockLength |-> given.class.blockLength,
                             msgSize |-> LeftToRead(body) + SofhSize + HeaderSize,
                             block |-> BlockOf(given.class.in, out)]
                /\ UNCHANGED <<given, out, view, asked>>
        /\ UNCHANGED buffer

-----------------------------------------------------------------------------
(* The In classes.                                                         *)

\* Mutant: blockData_ is taken after rdPtr_ has been moved.
ReadFromBufferMovedFirst(b, class) ==
    LET moved == MoveRdPtr(b, class.in.size)
    IN  [buffer |-> moved, view |-> [class |-> class, at |-> moved.rd]]

\* readFromBuffer: blockData_ points into the buffer; the data field is left there.
ReadFromBuffer(b, class) ==
    [buffer |-> MoveRdPtr(b, class.in.size), view |-> [class |-> class, at |-> b.rd]]

\* Mutant: the SBE header is taken off msgSize_ too.
ReadWithoutHeader ==
    LET size  == frame.msgSize - SofhSize - HeaderSize
        ready == Write(Reset(ExpandIfRequired(buffer, size, "grown")), size)
        read  == ReadFromBuffer(MoveRdPtr(ready, HeaderSize), ClassOf(frame.templateId))
    IN  /\ pc = "written"
        /\ buffer' = read.buffer
        /\ IF read.buffer.bad
           THEN Drop
           ELSE /\ pc' = "read"
                /\ view' = read.view
                /\ UNCHANGED <<given, out, frame, asked>>

\* processMessages and processMessage: the class is chosen by templateId_.  A client
\* reads the answers with the In classes in the same way.
Read ==
    LET size  == frame.msgSize - SofhSize
        ready == Write(Reset(ExpandIfRequired(buffer, size, "grown")), size)
        read  == ReadFromBuffer(MoveRdPtr(ready, HeaderSize), ClassOf(frame.templateId))
    IN  /\ pc = "written"
        /\ buffer' = read.buffer
        /\ IF read.buffer.bad
           THEN Drop
           ELSE /\ pc' = "read"
                /\ view' = read.view
                /\ UNCHANGED <<given, out, frame, asked>>

\* A getter: the bytes of the struct's member, wherever blockData_ points.
Get(name) ==
    LET in    == view.class.in
        i     == CHOOSE k \in DOMAIN in.members : in.members[k].name = name
        found == {s \in Range(frame.block) :
                    s.at = view.at + in.at[i] /\ s.bytes = in.members[i].bytes}
    IN  IF found = {} THEN Torn ELSE (CHOOSE s \in found : TRUE).value

-----------------------------------------------------------------------------
(* The onMessage handlers that answer.                                     *)

NegotiationResponseTo ==
    [UUID |-> Get("UUID"), RequestTimestamp |-> Get("RequestTimestamp"),
     FaultToleranceIndicator |-> Server("Primary"),
     PreviousSeqNo |-> Server("1"), PreviousUUID |-> Get("UUID")]

EstablishmentAckTo ==
    [UUID |-> Get("UUID"), RequestTimestamp |-> Get("RequestTimestamp"),
     NextSeqNo |-> Server("nextFreeSeqNo"), PreviousSeqNo |-> Server("1"),
     PreviousUUID |-> Get("UUID"), KeepAliveInterval |-> Get("KeepAliveInterval")]

\* The members COPY_FROM_MSG copies, and those that are set.
ExecutionReport(price, stopPx) ==
    [SenderID |-> Get("SenderID"), ClOrdID |-> Get("ClOrdID"),
     PartyDetailsListReqID |-> Get("PartyDetailsListReqID"), StopPx |-> stopPx,
     OrderRequestID |-> Get("OrderRequestID"), Location |-> Get("Location"),
     SecurityID |-> Get("SecurityID"), OrderQty |-> Get("OrderQty"),
     MinQty |-> Get("MinQty"), SeqNum |-> Server("getNextSeqNoAndIncrement"),
     UUID |-> Server("getUuid"), ExecID |-> Server("ExecutionId"),
     OrderID |-> Server("100"), Price |-> price, TransactTime |-> Server("now"),
     SendingTimeEpoch |-> Server("now")]

\* Mutant: the price is passed on only as the stop price.
ExecutionReportToStopOrder == ExecutionReport(Get("Price"), Get("Price"))

\* The mantissa of the order's PRICENULL9 becomes that of the report's PRICE9.
ExecutionReportTo == ExecutionReport(Get("Price"), Get("StopPx"))

Answer(request, answer, values) ==
    /\ view.class.in.id = request.id
    /\ Construct(ClassOf(answer.id), "server", values)

OnMessage ==
    /\ pc = "read"
    /\ asked = NoMessage
    /\ asked' = given
    /\ \/ Answer(NegotiateMsg, NegotiationResponseMsg, NegotiationResponseTo)
       \/ Answer(EstablishMsg, EstablishmentAckMsg, EstablishmentAckTo)
       \/ Answer(NewOrderSingleMsg, ExecutionReportNewMsg, ExecutionReportTo)
    /\ UNCHANGED <<frame, buffer, view>>

Requests == {NegotiateMsg.id, EstablishMsg.id, NewOrderSingleMsg.id}

\* An answer has been read, or a message that is not answered.
Done ==
    /\ pc = "read"
    /\ asked # NoMessage \/ view.class.in.id \notin Requests
    /\ Drop
    /\ buffer' = Reset(buffer)

\* The members a client sets: all, none, one, or all but one.
SettersCalled(class) ==
    {{}, Names(class)} \cup {{n} : n \in Names(class)} \cup {Names(class) \ {n} : n \in Names(class)}

Next ==
    \/ \E c \in Classes : \E names \in SettersCalled(c) : ClientFills(c, names)
    \/ SendMsg
    \/ Read
    \/ OnMessage
    \/ Done

Spec == Init /\ [][Next]_vars

-----------------------------------------------------------------------------
(* Properties.                                                             *)

\* The types of the variables: the buffer is never bad, no getter sees bytes that are
\* no member's, so no such value gets into an answer.
TypeOK ==
    /\ pc \in {"idle", "filled", "written", "read"}
    /\ {given.class, asked.class, view.class} \subseteq Classes \cup {NoClass}
    /\ Torn \notin Range(out)
    /\ frame.templateId \in {0, given.class.in.id, asked.class.in.id}
    /\ buffer \in Buffers /\ ~buffer.bad

\* The reader is given the class that was written; every getter returns what the
\* setter was given, and Null for an optional member whose setter was not called.
MembersArrive ==
    pc = "read" =>
        /\ view.class = given.class
        /\ \A n \in Names(view.class) :
            /\ Get(n) # Torn
            /\ n \in DOMAIN given.values /\ n \in Stored(view.class) =>
                    Get(n) = given.values[n]
            /\ n \notin DOMAIN given.values /\ n \in Optional(view.class) => Get(n) = Null

\* The member of the request that a member of the answer repeats.
Echo(answer) ==
    CASE answer.id = NegotiationResponseMsg.id ->
            [UUID |-> "UUID", RequestTimestamp |-> "RequestTimestamp",
             PreviousUUID |-> "UUID"]
      [] answer.id = EstablishmentAckMsg.id ->
            [UUID |-> "UUID", RequestTimestamp |-> "RequestTimestamp",
             PreviousUUID |-> "UUID", KeepAliveInterval |-> "KeepAliveInterval"]
      [] answer.id = ExecutionReportNewMsg.id ->
            [PartyDetailsListReqID |-> "PartyDetailsListReqID", Price |-> "Price",
             StopPx |-> "StopPx", OrderRequestID |-> "OrderRequestID",
             SecurityID |-> "SecurityID", OrderQty |-> "OrderQty", MinQty |-> "MinQty"]

\* The classes of the answers have a setter for every member that is repeated, those of
\* the requests a getter for what it repeats, and the order the text that is copied.
ASSUME HandledAssumption ==
    /\ \A pair \in {<<NegotiateMsg, NegotiationResponseMsg>>,
                    <<EstablishMsg, EstablishmentAckMsg>>,
                    <<NewOrderSingleMsg, ExecutionReportNewMsg>>} :
          \E request, answer \in Classes :
             /\ request.in.id = pair[1].id /\ answer.in.id = pair[2].id
             /\ \A n \in DOMAIN Echo(pair[2]) :
                   n \in Stored(answer) /\ Echo(pair[2])[n] \in Stored(request)
    /\ {"SenderID", "ClOrdID", "Location"} \subseteq Names(ClassOf(NewOrderSingleMsg.id))

\* A client that reads an answer finds in it what it set in the request, and Null for
\* the optional members it left alone; what it left alone of the others is its own
\* memory, not the server's.  For Price this says what the handler does and not that it
\* is right: a PRICE9 has no Null, and no document says what the report of an order
\* without a price has to carry.
AnswersEcho ==
    pc = "read" /\ asked # NoMessage =>
        LET echo == Echo(view.class.in)
        IN  \A n \in DOMAIN echo :
                Get(n) = IF echo[n] \in DOMAIN asked.values THEN Client(echo[n])
                         ELSE IF echo[n] \in Optional(asked.class) THEN Null
                         ELSE Memory("client")

\* blockLength_ comes from the schema, the block from a C++ struct, and readFromBuffer
\* ignores blockLength_: all three agree on where the message's data begins.
BlockAsAnnounced ==
    /\ pc \in {"written", "read"} =>
            frame.msgSize - SofhSize - HeaderSize
                - (IF given.class.in.data THEN 2 ELSE 0)
            = frame.blockLength
    /\ pc = "read" => buffer.rd = HeaderSize + frame.blockLength
===============================================================================
