------------------------ MODULE MessageExchangeProofs ------------------------
(***************************************************************************)
(* What holds of MessageExchange for every set of message classes with     *)
(* packed structs.  IInv says what each step of a message's way has made   *)
(* of it: the object is what its setters were given, the frame is the      *)
(* object, the view lies on the frame's block.                             *)
(***************************************************************************)
EXTENDS MessageExchange, MessageBufferOpsProofs

\* What a client that built a request finds under a name in the answer.
Asked(n) == IF n \in DOMAIN asked.values THEN Client(n)
            ELSE IF n \in Optional(asked.class) THEN Null
            ELSE Memory("client")

Idle ==
    pc = "idle" => /\ given = NoMessage /\ out = << >> /\ frame = NoFrame
                   /\ view = NoView /\ asked = NoMessage

\* The Out object is what its setters made of it; those of an answer were given
\* what the request has.
Filled ==
    pc # "idle" =>
        /\ given.class \in Classes
        /\ out = Fill(given.class, IF asked = NoMessage THEN "client" ELSE "server",
                      given.values)
        /\ asked = NoMessage => \A n \in DOMAIN given.values : given.values[n] = Client(n)
        /\ asked # NoMessage =>
              /\ asked.class \in Classes
              /\ \A n \in DOMAIN given.values : given.values[n] # Torn
              /\ \A n \in DOMAIN Echo(given.class.in) :
                    /\ n \in DOMAIN given.values \cap Stored(given.class)
                    /\ given.values[n] = Asked(Echo(given.class.in)[n])

DataBytes(in) == IF in.data THEN 2 ELSE 0

\* The frame is the object that was sent last.
Framed ==
    /\ pc = "filled" => frame.templateId = asked.class.in.id
    /\ pc \in {"written", "read"} =>
          frame = [templateId |-> given.class.in.id,
                   blockLength |-> given.class.blockLength,
                   msgSize |-> given.class.in.size + DataBytes(given.class.in)
                                   + SofhSize + HeaderSize,
                   block |-> BlockOf(given.class.in, out)]

\* The In object lies on the block of the frame.
Viewed ==
    /\ view.class \in Classes \cup {NoClass}
    /\ pc = "read" => /\ view = [class |-> given.class, at |-> HeaderSize]
                      /\ buffer.rd = HeaderSize + given.class.in.size

BufferGood == buffer \in Buffers /\ ~buffer.bad /\ ~buffer.null

IInv ==
    /\ pc \in {"idle", "filled", "written", "read"}
    /\ Idle /\ Filled /\ Framed /\ Viewed /\ BufferGood

-----------------------------------------------------------------------------
(* Operators *)

LEMMA ClassFound ==
    ASSUME NEW c \in Classes
    PROVE  ClassOf(c.in.id) = c
BY ClassesAssumption DEF ClassOf

\* No class is taken for the absence of one.
LEMMA NoClassIsNone ==
    ASSUME NEW c \in Classes, NEW values
    PROVE  c # NoClass /\ [class |-> c, values |-> values] # NoMessage
<1>1. c.in.id # 0
  BY ClassesAssumption
<1>2. NoClass.in.id = 0
  BY DEF NoClass
<1>3. c # NoClass
  BY <1>1, <1>2
<1> QED BY <1>3 DEF NoMessage

\* What the members of an object are after its setters.
LEMMA FilledMembers ==
    ASSUME NEW class, NEW end, NEW values, NEW n \in Names(class)
    PROVE  /\ n \in DOMAIN values \cap Stored(class) =>
                Fill(class, end, values)[n] = values[n]
           /\ n \notin DOMAIN values \cap Stored(class) =>
                Fill(class, end, values)[n] =
                    IF n \in Optional(class) THEN Null ELSE Memory(end)
           /\ DOMAIN Fill(class, end, values) = Names(class)
BY DEF Fill, New

LEMMA NotTorn ==
    ASSUME NEW n
    PROVE  Torn # Null /\ Torn # Memory(n) /\ Torn # Client(n) /\ Torn # Server(n)
BY DEF Torn, Null, Memory, Client, Server

\* A member that is stored, or optional, is a member.
LEMMA StoredAreMembers ==
    ASSUME NEW class
    PROVE  Stored(class) \subseteq Names(class) /\ Optional(class) \subseteq Names(class)
BY DEF Stored, Optional, Names, MembersOf

\* Where two members of a packed struct start is different.
LEMMA PackedMembersDiffer ==
    ASSUME NEW in, Packed(in), NEW i \in DOMAIN in.members, NEW k \in DOMAIN in.members,
           in.at[i] = in.at[k]
    PROVE  i = k
<1> DEFINE MemberSet == [name : STRING, bytes : Nat \ {0}, optional : BOOLEAN,
                         stores : BOOLEAN]
           members == in.members
<1>1. members \in Seq(MemberSet)
  BY DEF Packed
<1> HIDE DEF MemberSet, members
<1>2. \A x \in DOMAIN members : members[x] \in MemberSet /\ x \in Int
  BY <1>1
<1>3. \A x \in DOMAIN members : members[x].bytes \in Nat \ {0}
  BY <1>2 DEF MemberSet
<1>4. in.at[i] \in Nat /\ in.at[k] \in Nat
  BY DEF Packed
<1>5. /\ i < k => in.at[i] + members[i].bytes <= in.at[k]
      /\ k < i => in.at[k] + members[k].bytes <= in.at[i]
  BY DEF Packed, members
<1>6. /\ i \in Int /\ k \in Int
      /\ members[i].bytes \in Nat \ {0} /\ members[k].bytes \in Nat \ {0}
  BY <1>2, <1>3 DEF members
<1> QED BY <1>4, <1>5, <1>6

\* A getter finds the bytes of one member only.
LEMMA GetterSeesMember ==
    ASSUME IInv, pc = "read", NEW n \in Names(given.class)
    PROVE  Get(n) = out[n]
<1> DEFINE in == view.class.in
           i == CHOOSE k \in DOMAIN in.members : in.members[k].name = n
           found == {s \in Range(frame.block) :
                       s.at = view.at + in.at[i] /\ s.bytes = in.members[i].bytes}
<1>1. /\ Packed(in)
      /\ frame.block = BlockOf(in, out) /\ view.class = given.class
      /\ view.at = HeaderSize
  BY ClassesAssumption DEF IInv, Filled, Framed, Viewed
<1>2. i \in DOMAIN in.members /\ in.members[i].name = n
  BY <1>1 DEF Names, MembersOf, Range
<1>3. DOMAIN in.members = 1..Len(in.members)
  BY <1>1 DEF Packed
<1> DEFINE block(k) == [at |-> HeaderSize + in.at[k], bytes |-> in.members[k].bytes,
                        value |-> out[in.members[k].name]]
<1>4. frame.block = [k \in DOMAIN in.members |-> block(k)]
  BY <1>1, <1>3 DEF BlockOf
<1>5. ASSUME NEW k \in DOMAIN in.members, HeaderSize + in.at[k] = HeaderSize + in.at[i]
      PROVE  k = i
  <2>1. in.at[k] \in Nat /\ in.at[i] \in Nat
    BY <1>1, <1>2 DEF Packed
  <2> HIDE DEF i, in
  <2>2. in.at[k] = in.at[i]
    BY <1>5, <2>1 DEF HeaderSize
  <2> QED BY <1>1, <1>2, <2>2, PackedMembersDiffer
<1>6. found = {block(i)}
  <2>1. ASSUME NEW s \in found PROVE s = block(i)
    <3>1. PICK k \in DOMAIN in.members : s = block(k)
      BY <1>4 DEF Range
    <3>2. HeaderSize + in.at[k] = HeaderSize + in.at[i]
      BY <1>1, <3>1
    <3> QED BY <1>5, <3>1, <3>2
  <2>2. block(i) \in found
    BY <1>1, <1>2, <1>4 DEF Range
  <2> QED BY <2>1, <2>2
<1>7. Get(n) = IF found = {} THEN Torn ELSE (CHOOSE s \in found : TRUE).value
  BY Zenon DEF Get
<1>8. block(i).value = out[n]
  BY <1>2
<1> HIDE DEF found, block
<1>9. (CHOOSE s \in found : TRUE) = block(i) /\ found # {}
  BY <1>6
<1> QED BY <1>7, <1>8, <1>9

\* What writeToBuffer leaves in sendMsg's buffer, unless the message does not fit.
LEMMA WrittenLength ==
    ASSUME NEW in, in.size \in Nat,
           ~WriteToBuffer(NewBuffer(SendBufferSize, TRUE), in).bad
    PROVE  LeftToRead(WriteToBuffer(NewBuffer(SendBufferSize, TRUE), in))
              = in.size + DataBytes(in)
<1> DEFINE b == NewBuffer(SendBufferSize, TRUE)
           c == Write(b, in.size)
           d == Write(c, 2)
<1>1. b \in Buffers /\ b.rd = 0 /\ b.wrt = 0 /\ ~b.bad
  BY ClassesAssumption DEF NewBuffer, Buffers
<1>2. AppendsOrBad(b, c, in.size)
  BY <1>1, WriteAppends
<1>3. AppendsOrBad(c, d, 2)
  BY <1>2, WriteAppends DEF AppendsOrBad
<1> HIDE DEF b, c, d
<1>4. CASE in.data
  <2>1. ~d.bad
    BY <1>4 DEF WriteToBuffer, b, c, d
  <2>2. d.rd = 0 /\ d.wrt = in.size + 2
    BY <1>1, <1>2, <1>3, <2>1 DEF AppendsOrBad, Buffers
  <2>3. LeftToRead(d) = in.size + 2
    BY <2>2 DEF LeftToRead
  <2> QED BY <1>4, <2>3 DEF WriteToBuffer, b, c, d, DataBytes
<1>5. CASE ~in.data
  <2>1. ~c.bad
    BY <1>5 DEF WriteToBuffer, b, c
  <2>2. c.rd = 0 /\ c.wrt = in.size
    BY <1>1, <1>2, <2>1 DEF AppendsOrBad, Buffers
  <2>3. LeftToRead(c) = in.size
    BY <2>2 DEF LeftToRead
  <2>4. WriteToBuffer(b, in) = c /\ DataBytes(in) = 0
    BY <1>5 DEF WriteToBuffer, c, DataBytes
  <2>5. in.size + DataBytes(in) = in.size
    BY <2>4
  <2> QED BY <2>3, <2>4, <2>5 DEF b
<1> QED BY <1>4, <1>5

\* A realloc that succeeds leaves at least the memory that was asked for.
LEMMA ExpandGrows ==
    ASSUME NEW b \in Buffers, ~b.null, NEW n \in Nat
    PROVE  /\ ExpandIfRequired(b, n, "grown") \in Buffers
           /\ ~ExpandIfRequired(b, n, "grown").null
           /\ n <= ExpandIfRequired(b, n, "grown").size
<1> DEFINE e == ExpandIfRequired(b, n, "grown")
<1>1. e \in Buffers /\ e.size = IF n <= b.size THEN b.size ELSE n
  BY ExpandKeepsTypes DEF ReallocOutcomes
<1>2. e.null = FALSE
  <2>1. CASE n <= b.size
    BY <2>1 DEF ExpandIfRequired, Buffers
  <2>2. CASE ~(n <= b.size)
    BY <2>2 DEF ExpandIfRequired, Buffers
  <2> QED BY <2>1, <2>2
<1>3. b.size \in Nat
  BY DEF Buffers
<1> HIDE DEF e
<1>4. n <= e.size
  BY <1>1, <1>3
<1>5. ~e.null
  BY <1>2, Zenon
<1> QED BY <1>1, <1>4, <1>5 DEF e

\* What processMessages makes of a frame whose block is that of the class: the block
\* starts behind the header, and nothing is read past the frame.
LEMMA FrameIsRead ==
    ASSUME BufferGood, NEW class \in Classes, NEW extra \in Nat,
           frame.msgSize = class.in.size + extra + SofhSize + HeaderSize
    PROVE  LET size  == frame.msgSize - SofhSize
               ready == Write(Reset(ExpandIfRequired(buffer, size, "grown")), size)
               read  == ReadFromBuffer(MoveRdPtr(ready, HeaderSize), class)
           IN  /\ read.view = [class |-> class, at |-> HeaderSize]
               /\ read.buffer \in Buffers /\ ~read.buffer.bad /\ ~read.buffer.null
               /\ read.buffer.rd = HeaderSize + class.in.size
<1> DEFINE n == class.in.size
           size == frame.msgSize - SofhSize
           big == ExpandIfRequired(buffer, size, "grown")
           empty == Reset(big)
           ready == Write(empty, size)
           behind == MoveRdPtr(ready, HeaderSize)
           after == MoveRdPtr(behind, n)
<1>1. n \in Nat /\ size \in Nat /\ size = n + extra + HeaderSize
  BY ClassesAssumption DEF SofhSize, HeaderSize, Packed
<1>2. buffer \in Buffers /\ ~buffer.bad /\ ~buffer.null
  BY DEF BufferGood
<1> HIDE DEF size
<1>3. big \in Buffers /\ ~big.null /\ size <= big.size
  BY <1>1, <1>2, ExpandGrows
<1> HIDE DEF big
<1>4. /\ empty \in Buffers /\ ~empty.null /\ empty.size = big.size
      /\ empty.rd = 0 /\ empty.wrt = 0 /\ ~empty.bad
  BY <1>3, ResetClears
<1> HIDE DEF empty
<1>5. size <= WrtBufFree(empty)
  BY <1>1, <1>3, <1>4 DEF WrtBufFree, Buffers
<1>6. /\ ready \in Buffers /\ ~ready.null /\ ready.rd = 0 /\ ready.wrt = size
      /\ ~ready.bad
  BY <1>1, <1>4, <1>5, WriteFits DEF SameMemory
<1> HIDE DEF ready
<1>7. HeaderSize \in Nat /\ ~(ready.rd + HeaderSize > ready.wrt)
  BY <1>1, <1>6 DEF HeaderSize
<1>8. behind = [ready EXCEPT !.rd = @ + HeaderSize]
  BY <1>7 DEF MoveRdPtr
<1>9. /\ behind \in Buffers /\ ~behind.null /\ behind.rd = HeaderSize
      /\ behind.wrt = size /\ ~behind.bad
  BY <1>6, <1>7, <1>8, Consumed DEF SameMemory
<1> HIDE DEF behind
<1>10. ~(behind.rd + n > behind.wrt)
  BY <1>1, <1>7, <1>9
<1>11. after = [behind EXCEPT !.rd = @ + n]
  BY <1>10 DEF MoveRdPtr
<1>12. /\ after \in Buffers /\ ~after.null /\ after.rd = HeaderSize + n /\ ~after.bad
  BY <1>1, <1>9, <1>11, Consumed DEF SameMemory
<1>13. ReadFromBuffer(behind, class) =
          [buffer |-> after, view |-> [class |-> class, at |-> behind.rd]]
  BY DEF ReadFromBuffer
<1> HIDE DEF after
<1> QED BY <1>9, <1>12, <1>13 DEF behind, ready, empty, big, size, n

-----------------------------------------------------------------------------
(* The inductive invariant *)

LEMMA InitInvariant == Init => IInv
<1> SUFFICES ASSUME Init PROVE IInv
  OBVIOUS
<1> USE DEF Init
<1>1. BufferGood
  BY ClassesAssumption DEF BufferGood, NewBuffer, Buffers
<1>2. Idle /\ Filled /\ Framed /\ Viewed
  BY DEF Idle, Filled, Framed, Viewed, NoView
<1> QED BY <1>1, <1>2 DEF IInv

\* A message that is dropped leaves the idle state.
LEMMA DropStep ==
    ASSUME Drop, BufferGood'
    PROVE  IInv'
BY DEF Drop, IInv, Idle, Filled, Framed, Viewed, NoView

LEMMA ClientFillsStep ==
    ASSUME IInv, NEW c \in Classes, NEW names \in SettersCalled(c), ClientFills(c, names)
    PROVE  IInv'
<1> USE DEF ClientFills, Construct
<1>1. asked = NoMessage /\ frame = NoFrame /\ view = NoView
  BY DEF IInv, Idle
<1>2. pc' = "filled" /\ given' = [class |-> c, values |-> [n \in names |-> Client(n)]]
  OBVIOUS
<1>3. Filled'
  BY <1>1, <1>2 DEF Filled
<1>4. Framed'
  BY <1>1, <1>2 DEF Framed, NoFrame, NoMessage, NoClass
<1>5. Viewed' /\ BufferGood'
  BY <1>1, <1>2 DEF IInv, Viewed, BufferGood
<1>6. Idle'
  BY <1>2 DEF Idle
<1> QED BY <1>2, <1>3, <1>4, <1>5, <1>6 DEF IInv

LEMMA SendMsgStep == IInv /\ SendMsg => IInv'
<1> SUFFICES ASSUME IInv, SendMsg PROVE IInv'
  OBVIOUS
<1> DEFINE in == given.class.in
           body == WriteToBuffer(NewBuffer(SendBufferSize, TRUE), in)
<1>1. BufferGood'
  BY DEF SendMsg, IInv, BufferGood
<1>2. CASE body.bad
  <2>1. Drop
    BY <1>2 DEF SendMsg
  <2> QED BY <1>1, <2>1, DropStep
<1>3. CASE ~body.bad
  <2>1. /\ pc = "filled" /\ pc' = "written" /\ UNCHANGED <<given, out, view, asked, buffer>>
        /\ frame' = [templateId |-> in.id, blockLength |-> given.class.blockLength,
                     msgSize |-> LeftToRead(body) + SofhSize + HeaderSize,
                     block |-> BlockOf(in, out)]
    BY <1>3 DEF SendMsg
  <2>2. given.class \in Classes
    BY <2>1 DEF IInv, Filled
  <2>3. LeftToRead(body) = in.size + DataBytes(in)
    BY <1>3, <2>2, ClassesAssumption, WrittenLength DEF Packed
  <2>4. Framed'
    BY <2>1, <2>3 DEF Framed, BlockOf, DataBytes
  <2>5. Filled'
    BY <2>1 DEF IInv, Filled, Asked
  <2>6. Idle' /\ Viewed'
    BY <2>1 DEF IInv, Idle, Viewed
  <2> QED BY <1>1, <2>1, <2>4, <2>5, <2>6 DEF IInv
<1> QED BY <1>2, <1>3

LEMMA ReadStep == IInv /\ Read => IInv'
<1> SUFFICES ASSUME IInv, Read PROVE IInv'
  OBVIOUS
<1> DEFINE class == given.class
           size  == frame.msgSize - SofhSize
           ready == Write(Reset(ExpandIfRequired(buffer, size, "grown")), size)
           read  == ReadFromBuffer(MoveRdPtr(ready, HeaderSize), ClassOf(frame.templateId))
<1>1. pc = "written" /\ class \in Classes
  BY DEF Read, IInv, Filled
<1>2. /\ frame.msgSize = class.in.size + DataBytes(class.in) + SofhSize + HeaderSize
      /\ frame.templateId = class.in.id
  BY <1>1 DEF IInv, Framed
<1>3. ClassOf(frame.templateId) = class
  BY <1>1, <1>2, ClassFound
<1>4. DataBytes(class.in) \in Nat
  BY DEF DataBytes
<1>5. /\ read.view = [class |-> class, at |-> HeaderSize]
      /\ read.buffer \in Buffers /\ ~read.buffer.bad /\ ~read.buffer.null
      /\ read.buffer.rd = HeaderSize + class.in.size
  BY <1>1, <1>2, <1>3, <1>4, FrameIsRead DEF IInv
<1>6. /\ buffer' = read.buffer
      /\ IF read.buffer.bad
         THEN Drop
         ELSE pc' = "read" /\ view' = read.view /\ UNCHANGED <<given, out, frame, asked>>
  BY DEF Read
<1> HIDE DEF read
<1>7. pc' = "read" /\ view' = read.view /\ UNCHANGED <<given, out, frame, asked>>
  BY <1>5, <1>6
<1>8. BufferGood'
  BY <1>5, <1>6 DEF BufferGood
<1>9. Viewed'
  BY <1>1, <1>5, <1>6, <1>7 DEF Viewed
<1>10. Framed'
  BY <1>1, <1>7 DEF IInv, Framed, BlockOf, DataBytes
<1>11. Filled'
  BY <1>1, <1>7 DEF IInv, Filled, Asked
<1>12. Idle'
  BY <1>7 DEF Idle
<1> QED BY <1>7, <1>8, <1>9, <1>10, <1>11, <1>12 DEF IInv

LEMMA DoneStep == IInv /\ Done => IInv'
<1> SUFFICES ASSUME IInv, Done PROVE IInv'
  OBVIOUS
<1>1. Drop /\ buffer' = Reset(buffer)
  BY DEF Done
<1>2. BufferGood'
  BY <1>1, ResetClears DEF IInv, BufferGood
<1> QED BY <1>1, <1>2, DropStep

-----------------------------------------------------------------------------
(* The answers *)

\* Members of the object are never torn.
LEMMA MembersAreWhole ==
    ASSUME IInv, pc # "idle", NEW n \in Names(given.class)
    PROVE  out[n] # Torn
<1> DEFINE end == IF asked = NoMessage THEN "client" ELSE "server"
<1>1. out = Fill(given.class, end, given.values)
  BY DEF IInv, Filled
<1>2. \A k \in DOMAIN given.values : given.values[k] # Torn
  BY NotTorn DEF IInv, Filled
<1> HIDE DEF end
<1>3. CASE n \in DOMAIN given.values \cap Stored(given.class)
  BY <1>1, <1>2, <1>3, FilledMembers
<1>4. CASE n \notin DOMAIN given.values \cap Stored(given.class)
  BY <1>1, <1>4, FilledMembers, NotTorn
<1> QED BY <1>3, <1>4

\* A getter of a request returns what the client's memory had, or its setter.
LEMMA GetterAsks ==
    ASSUME IInv, pc = "read", asked = NoMessage, asked' = given,
           NEW n \in Stored(given.class)
    PROVE  Get(n) = Asked(n)'
<1>1. n \in Names(given.class)
  BY StoredAreMembers
<1>2. Get(n) = out[n]
  BY <1>1, GetterSeesMember
<1>3. /\ out = Fill(given.class, "client", given.values)
      /\ \A k \in DOMAIN given.values : given.values[k] = Client(k)
  BY DEF IInv, Filled
<1>4. out[n] = IF n \in DOMAIN given.values THEN Client(n)
               ELSE IF n \in Optional(given.class) THEN Null ELSE Memory("client")
  <2>1. CASE n \in DOMAIN given.values
    BY <1>1, <1>3, <2>1, FilledMembers
  <2>2. CASE n \notin DOMAIN given.values
    BY <1>1, <1>3, <2>2, FilledMembers
  <2> QED BY <2>1, <2>2
<1>5. Asked(n)' = IF n \in DOMAIN given.values THEN Client(n)
                  ELSE IF n \in Optional(given.class) THEN Null ELSE Memory("client")
  BY DEF Asked
<1> QED BY <1>2, <1>4, <1>5

\* What an answer repeats depends on the id of its class only.
LEMMA EchoById ==
    ASSUME NEW a, NEW b, a.id = b.id
    PROVE  Echo(a) = Echo(b)
BY DEF Echo

\* The pairs of messages that HandledAssumption is about.
Handled(request, answer) ==
    \E c, d \in Classes :
        /\ c.in.id = request.id /\ d.in.id = answer.id
        /\ \A n \in DOMAIN Echo(answer) :
              n \in Stored(d) /\ Echo(answer)[n] \in Stored(c)

LEMMA HandlersAreHandled ==
    /\ Handled(NegotiateMsg, NegotiationResponseMsg)
    /\ Handled(EstablishMsg, EstablishmentAckMsg)
    /\ Handled(NewOrderSingleMsg, ExecutionReportNewMsg)
<1> DEFINE Pairs == {<<NegotiateMsg, NegotiationResponseMsg>>,
                     <<EstablishMsg, EstablishmentAckMsg>>,
                     <<NewOrderSingleMsg, ExecutionReportNewMsg>>}
<1>1. \A pair \in Pairs : Handled(pair[1], pair[2])
  BY HandledAssumption DEF Handled
<1> QED BY <1>1

\* The step of a handler that fills the answer with what the getters return.
LEMMA AnswerStep ==
    ASSUME IInv, pc = "read", asked = NoMessage, asked' = given,
           UNCHANGED <<frame, buffer, view>>,
           NEW request, NEW answer, NEW values,
           Handled(request, answer), Answer(request, answer, values),
           \A n \in DOMAIN values : values[n] # Torn,
           \A n \in DOMAIN Echo(answer) :
               n \in DOMAIN values /\ values[n] = Get(Echo(answer)[n])
    PROVE  IInv'
<1>1. PICK c \in Classes, d \in Classes :
        /\ c.in.id = request.id /\ d.in.id = answer.id
        /\ \A n \in DOMAIN Echo(answer) :
              n \in Stored(d) /\ Echo(answer)[n] \in Stored(c)
  BY DEF Handled
<1>2. /\ given.class \in Classes /\ view.class = given.class
      /\ frame.templateId = given.class.in.id
  BY DEF IInv, Filled, Viewed, Framed
<1>3. given.class = c
  BY <1>1, <1>2, ClassesAssumption DEF Answer
<1>4. ClassOf(answer.id) = d
  BY <1>1, ClassFound
<1>5. /\ pc' = "filled" /\ given' = [class |-> d, values |-> values]
      /\ out' = Fill(d, "server", values)
  BY <1>4 DEF Answer, Construct
<1>6. asked' # NoMessage
  BY <1>3, NoClassIsNone DEF NoMessage
<1>7. Echo(d.in) = Echo(answer)
  BY <1>1, EchoById
<1>8. ASSUME NEW n \in DOMAIN Echo(answer)
      PROVE  /\ n \in DOMAIN values \cap Stored(d)
             /\ values[n] = Asked(Echo(answer)[n])'
  <2>1. n \in DOMAIN values /\ values[n] = Get(Echo(answer)[n])
    OBVIOUS
  <2>2. Echo(answer)[n] \in Stored(given.class) /\ n \in Stored(d)
    BY <1>1, <1>3
  <2>3. \A k \in Stored(given.class) : Get(k) = Asked(k)'
    BY GetterAsks
  <2> QED BY <2>1, <2>2, <2>3
<1>9. Filled'
  BY <1>2, <1>5, <1>6, <1>7, <1>8 DEF Filled
<1>10. Framed'
  BY <1>2, <1>5 DEF Framed
<1>11. Idle' /\ Viewed' /\ BufferGood'
  BY <1>5 DEF IInv, Idle, Viewed, BufferGood
<1> QED BY <1>5, <1>9, <1>10, <1>11 DEF IInv

LEMMA AnswersHaveIds ==
    /\ NegotiationResponseMsg.id = 501 /\ EstablishmentAckMsg.id = 504
    /\ ExecutionReportNewMsg.id = 522
<1>1. NegotiationResponseMsg.id = 501
  BY DEF NegotiationResponseMsg, Message, MessageWithData, InClass
<1>2. EstablishmentAckMsg.id = 504
  BY DEF EstablishmentAckMsg, Message, MessageWithData, InClass
<1>3. ExecutionReportNewMsg.id = 522
  BY DEF ExecutionReportNewMsg, Message, MessageWithData, InClass
<1> QED BY <1>1, <1>2, <1>3

LEMMA EchoOfAnswers ==
    /\ Echo(NegotiationResponseMsg) =
          [UUID |-> "UUID", RequestTimestamp |-> "RequestTimestamp",
           PreviousUUID |-> "UUID"]
    /\ Echo(EstablishmentAckMsg) =
          [UUID |-> "UUID", RequestTimestamp |-> "RequestTimestamp",
           PreviousUUID |-> "UUID", KeepAliveInterval |-> "KeepAliveInterval"]
    /\ Echo(ExecutionReportNewMsg) =
          [PartyDetailsListReqID |-> "PartyDetailsListReqID", Price |-> "Price",
           StopPx |-> "StopPx", OrderRequestID |-> "OrderRequestID",
           SecurityID |-> "SecurityID", OrderQty |-> "OrderQty", MinQty |-> "MinQty"]
BY AnswersHaveIds DEF Echo

\* What a handler may ask of a request whose class has the member.
LEMMA GetterIsWhole ==
    ASSUME IInv, pc = "read", NEW n \in Names(given.class)
    PROVE  Get(n) # Torn
BY GetterSeesMember, MembersAreWhole

\* The members that an answer repeats are members of the request.
LEMMA RepeatedAreMembers ==
    ASSUME IInv, pc = "read", NEW request, NEW answer, Handled(request, answer),
           view.class.in.id = request.id, NEW n \in DOMAIN Echo(answer)
    PROVE  Get(Echo(answer)[n]) # Torn
<1>1. PICK c \in Classes :
        c.in.id = request.id /\ \A k \in DOMAIN Echo(answer) : Echo(answer)[k] \in Stored(c)
  BY DEF Handled
<1>2. given.class \in Classes /\ view.class = given.class
  BY DEF IInv, Filled, Viewed
<1>3. given.class = c
  BY <1>1, <1>2, ClassesAssumption
<1>4. Echo(answer)[n] \in Names(given.class)
  BY <1>1, <1>3, StoredAreMembers
<1> QED BY <1>4, GetterIsWhole

LEMMA OnMessageStep == IInv /\ OnMessage => IInv'
<1> SUFFICES ASSUME IInv, OnMessage PROVE IInv'
  OBVIOUS
<1>1. /\ pc = "read" /\ asked = NoMessage /\ asked' = given
      /\ UNCHANGED <<frame, buffer, view>>
  BY DEF OnMessage
<1>2. \A n : Server(n) # Torn
  BY NotTorn
<1>3. CASE Answer(NegotiateMsg, NegotiationResponseMsg, NegotiationResponseTo)
  <2> DEFINE values == NegotiationResponseTo
             echo == Echo(NegotiationResponseMsg)
  <2>1. \A n \in DOMAIN echo : n \in DOMAIN values /\ values[n] = Get(echo[n])
    BY EchoOfAnswers DEF NegotiationResponseTo
  <2>2. \A n \in DOMAIN echo : Get(echo[n]) # Torn
    BY <1>1, <1>3, RepeatedAreMembers, HandlersAreHandled DEF Answer
  <2>3. Get("UUID") # Torn /\ Get("RequestTimestamp") # Torn
    BY <2>2, EchoOfAnswers
  <2>4. \A n \in DOMAIN values : values[n] # Torn
    BY <1>2, <2>3 DEF NegotiationResponseTo
  <2> HIDE DEF values
  <2> QED BY <1>1, <1>3, <2>1, <2>4, AnswerStep, HandlersAreHandled DEF values
<1>4. CASE Answer(EstablishMsg, EstablishmentAckMsg, EstablishmentAckTo)
  <2> DEFINE values == EstablishmentAckTo
             echo == Echo(EstablishmentAckMsg)
  <2>1. \A n \in DOMAIN echo : n \in DOMAIN values /\ values[n] = Get(echo[n])
    BY EchoOfAnswers DEF EstablishmentAckTo
  <2>2. \A n \in DOMAIN echo : Get(echo[n]) # Torn
    BY <1>1, <1>4, RepeatedAreMembers, HandlersAreHandled DEF Answer
  <2>3. /\ Get("UUID") # Torn /\ Get("RequestTimestamp") # Torn
        /\ Get("KeepAliveInterval") # Torn
    BY <2>2, EchoOfAnswers
  <2>4. \A n \in DOMAIN values : values[n] # Torn
    BY <1>2, <2>3 DEF EstablishmentAckTo
  <2> HIDE DEF values
  <2> QED BY <1>1, <1>4, <2>1, <2>4, AnswerStep, HandlersAreHandled DEF values
<1>5. CASE Answer(NewOrderSingleMsg, ExecutionReportNewMsg, ExecutionReportTo)
  <2> DEFINE values == ExecutionReportTo
             echo == Echo(ExecutionReportNewMsg)
  <2>1. \A n \in DOMAIN echo : n \in DOMAIN values /\ values[n] = Get(echo[n])
    BY EchoOfAnswers DEF ExecutionReportTo, ExecutionReport
  <2>2. \A n \in DOMAIN echo : Get(echo[n]) # Torn
    BY <1>1, <1>5, RepeatedAreMembers, HandlersAreHandled DEF Answer
  <2>3. /\ Get("PartyDetailsListReqID") # Torn /\ Get("Price") # Torn
        /\ Get("StopPx") # Torn /\ Get("OrderRequestID") # Torn
        /\ Get("SecurityID") # Torn /\ Get("OrderQty") # Torn /\ Get("MinQty") # Torn
    BY <2>2, EchoOfAnswers
  <2>4. given.class = ClassOf(NewOrderSingleMsg.id)
    BY <1>1, <1>5, ClassFound DEF Answer, IInv, Filled, Viewed
  <2>5. Get("SenderID") # Torn /\ Get("ClOrdID") # Torn /\ Get("Location") # Torn
    BY <1>1, <2>4, GetterIsWhole, HandledAssumption
  <2>6. \A n \in DOMAIN values : values[n] # Torn
    BY <1>2, <2>3, <2>5 DEF ExecutionReportTo, ExecutionReport
  <2> HIDE DEF values
  <2> QED BY <1>1, <1>5, <2>1, <2>6, AnswerStep, HandlersAreHandled DEF values
<1> QED BY <1>3, <1>4, <1>5 DEF OnMessage

LEMMA StepInvariant == IInv /\ [Next]_vars => IInv'
<1> SUFFICES ASSUME IInv, [Next]_vars PROVE IInv'
  OBVIOUS
<1>1. CASE \E c \in Classes : \E names \in SettersCalled(c) : ClientFills(c, names)
  BY <1>1, ClientFillsStep
<1>2. CASE SendMsg
  BY <1>2, SendMsgStep
<1>3. CASE Read
  BY <1>3, ReadStep
<1>4. CASE OnMessage
  BY <1>4, OnMessageStep
<1>5. CASE Done
  BY <1>5, DoneStep
<1>6. CASE UNCHANGED vars
  BY <1>6 DEF vars, IInv, Idle, Filled, Framed, Viewed, BufferGood, Asked, BlockOf,
              DataBytes
<1> QED BY <1>1, <1>2, <1>3, <1>4, <1>5, <1>6 DEF Next

\* Each step of a message's way makes of it what the step says, for any classes with
\* packed structs: the object, the frame and the view agree all the time.
THEOREM ExchangeInvariance == Spec => []IInv
<1>1. Init => IInv
  BY InitInvariant
<1>2. IInv /\ [Next]_vars => IInv'
  BY StepInvariant
<1> QED BY <1>1, <1>2, PTL DEF Spec

-----------------------------------------------------------------------------
(* The properties *)

LEMMA TypeStep == IInv => TypeOK
<1> SUFFICES ASSUME IInv PROVE TypeOK
  OBVIOUS
<1>1. Torn \notin Range(out)
  <2>1. CASE pc = "idle"
    BY <2>1 DEF IInv, Idle, Range
  <2>2. CASE pc # "idle"
    <3>1. DOMAIN out = Names(given.class)
      BY <2>2, FilledMembers DEF IInv, Filled, Fill
    <3>2. \A n \in DOMAIN out : out[n] # Torn
      BY <2>2, <3>1, MembersAreWhole
    <3> QED BY <3>2 DEF Range
  <2> QED BY <2>1, <2>2
<1>2. {given.class, asked.class} \subseteq Classes \cup {NoClass}
  BY DEF IInv, Idle, Filled, NoMessage
<1>3. frame.templateId \in {0, given.class.in.id, asked.class.in.id}
  BY DEF IInv, Idle, Framed, NoFrame
<1> QED BY <1>1, <1>2, <1>3 DEF TypeOK, IInv, Viewed, BufferGood

\* The types of the exchange: the buffer is never bad and no answer gets bytes that are
\* no member's, however the classes are cut.
THEOREM TypeCorrect == Spec => []TypeOK
BY ExchangeInvariance, TypeStep, PTL

LEMMA ArriveStep == IInv => MembersArrive
<1> SUFFICES ASSUME IInv, pc = "read" PROVE MembersArrive
  BY DEF MembersArrive
<1> DEFINE end == IF asked = NoMessage THEN "client" ELSE "server"
<1>1. view.class = given.class /\ out = Fill(given.class, end, given.values)
  BY DEF IInv, Filled, Viewed
<1> HIDE DEF end
<1>2. ASSUME NEW n \in Names(view.class)
      PROVE  /\ Get(n) # Torn
             /\ n \in DOMAIN given.values /\ n \in Stored(view.class) =>
                    Get(n) = given.values[n]
             /\ n \notin DOMAIN given.values /\ n \in Optional(view.class) =>
                    Get(n) = Null
  <2>1. n \in Names(given.class) /\ Get(n) = out[n]
    BY <1>1, <1>2, GetterSeesMember
  <2>2. Get(n) # Torn
    BY <2>1, GetterIsWhole
  <2>3. n \in DOMAIN given.values /\ n \in Stored(view.class) => Get(n) = given.values[n]
    BY <1>1, <2>1, FilledMembers
  <2>4. n \notin DOMAIN given.values /\ n \in Optional(view.class) => Get(n) = Null
    BY <1>1, <2>1, FilledMembers
  <2> QED BY <2>2, <2>3, <2>4
<1> QED BY <1>1, <1>2 DEF MembersArrive

\* Whatever the classes, a getter returns what the setter of its member was given, and
\* Null for an optional member that was left alone.
THEOREM MembersAlwaysArrive == Spec => []MembersArrive
BY ExchangeInvariance, ArriveStep, PTL

LEMMA EchoStep == IInv => AnswersEcho
<1> SUFFICES ASSUME IInv, pc = "read", asked # NoMessage PROVE AnswersEcho
  BY DEF AnswersEcho
<1> DEFINE echo == Echo(given.class.in)
<1>1. /\ view.class = given.class
      /\ out = Fill(given.class, "server", given.values)
      /\ \A n \in DOMAIN echo : /\ n \in DOMAIN given.values \cap Stored(given.class)
                                /\ given.values[n] = Asked(echo[n])
  BY DEF IInv, Filled, Viewed
<1> HIDE DEF echo
<1>2. ASSUME NEW n \in DOMAIN echo
      PROVE  Get(n) = Asked(echo[n])
  <2>1. n \in Names(given.class)
    BY <1>1, StoredAreMembers
  <2>2. Get(n) = out[n]
    BY <2>1, GetterSeesMember
  <2>3. out[n] = given.values[n]
    BY <1>1, <2>1, FilledMembers
  <2> QED BY <1>1, <2>2, <2>3
<1>3. Echo(view.class.in) = echo
  BY <1>1 DEF echo
<1> QED BY <1>2, <1>3 DEF AnswersEcho, Asked

\* For any classes that have the members of the handlers, the client that reads an
\* answer finds what it put into the request, its own memory and Nulls included.
THEOREM AnswersAlwaysEcho == Spec => []AnswersEcho
BY ExchangeInvariance, EchoStep, PTL
=============================================================================
