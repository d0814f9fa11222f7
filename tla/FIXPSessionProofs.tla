-------------------------- MODULE FIXPSessionProofs --------------------------
(***************************************************************************)
(* FIXPConnection implements FIXPSession: what the connection keeps in its *)
(* counter, its UUID and the message being written is what FIXPSession     *)
(* reads off the messages handled so far, and every step is a step of the  *)
(* session or none.                                                        *)
(***************************************************************************)
EXTENDS FIXPConnectionProofs

\* The session's state is a function of the messages that were handled.
StateFromLog ==
    /\ nextSeqNo = Cardinality(Session!OrdersAt(Len(handled))) + 1
    /\ uuid \in Session!ReportUUIDs(Len(handled))

\* What is being written is the answer to the last of them.
ReplyFromLog == Sending => reply \in Session!AnswersTo(Len(handled))

LogInv == StateFromLog /\ ReplyFromLog

-----------------------------------------------------------------------------
(* The log *)

\* Only the log counts.
LEMMA SameLog ==
    ASSUME handled' = handled
    PROVE  \A k : /\ Session!OrdersAt(k)' = Session!OrdersAt(k)
                  /\ Session!ReportUUIDs(k)' = Session!ReportUUIDs(k)
                  /\ Session!AnswersTo(k)' = Session!AnswersTo(k)
<1> TAKE k
<1>1. /\ Session!OrdersAt(k)' = Session!OrdersAt(k)
      /\ Session!InForceAt(k)' = Session!InForceAt(k)
  BY DEF Session!OrdersAt, Session!InForceAt
<1>2. Session!ReportUUIDs(k)' = Session!ReportUUIDs(k)
  BY <1>1 DEF Session!ReportUUIDs
<1>3. Session!AnswersTo(k)' = Session!AnswersTo(k)
  BY <1>1, <1>2 DEF Session!AnswersTo
<1> QED BY <1>1, <1>2, <1>3

\* A set that may have gained one element.
LEMMA OneMore ==
    ASSUME NEW S, NEW x, x \notin S, NEW A, A \subseteq S \cup {x}, NEW B, B \subseteq S,
           \A i \in S : i \in A <=> i \in B
    PROVE  A = IF x \in A THEN B \cup {x} ELSE B
<1>1. CASE x \in A
  BY <1>1
<1>2. CASE x \notin A
  BY <1>2
<1> QED BY <1>1, <1>2

\* One more message: an Establish starts anew, an order counts.
LEMMA LongerLog ==
    ASSUME NEW n \in Nat, NEW h, handled \in Seq(Receipts), h \in Receipts,
           n = Len(handled), handled' = Append(handled, h)
    PROVE  /\ Session!OrdersAt(n + 1)' = IF h.template = "Establish" THEN {}
                 ELSE IF h.template = "NewOrderSingle"
                      THEN Session!OrdersAt(n) \cup {n + 1}
                      ELSE Session!OrdersAt(n)
           /\ Session!ReportUUIDs(n + 1)' = IF h.template = "Establish" THEN {h.uuid}
                                            ELSE Session!ReportUUIDs(n)
<1>1. /\ Len(handled') = n + 1 /\ handled'[n + 1] = h
      /\ \A i \in 1..n : handled'[i] = handled[i]
  OBVIOUS
<1> DEFINE Later(i) == \A e \in i..n : handled[e].template # "Establish"
           After(i) == \A e \in i + 1..n : handled[e].template # "Establish"
<1>2. ASSUME NEW i \in 1..n
      PROVE  /\ (\A e \in i..n + 1 : handled'[e].template # "Establish")
                   <=> Later(i) /\ h.template # "Establish"
             /\ (\A e \in i + 1..n + 1 : handled'[e].template # "Establish")
                   <=> After(i) /\ h.template # "Establish"
  <2>1. /\ i..n + 1 = (i..n) \cup {n + 1} /\ i + 1..n + 1 = (i + 1..n) \cup {n + 1}
        /\ i..n \subseteq 1..n /\ i + 1..n \subseteq 1..n
    OBVIOUS
  <2> QED BY <1>1, <2>1
<1>3. 1..n + 1 = (1..n) \cup {n + 1} /\ n + 1 \notin 1..n /\ n + 1 + 1..n + 1 = {}
      /\ n + 1..n + 1 = {n + 1}
  OBVIOUS
<1>4. Session!OrdersAt(n + 1)' = {i \in 1..n + 1 : /\ handled'[i].template = "NewOrderSingle"
                 /\ \A e \in i..n + 1 : handled'[e].template # "Establish"}
  BY DEF Session!OrdersAt
<1>5. Session!OrdersAt(n) = {i \in 1..n : handled[i].template = "NewOrderSingle" /\ Later(i)}
  BY DEF Session!OrdersAt
<1>6. Session!InForceAt(n + 1)' = {i \in 1..n + 1 : /\ handled'[i].template = "Establish"
                 /\ \A e \in i + 1..n + 1 : handled'[e].template # "Establish"}
  BY DEF Session!InForceAt
<1>7. Session!InForceAt(n) = {i \in 1..n : handled[i].template = "Establish" /\ After(i)}
  BY DEF Session!InForceAt
<1>8. Session!InForceAt(n) \subseteq 1..n
  BY <1>7
<1> HIDE DEF Later, After
<1>9. CASE h.template = "Establish"
  <2>1. Session!OrdersAt(n + 1)' = {}
    <3>1. ASSUME NEW i \in 1..n + 1
          PROVE  ~ \A e \in i..n + 1 : handled'[e].template # "Establish"
      <4>1. CASE i \in 1..n
        BY <1>2, <1>9, <4>1
      <4>2. CASE i = n + 1
        BY <1>1, <1>3, <1>9, <4>2
      <4> QED BY <1>3, <4>1, <4>2
    <3> QED BY <1>4, <3>1
  <2>2. Session!InForceAt(n + 1)' = {n + 1}
    BY <1>1, <1>2, <1>3, <1>6, <1>9
  <2>3. Session!ReportUUIDs(n + 1)' = {handled'[n + 1].uuid}
    BY <2>2 DEF Session!ReportUUIDs
  <2> QED BY <1>1, <1>9, <2>1, <2>3
<1>10. CASE h.template # "Establish"
  <2>1. Session!OrdersAt(n + 1)' = IF h.template = "NewOrderSingle"
                                   THEN Session!OrdersAt(n) \cup {n + 1}
                                   ELSE Session!OrdersAt(n)
    <3>1. ASSUME NEW i \in 1..n
          PROVE  i \in Session!OrdersAt(n + 1)' <=> i \in Session!OrdersAt(n)
      BY <1>1, <1>2, <1>3, <1>4, <1>5, <1>10, <3>1
    <3>2. n + 1 \in Session!OrdersAt(n + 1)' <=> h.template = "NewOrderSingle"
      BY <1>1, <1>3, <1>4, <1>10
    <3>3. /\ Session!OrdersAt(n + 1)' \subseteq (1..n) \cup {n + 1}
          /\ Session!OrdersAt(n) \subseteq 1..n
      BY <1>3, <1>4, <1>5
    <3> DEFINE A == Session!OrdersAt(n + 1)'
               B == Session!OrdersAt(n)
    <3> HIDE DEF A, B
    <3>4. \A i \in 1..n : i \in A <=> i \in B
      BY <3>1 DEF A, B
    <3>5. A \subseteq (1..n) \cup {n + 1} /\ B \subseteq 1..n
      BY <3>3 DEF A, B
    <3> DEFINE S == 1..n
               x == n + 1
    <3> HIDE DEF S, x
    <3>6. /\ A \subseteq S \cup {x} /\ B \subseteq S /\ x \notin S
          /\ \A i \in S : i \in A <=> i \in B
      BY <1>3, <3>4, <3>5 DEF S, x
    <3>7. A = IF x \in A THEN B \cup {x} ELSE B
      BY <3>6, OneMore
    <3> QED BY <3>2, <3>7 DEF A, B, x
  <2>2. Session!InForceAt(n + 1)' = Session!InForceAt(n)
    BY <1>1, <1>2, <1>3, <1>6, <1>7, <1>10
  <2>3. {handled'[i].uuid : i \in Session!InForceAt(n)}
           = {handled[i].uuid : i \in Session!InForceAt(n)}
    BY <1>1, <1>8
  <2>4. Session!ReportUUIDs(n + 1)' = Session!ReportUUIDs(n)
    BY <2>2, <2>3 DEF Session!ReportUUIDs
  <2> QED BY <1>10, <2>1, <2>4
<1> QED BY <1>9, <1>10

\* There are finitely many orders at any time.
LEMMA CountableOrders ==
    ASSUME NEW n \in Nat
    PROVE  /\ IsFiniteSet(Session!OrdersAt(n)) /\ Session!OrdersAt(n) \subseteq 1..n
           /\ Cardinality(Session!OrdersAt(n)) \in Nat
<1>1. Session!OrdersAt(n) \subseteq 1..n
  BY DEF Session!OrdersAt
<1>2. IsFiniteSet(1..n)
  BY FS_Interval
<1> QED BY <1>1, <1>2, FS_Subset, FS_CardinalityType

-----------------------------------------------------------------------------
(* The state follows from the log *)

LEMMA InitLog == Init => LogInv
<1> SUFFICES ASSUME Init PROVE LogInv
  OBVIOUS
<1>1. /\ handled = << >> /\ Len(handled) = 0 /\ nextSeqNo = 1 /\ uuid \in Junk
      /\ pc = "header"
  BY DEF Init
<1>2. Session!OrdersAt(0) = {} /\ Session!InForceAt(0) = {}
  BY DEF Session!OrdersAt, Session!InForceAt
<1>3. Cardinality(Session!OrdersAt(0)) = 0
  BY <1>2, FS_EmptySet
<1>4. Session!ReportUUIDs(0) = Junk
  BY <1>2 DEF Session!ReportUUIDs
<1> QED BY <1>1, <1>3, <1>4 DEF LogInv, StateFromLog, ReplyFromLog, Sending

\* A step that handles no message.
LEMMA SilentKeepsLog ==
    ASSUME LogInv, UNCHANGED <<handled, session>>,
           Sending' => Sending /\ reply' = reply
    PROVE  LogInv'
<1>1. Session!OrdersAt(Len(handled))' = Session!OrdersAt(Len(handled))
  <2>1. \A k : Session!OrdersAt(k)' = Session!OrdersAt(k)
    BY SameLog
  <2> QED BY <2>1 DEF Session!OrdersAt
<1>2. /\ Session!ReportUUIDs(Len(handled))' = Session!ReportUUIDs(Len(handled))
      /\ Session!AnswersTo(Len(handled))' = Session!AnswersTo(Len(handled))
  BY DEF Session!ReportUUIDs, Session!AnswersTo, Session!InForceAt, Session!OrdersAt
<1> QED BY <1>1, <1>2 DEF LogInv, StateFromLog, ReplyFromLog, session

\* The message that a handler is given, as it gets into the log.
LEMMA Logged ==
    ASSUME IInv, NEW t \in Handled, Receive(t)
    PROVE  LET n == Len(handled)
               h == [template |-> t, request |-> taken, uuid |-> frame.uuid]
           IN  /\ n \in Nat /\ h \in Receipts /\ handled \in Seq(Receipts)
               /\ handled' = Append(handled, h) /\ Len(handled') = n + 1
               /\ handled'[n + 1] = h
<1>1. Serving /\ pc = "dispatch"
  BY DEF Receive, Serving
<1>2. taken \in Nat /\ frame.uuid \in UUIDs /\ handled \in Seq(Receipts)
  BY <1>1, ServedFrame DEF IInv, TypeOK
<1>3. [template |-> t, request |-> taken, uuid |-> frame.uuid] \in Receipts
  BY <1>2 DEF Receipts
<1> QED BY <1>2, <1>3 DEF Receive

\* The counter counts the orders of the log, the UUID is that of its last Establish.
LEMMA HandledKeepsState ==
    ASSUME IInv, LogInv, NEW t \in Handled, Receive(t), Counts(t)
    PROVE  StateFromLog'
<1> DEFINE h == [template |-> t, request |-> taken, uuid |-> frame.uuid]
<1>1. PICK n \in Nat : n = Len(handled)
  BY Logged
<1>2. /\ h \in Receipts /\ handled \in Seq(Receipts) /\ handled' = Append(handled, h)
      /\ Len(handled') = n + 1
  BY <1>1, Logged
<1>3. h.template = t /\ h.uuid = frame.uuid
  OBVIOUS
<1> HIDE DEF h
<1>4. /\ Session!OrdersAt(n + 1)' = IF t = "Establish" THEN {}
             ELSE IF t = "NewOrderSingle" THEN Session!OrdersAt(n) \cup {n + 1}
             ELSE Session!OrdersAt(n)
      /\ Session!ReportUUIDs(n + 1)' = IF t = "Establish" THEN {frame.uuid}
                                       ELSE Session!ReportUUIDs(n)
  BY <1>1, <1>2, <1>3, LongerLog
<1>5. /\ nextSeqNo = Cardinality(Session!OrdersAt(n)) + 1
      /\ uuid \in Session!ReportUUIDs(n)
  BY <1>1 DEF LogInv, StateFromLog
<1>6. uuid' \in Session!ReportUUIDs(n + 1)'
  BY <1>4, <1>5 DEF Counts
<1>7. nextSeqNo' = Cardinality(Session!OrdersAt(n + 1)') + 1
  <2>1. CASE t = "Establish"
    BY <1>4, <2>1, FS_EmptySet DEF Counts
  <2>2. CASE t = "NewOrderSingle"
    <3> DEFINE B == Session!OrdersAt(n)
    <3>1. IsFiniteSet(B) /\ n + 1 \notin B /\ Cardinality(B) \in Nat
      BY CountableOrders
    <3>2. nextSeqNo' = nextSeqNo + 1 /\ nextSeqNo = Cardinality(B) + 1
      BY <1>5, <2>2 DEF Counts
    <3>3. Session!OrdersAt(n + 1)' = B \cup {n + 1}
      BY <1>4, <2>2
    <3> HIDE DEF B
    <3>4. Cardinality(B \cup {n + 1}) = Cardinality(B) + 1
      BY <3>1, FS_AddElement
    <3> QED BY <3>1, <3>2, <3>3, <3>4
  <2>3. CASE t # "Establish" /\ t # "NewOrderSingle"
    BY <1>4, <1>5, <2>3 DEF Counts
  <2> QED BY <2>1, <2>2, <2>3
<1>8. /\ (Session!OrdersAt(Len(handled)))' = Session!OrdersAt(n + 1)'
      /\ (Session!ReportUUIDs(Len(handled)))' = Session!ReportUUIDs(n + 1)'
  BY <1>2 DEF Session!OrdersAt, Session!ReportUUIDs, Session!InForceAt
<1> QED BY <1>6, <1>7, <1>8 DEF StateFromLog

\* The session counts as the connection does.
LEMMA SameCardinality == \A S : Session!Cardinality(S) = Cardinality(S)
BY Zenon DEF Session!Cardinality, Cardinality

\* What the log then promises as the answer.
LEMMA Promised ==
    ASSUME IInv, NEW t \in Handled, Receive(t)
    PROVE  /\ t = "Negotiate" =>
                (Session!AnswersTo(Len(handled)))' =
                  {[template |-> "NegotiationResponse", request |-> taken,
                    uuid |-> frame.uuid, previousSeqNo |-> 1, previousUuid |-> frame.uuid]}
           /\ t = "Establish" =>
                (Session!AnswersTo(Len(handled)))' =
                  {[template |-> "EstablishmentAck", request |-> taken,
                    uuid |-> frame.uuid, nextSeqNo |-> 1, previousSeqNo |-> 1,
                    previousUuid |-> frame.uuid]}
           /\ t = "NewOrderSingle" =>
                (Session!AnswersTo(Len(handled)))' =
                  {[template |-> "ExecutionReportNew", request |-> taken, uuid |-> id,
                    seqNum |-> (Session!Cardinality(Session!OrdersAt(Len(handled))))'
                                    % SeqNumRange,
                    clOrdID |-> text] :
                        id \in (Session!ReportUUIDs(Len(handled)))', text \in Junk}
<1>1. /\ handled'[Len(handled')].template = t /\ handled'[Len(handled')].request = taken
      /\ handled'[Len(handled')].uuid = frame.uuid
  <2> DEFINE h == [template |-> t, request |-> taken, uuid |-> frame.uuid]
  <2>1. PICK n \in Nat : n = Len(handled)
    BY Logged
  <2>2. Len(handled') = n + 1 /\ handled'[n + 1] = h
    BY <2>1, Logged
  <2> QED BY <2>2
<1>2. CASE t = "Negotiate"
  BY <1>1, <1>2 DEF Session!AnswersTo
<1>3. CASE t = "Establish"
  BY <1>1, <1>3 DEF Session!AnswersTo
<1>4. CASE t = "NewOrderSingle"
  BY <1>1, <1>4 DEF Session!AnswersTo
<1>5. CASE t \notin {"Negotiate", "Establish", "NewOrderSingle"}
  BY <1>5
<1> QED BY <1>2, <1>3, <1>4, <1>5

\* Each handler fills its answer with what the log promises.
LEMMA HandlersKeepPromises ==
    ASSUME IInv, LogInv,
           OnNegotiate \/ OnEstablish \/ OnSequenceOrRetransmitRequest \/ OnNewOrderSingle
    PROVE  LogInv'
<1> USE BlockSizes
<1>1. PICK t \in Handled : Receive(t) /\ Answers(t) /\ Counts(t)
  BY HandlerEffect
<1>2. StateFromLog'
  BY <1>1, HandledKeepsState
<1>3. /\ pc = "dispatch" /\ Serving /\ taken \in Nat /\ frame.uuid \in UUIDs
      /\ uuid \in UUIDs \cup Junk /\ nextSeqNo \in Nat
  <2>1. pc = "dispatch" /\ Serving
    BY <1>1 DEF Receive, Serving
  <2> QED BY <2>1, ServedFrame DEF IInv, TypeOK
<1>4. CASE OnNegotiate
  <2> DEFINE m == [template |-> "NegotiationResponse", request |-> taken,
                   uuid |-> frame.uuid, previousSeqNo |-> 1, previousUuid |-> frame.uuid]
  <2>1. m \in Messages
    BY <1>3 DEF Messages
  <2>2. SendMsg(m) /\ Receive("Negotiate")
    BY <1>4 DEF OnNegotiate
  <2>3. m \in (Session!AnswersTo(Len(handled)))'
    BY <2>2, Promised
  <2> HIDE DEF m
  <2>4. (pc' = "sendHeader" /\ reply' = m) \/ pc' \in {"header", "killed"}
    BY <2>1, <2>2, Sends
  <2> QED BY <1>2, <2>3, <2>4 DEF LogInv, ReplyFromLog, Sending
<1>5. CASE OnEstablish
  <2> DEFINE m == [template |-> "EstablishmentAck", request |-> taken,
                   uuid |-> frame.uuid, nextSeqNo |-> 1, previousSeqNo |-> 1,
                   previousUuid |-> frame.uuid]
  <2>1. m \in Messages
    BY <1>3 DEF Messages
  <2>2. SendMsg(m) /\ Receive("Establish")
    BY <1>5 DEF OnEstablish
  <2>3. m \in (Session!AnswersTo(Len(handled)))'
    BY <2>2, Promised
  <2> HIDE DEF m
  <2>4. (pc' = "sendHeader" /\ reply' = m) \/ pc' \in {"header", "killed"}
    BY <2>1, <2>2, Sends
  <2> QED BY <1>2, <2>3, <2>4 DEF LogInv, ReplyFromLog, Sending
<1>6. CASE OnSequenceOrRetransmitRequest
  BY <1>2, <1>6 DEF OnSequenceOrRetransmitRequest, LogInv, ReplyFromLog, Sending
<1>7. CASE OnNewOrderSingle
  <2>1. PICK junk \in Junk :
           SendMsg([template |-> "ExecutionReportNew", request |-> taken, uuid |-> uuid,
                    seqNum |-> nextSeqNo % SeqNumRange, clOrdID |-> junk])
    BY <1>7 DEF OnNewOrderSingle
  <2> DEFINE m == [template |-> "ExecutionReportNew", request |-> taken, uuid |-> uuid,
                   seqNum |-> nextSeqNo % SeqNumRange, clOrdID |-> junk]
             orders == (Cardinality(Session!OrdersAt(Len(handled))))'
  <2>2. nextSeqNo % SeqNumRange \in 0..(SeqNumRange - 1)
    BY <1>3, FramesAssumption
  <2>3. m \in Messages
    BY <1>3, <2>2 DEF Messages
  <2>4. SendMsg(m) /\ Receive("NewOrderSingle") /\ uuid' = uuid /\ nextSeqNo' = nextSeqNo + 1
    BY <1>7, <2>1 DEF OnNewOrderSingle
  <2>5. orders = nextSeqNo
    <3>1. nextSeqNo + 1 = orders + 1
      BY <1>2, <2>4 DEF StateFromLog
    <3>2. PICK k \in Nat : k = Len(handled')
      BY <2>4, Logged
    <3>3. orders = (Cardinality(Session!OrdersAt(k)))'
      BY <3>2 DEF Session!OrdersAt
    <3>4. (Cardinality(Session!OrdersAt(k)))' \in Nat
      <4>1. Session!OrdersAt(k)' \subseteq 1..k
        BY DEF Session!OrdersAt
      <4> DEFINE A == Session!OrdersAt(k)'
      <4> HIDE DEF A
      <4>2. A \subseteq 1..k
        BY <4>1 DEF A
      <4>3. IsFiniteSet(1..k)
        BY FS_Interval
      <4>4. Cardinality(A) \in Nat
        BY <4>2, <4>3, FS_Subset, FS_CardinalityType
      <4> QED BY <4>4 DEF A
    <3> HIDE DEF orders
    <3> QED BY <1>3, <3>1, <3>3, <3>4
  <2>6. uuid \in (Session!ReportUUIDs(Len(handled)))'
    BY <1>2, <2>4 DEF StateFromLog
  <2>7. m \in (Session!AnswersTo(Len(handled)))'
    <3>1. (Session!Cardinality(Session!OrdersAt(Len(handled))))' = orders
      <4>1. (Session!Cardinality(Session!OrdersAt(Len(handled))))'
               = Session!Cardinality(Session!OrdersAt(Len(handled))')
        BY DEF Session!Cardinality
      <4> QED BY <4>1, SameCardinality
    <3> HIDE DEF orders
    <3> QED BY <2>4, <2>5, <2>6, <3>1, Promised
  <2> HIDE DEF m
  <2>8. (pc' = "sendHeader" /\ reply' = m) \/ pc' \in {"header", "killed"}
    BY <2>3, <2>4, Sends
  <2> QED BY <1>2, <2>7, <2>8 DEF LogInv, ReplyFromLog, Sending
<1> QED BY <1>4, <1>5, <1>6, <1>7

\* A step without a handler.
Silent ==
    \/ Client \/ UNCHANGED vars
    \/ ReadHeader \/ ReadHeaderFails \/ ReadBody \/ ReadBodyFails
    \/ Discard \/ DispatchNull \/ SendHeader \/ SendBody \/ WriteFails

LEMMA NextKeepsLog ==
    ASSUME IInv, LogInv, [Next]_vars
    PROVE  LogInv'
<1>1. CASE OnNegotiate \/ OnEstablish \/ OnSequenceOrRetransmitRequest \/ OnNewOrderSingle
  BY <1>1, HandlersKeepPromises
<1>2. CASE Silent
  <2>1. CASE Client \/ UNCHANGED vars
    <3>1. UNCHANGED <<handled, session, pc, reply>>
      BY <2>1 DEF Client, Send, HalfClose, LinkDown, vars
    <3> QED BY <3>1, SilentKeepsLog DEF Sending
  <2>2. CASE ReadHeader \/ ReadHeaderFails \/ ReadBody \/ ReadBodyFails \/ Discard
             \/ DispatchNull
    <3>1. /\ UNCHANGED <<handled, session>>
          /\ pc' \in {"body", "dispatch", "header", "ended", "killed"}
      BY <2>2 DEF ReadHeader, ReadHeaderFails, ReadBody, ReadBodyFails, Discard,
                  DispatchNull, Ended
    <3> QED BY <3>1, SilentKeepsLog DEF Sending
  <2>3. CASE SendHeader
    BY <2>3, SilentKeepsLog DEF SendHeader, Sending
  <2>4. CASE SendBody \/ WriteFails
    <3>1. UNCHANGED <<handled, session>> /\ pc' \in {"header", "killed"}
      BY <2>4 DEF SendBody, WriteFails
    <3> QED BY <3>1, SilentKeepsLog DEF Sending
  <2> QED BY <1>2, <2>1, <2>2, <2>3, <2>4 DEF Silent
<1> QED BY <1>1, <1>2 DEF Next, Serve, Silent

\* The counter, the UUID and the message being written hold nothing that the messages
\* handled so far do not say: onMessage's state is a function of its calls.
THEOREM StateFollowsFromLog == Spec => []LogInv
BY InitLog, NextKeepsLog, ConnectionInvariant, PTL DEF Spec

-----------------------------------------------------------------------------
(* The answers given *)

\* A write that finishes a message gives the client an answer, no other one does.
LEMMA Written ==
    ASSUME IInv, NEW x \in WireParts, wire' = Append(wire, x)
    PROVE  Given' = IF x.part = "body" THEN Given \cup {x.message} ELSE Given
<1>1. PICK n \in Nat : n = Len(wire)
  BY DEF IInv, TypeOK
<1>2. /\ Len(wire') = n + 1 /\ wire'[n + 1] = x
      /\ \A i \in 1..n : wire'[i] = wire[i]
  BY <1>1 DEF IInv, TypeOK
<1>3. Bodies \subseteq 1..n /\ \A i \in Bodies : (Answer(i))' = Answer(i)
  BY <1>1, <1>2 DEF Bodies, Positions, Answer
<1>4. Bodies' = IF x.part = "body" THEN Bodies \cup {n + 1} ELSE Bodies
  <2>1. 1..n + 1 = (1..n) \cup {n + 1} /\ n + 1 \notin 1..n
    OBVIOUS
  <2>2. /\ Bodies' = {i \in 1..n + 1 : wire'[i].part = "body"}
        /\ Bodies = {i \in 1..n : wire[i].part = "body"}
    BY <1>1, <1>2 DEF Bodies, Positions
  <2> QED BY <1>2, <2>1, <2>2
<1>5. (Answer(n + 1))' = x.message
  BY <1>2 DEF Answer
<1>6. Given' = {(Answer(i))' : i \in Bodies'} /\ Given = {Answer(i) : i \in Bodies}
  BY DEF Given
<1>7. CASE x.part = "body"
  BY <1>3, <1>4, <1>5, <1>6, <1>7
<1>8. CASE x.part # "body"
  BY <1>3, <1>4, <1>6, <1>8
<1> QED BY <1>7, <1>8

LEMMA NothingWritten ==
    ASSUME wire' = wire
    PROVE  Given' = Given
BY DEF Given, Bodies, Positions, Answer

-----------------------------------------------------------------------------
(* Each step of the connection is one of the session's, or none *)

LEMMA InitSession == Init => Session!Init
<1> SUFFICES ASSUME Init PROVE Session!Init
  OBVIOUS
<1>1. taken = 0 /\ handled = << >> /\ pc = "header" /\ wire = << >> /\ link = "up"
  BY DEF Init
<1>2. Bodies = {}
  BY <1>1 DEF Bodies, Positions
<1>3. Given = {}
  BY <1>2 DEF Given
<1> QED BY <1>1, <1>3 DEF Session!Init

\* A step that takes nothing, handles nothing, gives nothing and goes on.
LEMMA Stutters ==
    ASSUME UNCHANGED <<taken, handled>>, Given' = Given, link' = "down" <=> link = "down",
           pc \notin {"ended", "killed"} <=> pc' \notin {"ended", "killed"}
    PROVE  UNCHANGED Session!vars
BY DEF Session!vars

\* The loop is left, and nothing else happens.
LEMMA Ends ==
    ASSUME UNCHANGED <<taken, handled, link>>, Given' = Given,
           pc \notin {"ended", "killed"}, pc' \in {"ended", "killed"}
    PROVE  Session!End
BY DEF Session!End

\* Before the next message is taken, every message that asks for an answer has it,
\* unless the client cannot be written to.
LEMMA Takes ==
    ASSUME IInv, pc = "header", taken' = taken + 1, UNCHANGED <<handled, wire, link>>
    PROVE  Session!Take
<1>1. link # "down" /\ ~MemoryFails => \A k \in 1..Len(handled) :
          handled[k].template \in Session!Asking => Session!Answered(handled[k].request)
  <2> SUFFICES ASSUME link # "down", ~MemoryFails, NEW k \in 1..Len(handled),
                      handled[k].template \in Session!Asking
               PROVE  Session!Answered(handled[k].request)
    OBVIOUS
  <2>1. handled[k].template \in DOMAIN ReplyTo
    BY Replies DEF Session!Asking
  <2>2. PICK j \in Bodies : Answer(j).request = handled[k].request
    BY <2>1 DEF IInv, AnswersInv, Positions, Sending
  <2>3. Answer(j) \in Given
    BY <2>2 DEF Given
  <2> QED BY <2>2, <2>3 DEF Session!Answered
<1>2. Given' = Given
  BY NothingWritten
<1> QED BY <1>1, <1>2 DEF Session!Take

LEMMA ReadingIsSession ==
    ASSUME IInv,
           ReadHeader \/ ReadHeaderFails \/ ReadBody \/ ReadBodyFails \/ Discard
           \/ DispatchNull \/ (\E f \in Frames : Send(f)) \/ HalfClose \/ UNCHANGED vars
    PROVE  [Session!Next]_(Session!vars)
<1>1. handled' = handled /\ wire' = wire /\ (link' = "down" <=> link = "down")
  BY DEF ReadHeader, ReadHeaderFails, ReadBody, ReadBodyFails, Discard, DispatchNull,
         Ended, client, Send, HalfClose, vars
<1>2. Given' = Given
  BY <1>1, NothingWritten
<1>3. CASE ReadHeader
  BY <1>1, <1>3, Takes DEF ReadHeader, Ended, client, Session!Next
<1>4. CASE ReadHeaderFails
  <2>1. CASE taken' = taken
    BY <1>1, <1>2, <1>4, <2>1, Ends DEF ReadHeaderFails, Ended, client, Session!Next
  <2>2. CASE taken' # taken
    BY <1>1, <1>4, <2>2, Takes DEF ReadHeaderFails, Ended, client, Session!Next
  <2> QED BY <2>1, <2>2
<1>5. CASE ReadBodyFails \/ DispatchNull
  BY <1>1, <1>2, <1>5, Ends DEF ReadBodyFails, DispatchNull, Ended, client, Session!Next
<1>6. CASE ReadBody \/ Discard
  BY <1>1, <1>2, <1>6, Stutters DEF ReadBody, Discard
<1>7. CASE (\E f \in Frames : Send(f)) \/ HalfClose \/ UNCHANGED vars
  <2>1. UNCHANGED <<taken, pc>>
    BY <1>7 DEF Send, HalfClose, vars
  <2> QED BY <1>1, <1>2, <2>1, Stutters
<1> QED BY <1>3, <1>4, <1>5, <1>6, <1>7

\* A reset loses the client; what it cuts short on the wire was no answer.
LEMMA LinkDownIsSession ==
    ASSUME IInv, LinkDown
    PROVE  Session!Next
<1> DEFINE x == [part |-> "torn"]
<1>1. x \in WireParts /\ x.part = "torn"
  BY DEF WireParts
<1>2. /\ link # "down" /\ link' = "down" /\ UNCHANGED <<taken, handled, pc>>
      /\ wire' \in {wire, Append(wire, x)}
  BY DEF LinkDown
<1> HIDE DEF x
<1>3. Given' = Given
  BY <1>1, <1>2, Written, NothingWritten
<1> QED BY <1>2, <1>3 DEF Session!Next, Session!Lose

\* A handler is given the message taken last, which it was not given before, and
\* goes on unless the process dies for want of memory.
LEMMA HandlersAreSession ==
    ASSUME IInv,
           OnNegotiate \/ OnEstablish \/ OnSequenceOrRetransmitRequest \/ OnNewOrderSingle
    PROVE  Session!Next
<1>1. PICK t \in Handled : Receive(t) /\ Answers(t)
  BY HandlerEffect
<1>2. /\ pc = "dispatch" /\ Serving /\ taken' = taken /\ wire' = wire /\ link' = link
      /\ handled' = Append(handled,
                    [template |-> t, request |-> taken, uuid |-> frame.uuid])
  BY <1>1 DEF Receive, Serving, client
<1>3. /\ taken # 0 /\ frame.uuid \in UUIDs
      /\ \A k \in 1..Len(handled) : handled[k].request # taken
  <2>1. frame.uuid \in UUIDs /\ taken \in 1..Len(sent)
    BY <1>2, ServedFrame DEF IInv
  <2>2. \A k \in 1..Len(handled) : handled[k].request < taken /\ handled[k].request \in Nat
    BY <1>2 DEF IInv, HandledInv, Positions
  <2> QED BY <2>1, <2>2
<1>4. t \in Session!Kinds
  BY BlockSizes DEF Session!Kinds, Session!Asking
<1>5. (pc' \notin {"ended", "killed"}) \in {TRUE, ~MemoryFails}
  <2>1. MemoryFails \in BOOLEAN
    BY FramesAssumption
  <2>2. pc' \in {"header", "sendHeader"} \/ (MemoryFails /\ pc' = "killed")
    BY <1>1 DEF Answers
  <2> QED BY <2>1, <2>2
<1>6. Given' = Given
  BY <1>2, NothingWritten
<1>7. Session!Handle(t, frame.uuid)
  BY <1>2, <1>3, <1>5, <1>6 DEF Session!Handle
<1> QED BY <1>3, <1>4, <1>7 DEF Session!Next

\* The header gives the client nothing yet, the body the whole answer, a failed write
\* nothing.
LEMMA WritingIsSession ==
    ASSUME IInv, LogInv, SendHeader \/ SendBody \/ WriteFails
    PROVE  [Session!Next]_(Session!vars)
<1>1. /\ Sending /\ UNCHANGED <<taken, handled, link>>
      /\ pc \notin {"ended", "killed"}
  BY DEF SendHeader, SendBody, WriteFails, Sending, client
<1>2. PICK m \in Messages : m = reply
  BY <1>1, BeingSent
<1>3. CASE SendHeader
  <2> DEFINE x == [part |-> "header", message |-> m,
                   msgSize |-> LeftToRead(BodyOf(m, TRUE)) + SofhSize + HeaderSize]
  <2>1. LeftToRead(BodyOf(m, TRUE)) + SofhSize + HeaderSize \in Nat
    <3>1. \A size \in Nat : size + SofhSize + HeaderSize \in Nat
      BY BlockSizes
    <3> QED BY <1>1, <1>2, <3>1, BeingSent
  <2>2. x \in WireParts /\ x.part = "header"
    BY <2>1 DEF WireParts
  <2>3. wire' = Append(wire, x) /\ pc' = "sendBody"
    BY <1>2, <1>3 DEF SendHeader
  <2> HIDE DEF x
  <2>4. Given' = Given
    BY <2>2, <2>3, Written
  <2> QED BY <1>1, <2>3, <2>4, Stutters
<1>4. CASE WriteFails
  <2>1. wire' = wire /\ pc' \in {"header", "killed"}
    BY <1>4 DEF WriteFails
  <2>2. Given' = Given
    BY <2>1, NothingWritten
  <2>3. CASE pc' = "header"
    BY <1>1, <2>2, <2>3, Stutters
  <2>4. CASE pc' = "killed"
    BY <1>1, <2>2, <2>4, Ends DEF Session!Next
  <2> QED BY <2>1, <2>3, <2>4
<1>5. CASE SendBody
  <2> DEFINE x == [part |-> "body", message |-> m, bytes |-> LeftToRead(BodyOf(m, TRUE))]
  <2>1. LeftToRead(BodyOf(m, TRUE)) \in Nat
    BY <1>1, <1>2, BeingSent
  <2>2. x \in WireParts /\ x.part = "body" /\ x.message = m
    BY <2>1 DEF WireParts
  <2>3. wire' = Append(wire, x) /\ pc' = "header" /\ link # "down"
    BY <1>2, <1>5 DEF SendBody
  <2> HIDE DEF x
  <2>4. Given' = Given \cup {m}
    BY <2>2, <2>3, Written
  <2>5. m \in Session!AnswersTo(Len(handled))
    BY <1>1, <1>2 DEF LogInv, ReplyFromLog
  <2>6. /\ Len(handled) # 0 /\ handled[Len(handled)].request = taken
        /\ handled[Len(handled)].template \in Session!Asking
        /\ taken \in Nat /\ \A i \in Bodies : Answer(i).request < taken
    BY <1>1, BeingSent, Replies DEF Session!Asking
  <2>7. ~Session!Answered(taken)
    BY <2>6 DEF Session!Answered, Given
  <2>8. Session!Answer
    BY <1>1, <2>3, <2>4, <2>5, <2>6, <2>7 DEF Session!Answer
  <2> QED BY <2>8 DEF Session!Next
<1> QED BY <1>3, <1>4, <1>5

LEMMA NextIsSession ==
    ASSUME IInv, LogInv, [Next]_vars
    PROVE  [Session!Next]_(Session!vars)
<1>1. CASE ReadHeader \/ ReadHeaderFails \/ ReadBody \/ ReadBodyFails \/ Discard
           \/ DispatchNull \/ (\E f \in Frames : Send(f)) \/ HalfClose \/ UNCHANGED vars
  BY <1>1, ReadingIsSession
<1>4. CASE LinkDown
  BY <1>4, LinkDownIsSession
<1>2. CASE OnNegotiate \/ OnEstablish \/ OnSequenceOrRetransmitRequest \/ OnNewOrderSingle
  BY <1>2, HandlersAreSession
<1>3. CASE SendHeader \/ SendBody \/ WriteFails
  BY <1>3, WritingIsSession
<1> QED BY <1>1, <1>2, <1>3, <1>4 DEF Next, Serve, Client

\* Sockets, the reused buffer and the two writes of an answer hidden, a connection is a
\* session: messages are handled once each and in order, each is answered in whole
\* before the next is taken, for as long as the client can be written to, with what the
\* messages handled up to it determine.
THEOREM ConnectionImplementsSession == Spec => ImplementsSession
BY InitSession, NextIsSession, ConnectionInvariant, StateFollowsFromLog, PTL
   DEF Spec, ImplementsSession, Session!Spec

-----------------------------------------------------------------------------
(* What follows for the answers *)

\* What the log promised it goes on to promise.
LEMMA PastPromises ==
    ASSUME handled \in Seq(Receipts), NEW h \in Receipts, handled' = Append(handled, h),
           NEW k \in 1..Len(handled)
    PROVE  handled'[k] = handled[k] /\ Session!AnswersTo(k)' = Session!AnswersTo(k)
<1>1. \A i \in 1..k : handled'[i] = handled[i]
  OBVIOUS
<1>2. \A i \in 1..k : i..k \subseteq 1..k /\ i + 1..k \subseteq 1..k
  OBVIOUS
<1>3. /\ Session!OrdersAt(k)' = Session!OrdersAt(k)
      /\ Session!InForceAt(k)' = Session!InForceAt(k)
  BY <1>1, <1>2 DEF Session!OrdersAt, Session!InForceAt
<1>4. Session!InForceAt(k) \subseteq 1..k
  BY DEF Session!InForceAt
<1>5. Session!ReportUUIDs(k)' = Session!ReportUUIDs(k)
  BY <1>1, <1>3, <1>4 DEF Session!ReportUUIDs
<1>6. k \in 1..k
  OBVIOUS
<1>7. handled'[k] = handled[k]
  BY <1>1, <1>6
<1>8. (Session!Cardinality(Session!OrdersAt(k)))' = Session!Cardinality(Session!OrdersAt(k))
  BY <1>3 DEF Session!Cardinality
<1> QED BY <1>5, <1>7, <1>8 DEF Session!AnswersTo

\* An answer is to the message it was promised to.
LEMMA PromisedTo ==
    ASSUME NEW k, handled[k].template \in Session!Asking, NEW m \in Session!AnswersTo(k)
    PROVE  m.request = handled[k].request
BY DEF Session!AnswersTo, Session!Asking

LEMMA NextKeepsAnswers ==
    ASSUME IInv, LogInv, Session!AnswersFromLog, [Next]_vars
    PROVE  Session!AnswersFromLog'
<1>1. [Session!Next]_(Session!vars)
  BY NextIsSession
<1>2. handled \in Seq(Receipts) /\ taken \in Nat
  BY DEF IInv, TypeOK
<1>3. CASE UNCHANGED <<handled, Given>>
  <2>1. \A k : Session!AnswersTo(k)' = Session!AnswersTo(k)
    BY <1>3, SameLog
  <2> QED BY <1>3, <2>1 DEF Session!AnswersFromLog
<1>4. ASSUME NEW kind \in Session!Kinds, NEW id \in UUIDs, Session!Handle(kind, id)
      PROVE  Session!AnswersFromLog'
  <2> DEFINE h == [template |-> kind, request |-> taken, uuid |-> id]
  <2>1. h \in Receipts
    BY <1>2, BlockSizes DEF Receipts, Session!Kinds, Session!Asking
  <2>2. handled' = Append(handled, h) /\ Given' = Given
    BY <1>4 DEF Session!Handle
  <2> HIDE DEF h
  <2>3. \A k \in 1..Len(handled) : /\ k \in 1..Len(handled') /\ handled'[k] = handled[k]
                                   /\ Session!AnswersTo(k)' = Session!AnswersTo(k)
    BY <1>2, <2>1, <2>2, PastPromises
  <2> QED BY <2>2, <2>3 DEF Session!AnswersFromLog
<1>5. CASE Session!Answer
  <2>1. /\ handled' = handled /\ ~Session!Answered(taken)
        /\ Len(handled) # 0 /\ handled[Len(handled)].request = taken
        /\ handled[Len(handled)].template \in Session!Asking
    BY <1>5 DEF Session!Answer
  <2>2. PICK m \in Session!AnswersTo(Len(handled)) : Given' = Given \cup {m}
    BY <1>5 DEF Session!Answer
  <2>3. m.request = taken
    BY <2>1, <2>2, PromisedTo
  <2>4. Len(handled) \in 1..Len(handled)
    BY <1>2, <2>1
  <2>5. \A k : Session!AnswersTo(k)' = Session!AnswersTo(k)
    BY <2>1, SameLog
  <2>6. \A n \in Given : n.request # taken
    BY <2>1 DEF Session!Answered
  <2> QED BY <2>1, <2>2, <2>3, <2>4, <2>5, <2>6 DEF Session!AnswersFromLog
<1> QED BY <1>1, <1>3, <1>4, <1>5
        DEF Session!Next, Session!Take, Session!Lose, Session!End, Session!vars

\* Every answer the client has been given says, for ever, what the messages handled up to
\* its request determine, whatever Establishes have since come, and no request has two.
THEOREM AnswersStayTrue == Spec => []Session!AnswersFromLog
<1>1. Session!Init => Session!AnswersFromLog
  BY DEF Session!Init, Session!AnswersFromLog
<1>2. Init => Session!AnswersFromLog
  BY <1>1, InitSession
<1> QED BY <1>2, NextKeepsAnswers, ConnectionInvariant, StateFollowsFromLog, PTL DEF Spec
=============================================================================
