---------------------------- MODULE FIXPSession -----------------------------
(***************************************************************************)
(* What a connection promises its client, whatever sockets, buffers and    *)
(* the two writes of a message do: messages are taken one at a time, each  *)
(* is handled once or passed over, one that asks for an answer has it in   *)
(* whole before the next is taken, and what an answer says follows from    *)
(* the messages that have been handled: there is no state besides.  Once   *)
(* the client cannot be reached any more, messages it has sent before may  *)
(* still be taken and handled, and nobody is answered.                     *)
(***************************************************************************)
EXTENDS Naturals, Sequences, FiniteSets

CONSTANTS UUIDs, Junk, SeqNumRange,
          Lossy     \* answers may be left out while the session goes on

VARIABLES
    seen,       \* how many of the client's messages have been taken
    log,        \* those that were handled
    answers,    \* the answers the client has been given
    open,       \* whether the session goes on
    reachable   \* whether the client can be written to
vars == <<seen, log, answers, open, reachable>>

Asking == {"Negotiate", "Establish", "NewOrderSingle"}
Kinds  == Asking \cup {"Sequence", "RetransmitRequest"}

\* The Establish in force at log[k], if there is one, and the orders since.
InForceAt(k) ==
    {i \in 1..k : /\ log[i].template = "Establish"
                  /\ \A e \in i + 1..k : log[e].template # "Establish"}
OrdersAt(k) ==
    {i \in 1..k : /\ log[i].template = "NewOrderSingle"
                  /\ \A e \in i..k : log[e].template # "Establish"}

\* Before the first Establish a report has any UUID; its ClOrdID is never the order's.
ReportUUIDs(k) ==
    IF InForceAt(k) = {} THEN Junk ELSE {log[i].uuid : i \in InForceAt(k)}

AnswersTo(k) ==
    LET m == log[k]
    IN  CASE m.template = "Negotiate" ->
                {[template |-> "NegotiationResponse", request |-> m.request,
                  uuid |-> m.uuid, previousSeqNo |-> 1, previousUuid |-> m.uuid]}
          [] m.template = "Establish" ->
                {[template |-> "EstablishmentAck", request |-> m.request,
                  uuid |-> m.uuid, nextSeqNo |-> 1, previousSeqNo |-> 1,
                  previousUuid |-> m.uuid]}
          [] m.template = "NewOrderSingle" ->
                {[template |-> "ExecutionReportNew", request |-> m.request, uuid |-> id,
                  seqNum |-> Cardinality(OrdersAt(k)) % SeqNumRange, clOrdID |-> text] :
                    id \in ReportUUIDs(k), text \in Junk}

Answered(request) == \E m \in answers : m.request = request

Init ==
    /\ seen = 0
    /\ log = << >>
    /\ answers = {}
    /\ open = TRUE
    /\ reachable = TRUE

\* The next message; the stream may break off in it.
Take ==
    /\ open
    /\ reachable /\ ~Lossy =>
           \A k \in 1..Len(log) : log[k].template \in Asking => Answered(log[k].request)
    /\ seen' = seen + 1
    /\ open' \in BOOLEAN
    /\ UNCHANGED <<log, answers, reachable>>

Handle(kind, id) ==
    /\ open
    /\ seen # 0 /\ \A k \in 1..Len(log) : log[k].request # seen
    /\ log' = Append(log, [template |-> kind, request |-> seen, uuid |-> id])
    /\ open' \in {TRUE, ~Lossy}
    /\ UNCHANGED <<seen, answers, reachable>>

Answer ==
    /\ open /\ reachable
    /\ Len(log) # 0
    /\ log[Len(log)].request = seen /\ log[Len(log)].template \in Asking
    /\ ~Answered(seen)
    /\ \E m \in AnswersTo(Len(log)) : answers' = answers \cup {m}
    /\ UNCHANGED <<seen, log, open, reachable>>

\* The client is lost, for good; the server may learn of it much later.
Lose ==
    /\ reachable
    /\ reachable' = FALSE
    /\ UNCHANGED <<seen, log, answers, open>>

End ==
    /\ open
    /\ open' = FALSE
    /\ UNCHANGED <<seen, log, answers, reachable>>

Next ==
    \/ Take
    \/ \E kind \in Kinds, id \in UUIDs : Handle(kind, id)
    \/ Answer
    \/ Lose
    \/ End

Spec == Init /\ [][Next]_vars

-----------------------------------------------------------------------------
\* What it comes to: an answer is to a message of the log and says what the log up to
\* that message determines, however long ago that was, and no message has two.
AnswersFromLog ==
    /\ \A m \in answers : \E k \in 1..Len(log) :
           log[k].request = m.request /\ m \in AnswersTo(k)
    /\ \A m, n \in answers : m.request = n.request => m = n
=============================================================================
