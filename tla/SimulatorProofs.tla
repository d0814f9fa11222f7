--------------------------- MODULE SimulatorProofs ---------------------------
(***************************************************************************)
(* Proofs about Simulator, for any number of connections and descriptors   *)
(* and any frames.  The watched connection keeps, inside the process, what *)
(* FIXPConnection promises of it alone; because it does, the threads are   *)
(* those of MarketSegmentGateway; and because they are, every answer goes  *)
(* to the client that asked.                                               *)
(*                                                                         *)
(* GP and SP are Gateway and Session with their theorems.  What the        *)
(* watched connection implements alone it implements in the process.       *)
(***************************************************************************)
EXTENDS Simulator, FiniteSetTheorems, TLAPS

GP == INSTANCE MarketSegmentGatewayProofs
SP == INSTANCE FIXPSessionProofs

-----------------------------------------------------------------------------
(* Gateway and GP, and Session and SP, define the same.                    *)

LEMMA SameGateway ==
    /\ Gateway!Init => GP!Init
    /\ [Gateway!Next]_Gateway!vars => [GP!Next]_GP!vars
<1>1. Gateway!Init => GP!Init
  BY DEF Gateway!Init, GP!Init
<1>2. Gateway!Next => GP!Next
  BY Zenon DEF
      Gateway!Next, GP!Next, Gateway!acceptor, GP!acceptor,
      Gateway!environment, GP!environment, Gateway!objects, GP!objects,
      Gateway!registry, GP!registry, Gateway!MainRuns, GP!MainRuns,
      Gateway!Initialize, GP!Initialize, Gateway!Start, GP!Start,
      Gateway!AwaitAcceptor, GP!AwaitAcceptor, Gateway!StopAndBeginDestroy,
      GP!StopAndBeginDestroy, Gateway!DestroyRegistry, GP!DestroyRegistry,
      Gateway!DestroyThread, GP!DestroyThread, Gateway!Elapse, GP!Elapse,
      Gateway!AcceptorRuns, GP!AcceptorRuns, Gateway!AcceptorStarted,
      GP!AcceptorStarted, Gateway!RetryTick, GP!RetryTick, Gateway!InsertLock,
      GP!InsertLock, Gateway!Insert, GP!Insert, Gateway!Spawn, GP!Spawn,
      Gateway!AwaitConnection, GP!AwaitConnection, Gateway!AcceptOk,
      GP!AcceptOk, Gateway!AcceptFails, GP!AcceptFails,
      Gateway!FreeDescriptors, GP!FreeDescriptors, Gateway!ThreadRuns,
      GP!ThreadRuns, Gateway!ConnStarted, GP!ConnStarted, Gateway!LeaveLoop,
      GP!LeaveLoop, Gateway!EraseLock, GP!EraseLock, Gateway!Erase, GP!Erase,
      Gateway!EraseAsserts, GP!EraseAsserts, Gateway!Leave, GP!Leave,
      Gateway!Release, GP!Release, Gateway!CloseSocket, GP!CloseSocket,
      Gateway!Crash, GP!Crash, Gateway!StartFails, GP!StartFails,
      Gateway!SpawnFails, GP!SpawnFails, Gateway!UseDestroyedRegistry,
      GP!UseDestroyedRegistry, Gateway!RegistryAlive, GP!RegistryAlive,
      Gateway!KilledBySigpipe, GP!KilledBySigpipe, Gateway!Clients, GP!Clients, Gateway!Connect,
      GP!Connect, Gateway!Listening, GP!Listening, Gateway!Misframe,
      GP!Misframe, Gateway!Close, GP!Close, Gateway!Ended, GP!Ended,
      Gateway!vars, GP!vars
<1>3. UNCHANGED Gateway!vars => UNCHANGED GP!vars
  BY DEF
      Gateway!vars, GP!vars, Gateway!acceptor, GP!acceptor,
      Gateway!environment, GP!environment, Gateway!objects, GP!objects,
      Gateway!registry, GP!registry
<1> QED BY <1>1, <1>2, <1>3

LEMMA SameBuffers ==
    /\ \A b : Session!Reset(b) = SP!Reset(b)
    /\ \A b, n : Session!Write(b, n) = SP!Write(b, n)
    /\ \A b, n : Session!MoveRdPtr(b, n) = SP!MoveRdPtr(b, n)
    /\ \A b, n, o : Session!ExpandIfRequired(b, n, o) = SP!ExpandIfRequired(b, n, o)
    /\ \A b : Session!WrtBufFree(b) = SP!WrtBufFree(b)
    /\ \A b : Session!LeftToRead(b) = SP!LeftToRead(b)
    /\ \A n, a : Session!NewBuffer(n, a) = SP!NewBuffer(n, a)
  BY DEF
      Session!Reset, SP!Reset, Session!Write, SP!Write, Session!MoveRdPtr,
      SP!MoveRdPtr, Session!ExpandIfRequired, SP!ExpandIfRequired,
      Session!WrtBufFree, SP!WrtBufFree, Session!LeftToRead, SP!LeftToRead,
      Session!NewBuffer, SP!NewBuffer

LEMMA SameTables ==
    /\ Session!HeaderSize = SP!HeaderSize
    /\ Session!SofhSize = SP!SofhSize
    /\ Session!Unallocatable = SP!Unallocatable
    /\ Session!BlockSize = SP!BlockSize
    /\ Session!ReplySizes = SP!ReplySizes
    /\ Session!NoReply = SP!NoReply
    /\ Session!ReallocOutcomes = SP!ReallocOutcomes
  BY DEF
      Session!HeaderSize, SP!HeaderSize, Session!SofhSize, SP!SofhSize,
      Session!Unallocatable, SP!Unallocatable, Session!MaxMsgSize,
      SP!MaxMsgSize, Session!BlockSize, SP!BlockSize, Session!ReplySizes,
      SP!ReplySizes, Session!NoReply, SP!NoReply, Session!ReallocOutcomes,
      SP!ReallocOutcomes, Session!NegotiateBlock, SP!NegotiateBlock,
      Session!EstablishBlock, SP!EstablishBlock, Session!SequenceBlock,
      SP!SequenceBlock, Session!RetransmitRequestBlock,
      SP!RetransmitRequestBlock, Session!NewOrderSingleBlock,
      SP!NewOrderSingleBlock, Session!NegotiationResponseBlock,
      SP!NegotiationResponseBlock, Session!EstablishmentAckBlock,
      SP!EstablishmentAckBlock, Session!ExecutionReportNewBlock,
      SP!ExecutionReportNewBlock

LEMMA SameFrames ==
    /\ \A f : Session!RestOfMessage(f) = SP!RestOfMessage(f)
    /\ \A b, n, o : Session!Prepare(b, n, o) <=> SP!Prepare(b, n, o)
    /\ \A t : Session!Parsed(t) = SP!Parsed(t)
    /\ \A m, a : Session!BodyOf(m, a) = SP!BodyOf(m, a)
    /\ Session!frame = SP!frame
    /\ Session!Handled = SP!Handled
  BY SameTables, SameBuffers DEF
      Session!RestOfMessage, SP!RestOfMessage, Session!Prepare, SP!Prepare,
      Session!Parsed, SP!Parsed, Session!BodyOf, SP!BodyOf, Session!frame,
      SP!frame, Session!Handled, SP!Handled

LEMMA SameReceive ==
    /\ \A t : Session!Receive(t) <=> SP!Receive(t)
    /\ \A m : Session!SendMsg(m) <=> SP!SendMsg(m)
  BY SameTables, SameFrames DEF
      Session!Receive, SP!Receive, Session!SendMsg, SP!SendMsg,
      Session!client, SP!client

LEMMA SameSession ==
    /\ Session!Init => SP!Init
    /\ [Session!Next]_Session!vars => [SP!Next]_SP!vars
<1>1. Session!Init => SP!Init
  BY SameBuffers, SameTables DEF Session!Init, SP!Init
<1>2. Session!Client => SP!Client
  BY DEF
      Session!Client, SP!Client, Session!Send, SP!Send, Session!HalfClose,
      SP!HalfClose, Session!LinkDown, SP!LinkDown, Session!Sending, SP!Sending,
      Session!session, SP!session
<1>3. \/ Session!ReadHeader \/ Session!ReadHeaderFails
      \/ Session!ReadBody \/ Session!ReadBodyFails
      \/ Session!Discard \/ Session!DispatchNull
      => SP!Serve
  BY SameTables, SameFrames, SameBuffers DEF SP!Serve,
      Session!ReadHeader, SP!ReadHeader, Session!ReadHeaderFails,
      SP!ReadHeaderFails, Session!ReadBody, SP!ReadBody,
      Session!ReadBodyFails, SP!ReadBodyFails, Session!Discard, SP!Discard,
      Session!DispatchNull, SP!DispatchNull, Session!client, SP!client,
      Session!session, SP!session, Session!Ended, SP!Ended
<1>4. \/ Session!OnNegotiate \/ Session!OnEstablish
      \/ Session!OnSequenceOrRetransmitRequest \/ Session!OnNewOrderSingle
      => SP!Serve
  BY SameTables, SameFrames, SameReceive DEF SP!Serve,
      Session!OnNegotiate, SP!OnNegotiate, Session!OnEstablish,
      SP!OnEstablish, Session!OnSequenceOrRetransmitRequest,
      SP!OnSequenceOrRetransmitRequest, Session!OnNewOrderSingle,
      SP!OnNewOrderSingle, Session!session, SP!session
<1>5. Session!SendHeader \/ Session!SendBody \/ Session!WriteFails => SP!Serve
  BY SameTables, SameFrames, SameBuffers DEF SP!Serve,
      Session!SendHeader, SP!SendHeader, Session!SendBody, SP!SendBody,
      Session!WriteFails, SP!WriteFails, Session!session, SP!session,
      Session!client, SP!client, Session!Sending, SP!Sending
<1>6. Session!Next => SP!Next
  BY <1>2, <1>3, <1>4, <1>5 DEF Session!Next, SP!Next, Session!Serve
<1>7. UNCHANGED Session!vars => UNCHANGED SP!vars
  BY DEF Session!vars, SP!vars, Session!client, SP!client, Session!session, SP!session
<1> QED BY <1>1, <1>6, <1>7

-----------------------------------------------------------------------------
(* The session in the simulator.                                           *)

\* A step of the simulator is one of the session, or leaves it alone.
LEMMA SessionStep == [Next]_vars => [Session!Next]_Session!vars
<1> SUFFICES ASSUME [Next]_vars
             PROVE  Session!Next \/ UNCHANGED session
  BY DEF session, Session!vars, Session!client, Session!session
<1>1. CASE WatchedClient
  BY <1>1 DEF WatchedClient, WatchedSends, Session!Next, Session!Client
<1>2. CASE Serve
  BY <1>2 DEF Serve, Session!Next
<1>3. CASE MainRuns \/ AcceptorRuns \/ AcceptOk \/ WatchedThread
  BY <1>3 DEF MainRuns, AcceptorRuns, AcceptOk, WatchedThread, GatewayOnly
<1>4. CASE \E c \in Others : OtherThread(c) \/ OtherAnswers(c)
  BY <1>4 DEF OtherThread, OtherAnswers, GatewayOnly
<1>5. CASE Environment /\ ~WatchedClient
  BY <1>5 DEF Environment, GatewayOnly
<1>6. CASE UNCHANGED vars
  BY <1>6 DEF vars
<1> QED BY <1>1, <1>2, <1>3, <1>4, <1>5, <1>6 DEF Next, Ended

\* The threads of the other connections, the descriptors and the clients around it
\* cannot make the watched connection do what it would not do alone: whatever is
\* proved of FIXPConnection holds of every connection of the simulator.
THEOREM SessionInTheSimulator == Spec => Session!Spec
<1>1. Init => Session!Init
  BY DEF Init
<1> QED BY <1>1, SessionStep, PTL DEF Spec, Session!Spec

\* SP's theorems apply to the process, from the same assumptions.
LEMMA SessionWithProofs ==
    /\ Session!FramesAssumption => SP!FramesAssumption
    /\ Spec => SP!Spec
<1>1. Session!FrameType = SP!FrameType
  BY DEF Session!FrameType, SP!FrameType, Session!MaxMsgSize, SP!MaxMsgSize
<1>2. /\ Session!Handled = SP!Handled
      /\ Session!MaxMsgSize = SP!MaxMsgSize
      /\ Session!ReplySizes = SP!ReplySizes
  BY SameFrames, SameTables DEF Session!MaxMsgSize, SP!MaxMsgSize
<1>3. Session!FramesAssumption => SP!FramesAssumption
  BY <1>1, <1>2
<1>4. Session!Spec => SP!Spec
  BY SameSession, PTL DEF Session!Spec, SP!Spec
<1> QED BY <1>3, <1>4, SessionInTheSimulator, PTL

\* Session and SP give FIXPSession the same state.
LEMMA SameAbstractSession ==
    /\ SP!Session!Init => Session!Session!Init
    /\ [SP!Session!Next]_(SP!Session!vars) => [Session!Session!Next]_(Session!Session!vars)
<1>1. /\ SP!Given = Session!Given /\ SP!Given' = Session!Given'
  BY DEF SP!Given, Session!Given, SP!Bodies, Session!Bodies, SP!Positions,
         Session!Positions, SP!Answer, Session!Answer
<1>2. \A k : /\ SP!Session!OrdersAt(k) = Session!Session!OrdersAt(k)
             /\ SP!Session!ReportUUIDs(k) = Session!Session!ReportUUIDs(k)
  BY DEF SP!Session!OrdersAt, Session!Session!OrdersAt, SP!Session!ReportUUIDs,
         Session!Session!ReportUUIDs, SP!Session!InForceAt, Session!Session!InForceAt
<1>3. \A S : SP!Session!Cardinality(S) = Session!Session!Cardinality(S)
  BY Zenon DEF SP!Session!Cardinality, Session!Session!Cardinality
<1>4. \A k : SP!Session!AnswersTo(k) = Session!Session!AnswersTo(k)
  BY <1>2, <1>3 DEF SP!Session!AnswersTo, Session!Session!AnswersTo
<1>5. \A r : SP!Session!Answered(r) <=> Session!Session!Answered(r)
  BY <1>1 DEF SP!Session!Answered, Session!Session!Answered
<1>6. SP!Session!Asking = Session!Session!Asking /\ SP!Session!Kinds = Session!Session!Kinds
  BY DEF SP!Session!Asking, Session!Session!Asking, SP!Session!Kinds, Session!Session!Kinds
<1>7. SP!Session!vars = Session!Session!vars /\ SP!Session!vars' = Session!Session!vars'
  BY <1>1 DEF SP!Session!vars, Session!Session!vars
<1>8. SP!Session!Take => Session!Session!Take
  BY <1>1, <1>5, <1>6 DEF SP!Session!Take, Session!Session!Take
<1>9. \A kind, id : SP!Session!Handle(kind, id) => Session!Session!Handle(kind, id)
  BY <1>1 DEF SP!Session!Handle, Session!Session!Handle
<1>10. SP!Session!Answer => Session!Session!Answer
  BY <1>1, <1>4, <1>5, <1>6 DEF SP!Session!Answer, Session!Session!Answer
<1>11. SP!Session!End => Session!Session!End
  BY <1>1 DEF SP!Session!End, Session!Session!End
<1>14. SP!Session!Lose => Session!Session!Lose
  BY <1>1 DEF SP!Session!Lose, Session!Session!Lose
<1>12. SP!Session!Next => Session!Session!Next
  BY <1>6, <1>8, <1>9, <1>10, <1>11, <1>14 DEF SP!Session!Next, Session!Session!Next
<1>13. SP!Session!Init => Session!Session!Init
  BY <1>1 DEF SP!Session!Init, Session!Session!Init
<1> QED BY <1>7, <1>12, <1>13

\* Whatever the other clients and their threads do, a client of the simulator is served
\* as FIXPSession says: handled once each and in order, answered in whole before the
\* next message is taken, out of what it sent itself.
THEOREM SimulatorServesSessions == Spec => Session!ImplementsSession
<1>1. SP!Spec => SP!ImplementsSession
  BY PartsAssumption, SessionWithProofs, SP!ConnectionImplementsSession
<1>2. SP!ImplementsSession => Session!ImplementsSession
  BY SameAbstractSession, PTL
     DEF Session!ImplementsSession, SP!ImplementsSession, SP!Session!Spec,
         Session!Session!Spec
<1> QED BY <1>1, <1>2, SessionWithProofs, PTL

\* The invariant of those proofs holds in the process.
LEMMA SessionInvariance == Spec => []SP!IInv
<1>1. SP!Spec => []SP!IInv
  BY PartsAssumption, SessionWithProofs, SP!ConnectionInvariant
<1> QED BY <1>1, SessionWithProofs, PTL

-----------------------------------------------------------------------------
(* The gateway in the simulator.                                           *)

LEMMA InitLink ==
    ASSUME Init
    PROVE  LinkInv
<1>1. /\ client = [c \in Connections |-> "idle"]
      /\ link = "up" /\ sent = << >>
  BY DEF Init, Gateway!Init, Session!Init
<1> QED BY <1>1, WatchedAssumption DEF LinkInv

\* What processMessages does leaves the client, and what it has sent, alone.
LEMMA ServingKeepsLink ==
    ASSUME LinkInv, Session!Serve, UNCHANGED client
    PROVE  LinkInv'
<1>1. UNCHANGED <<sent, link>>
  BY DEF Session!Serve, Session!ReadHeader, Session!ReadHeaderFails, Session!ReadBody,
      Session!ReadBodyFails, Session!Discard, Session!DispatchNull, Session!OnNegotiate,
      Session!OnEstablish, Session!OnSequenceOrRetransmitRequest,
      Session!OnNewOrderSingle, Session!SendHeader, Session!SendBody,
      Session!WriteFails, Session!Receive, Session!Ended, Session!client
<1> QED BY <1>1 DEF LinkInv, EndsTheLoop

\* The watched client can do to its stream only what a client of the gateway can.
LEMMA WatchedClientKeepsLink ==
    ASSUME LinkInv, SP!IInv, WatchedClient
    PROVE  /\ LinkInv'
           /\ \/ Gateway!Misframe(Watched) \/ Gateway!Close(Watched)
              \/ UNCHANGED Gateway!vars
<1> USE WatchedAssumption
<1>1. /\ UNCHANGED <<process, mainPc, acceptor, backlog, connPc, objects, registry>>
      /\ UNCHANGED <<taken, pc, buffer, residue>>
  BY DEF WatchedClient, WatchedSends, ClientIs, Session!Send, Session!HalfClose,
      Session!LinkDown
<1>2. /\ client[Watched] \in {"open", "misframed", "closed"}
      /\ client \in [Connections -> {"idle", "open", "misframed", "closed"}]
  BY DEF WatchedClient, LinkInv
<1>3. ASSUME NEW f \in Frames, WatchedSends(f)
      PROVE  /\ LinkInv'
             /\ \/ Gateway!Misframe(Watched) \/ Gateway!Close(Watched)
                \/ client' = client
  <2>1. /\ link = "up" /\ sent' = Append(sent, f) /\ sent \in Seq(Frames)
        /\ link' = IF f.whole THEN "up" ELSE "halfClosed"
        /\ client' = [client EXCEPT ![Watched] =
                         IF ~f.whole THEN "closed"
                         ELSE IF EndsTheLoop(f) THEN "misframed" ELSE client[Watched]]
    BY <1>3 DEF WatchedSends, Session!Send, ClientIs, SP!IInv, SP!TypeOK
  <2>2. client[Watched] \in {"open", "misframed"}
    BY <1>2, <2>1 DEF LinkInv
  <2>3. LinkInv'
    <3>1. \A i \in 1..Len(sent') : (i \in 1..Len(sent) /\ sent'[i] = sent[i]) \/ sent'[i] = f
      BY <2>1
    <3> QED BY <3>1, <1>1, <1>2, <2>1, <2>2 DEF LinkInv, EndsTheLoop
  <2>4. CASE ~f.whole
    BY <2>1, <2>2, <2>3, <2>4, <1>1 DEF Gateway!Close, acceptor, objects, registry,
        Gateway!acceptor, Gateway!objects, Gateway!registry
  <2>5. CASE f.whole /\ EndsTheLoop(f)
    BY <2>1, <2>2, <2>3, <2>5, <1>1, <1>2 DEF Gateway!Misframe, acceptor, objects, registry,
        Gateway!acceptor, Gateway!objects, Gateway!registry
  <2>6. CASE f.whole /\ ~EndsTheLoop(f)
    BY <2>1, <2>3, <2>6, <1>2
  <2> QED BY <2>3, <2>4, <2>5, <2>6
<1>4. CASE (Session!HalfClose \/ Session!LinkDown) /\ ClientIs("closed")
  <2>1. /\ client' = [client EXCEPT ![Watched] = "closed"]
        /\ sent' = sent /\ link' # "up"
    BY <1>4 DEF ClientIs, Session!HalfClose, Session!LinkDown
  <2>2. LinkInv'
    BY <2>1, <1>1, <1>2 DEF LinkInv, EndsTheLoop
  <2>3. client[Watched] \in {"open", "misframed"} => Gateway!Close(Watched)
    BY <2>1, <1>1 DEF Gateway!Close, acceptor, objects, registry,
        Gateway!acceptor, Gateway!objects, Gateway!registry
  <2>4. client[Watched] = "closed" => client' = client
    BY <2>1, <1>2
  <2> QED BY <1>2, <2>2, <2>3, <2>4, <1>1 DEF Gateway!vars, Gateway!environment, acceptor,
          objects, registry, Gateway!acceptor, Gateway!objects, Gateway!registry
<1> QED BY <1>1, <1>3, <1>4 DEF WatchedClient, Gateway!vars, Gateway!environment, acceptor,
        objects, registry, Gateway!acceptor, Gateway!objects, Gateway!registry

\* Once processMessages has left its loop the gateway, too, has a reason for it.
LEMMA EndedIsSeen ==
    ASSUME ~MemoryFails, LinkInv, SP!IInv, pc = "ended"
    PROVE  client[Watched] \in {"misframed", "closed"}
<1>1. taken \in 0..Len(sent) /\ link \in {"up", "halfClosed", "down"}
  BY DEF SP!IInv, SP!TypeOK
<1>2. CASE link # "up"
  BY <1>2 DEF LinkInv
<1>3. CASE taken > 0 /\ ~SP!Framed(sent[taken])
  <2>1. taken \in 1..Len(sent)
    BY <1>1, <1>3
  <2>2. sent[taken].msgSize \in 0..SP!MaxMsgSize
    <3>1. sent[taken] \in Session!FrameType
      BY <2>1, PartsAssumption DEF SP!IInv, SP!TypeOK, Session!FramesAssumption
    <3>2. sent[taken].msgSize \in 0..Session!MaxMsgSize
      BY <3>1 DEF Session!FrameType
    <3>3. Session!MaxMsgSize = SP!MaxMsgSize
      BY DEF Session!MaxMsgSize, SP!MaxMsgSize
    <3> QED BY <3>2, <3>3
  <2>3. \A n \in 0..SP!MaxMsgSize : n >= SP!SofhSize \/ n < Session!SofhSize
    BY DEF SP!SofhSize, Session!SofhSize
  <2> QED BY <1>3, <2>1, <2>2, <2>3 DEF LinkInv, EndsTheLoop, SP!Framed
<1> QED BY <1>2, <1>3 DEF SP!IInv, SP!EndsForAReason, SP!frame

\* Only a write to a broken connection ends the process from inside the session.
LEMMA KilledIsSeen ==
    ASSUME ~MemoryFails, LinkInv, SP!IInv, Session!Serve, pc' = "killed"
    PROVE  SigpipeFatal /\ client[Watched] = "closed"
<1>1. Session!WriteFails
  <2>1. ~Session!DispatchNull
    BY DEF SP!IInv, SP!BufferInv, Session!DispatchNull
  <2>2. \A m : ~Session!SendMsg(m)
    BY DEF Session!SendMsg
  <2> QED BY <2>1, <2>2
          DEF Session!Serve, Session!ReadHeader, Session!ReadHeaderFails, Session!ReadBody,
              Session!ReadBodyFails, Session!Discard, Session!OnNegotiate,
              Session!OnEstablish, Session!OnSequenceOrRetransmitRequest,
              Session!OnNewOrderSingle, Session!SendHeader, Session!SendBody, Session!Ended
<1> QED BY <1>1 DEF Session!WriteFails, LinkInv

\* A step of the simulator is one of the gateway, or one that it does not see.
LEMMA GatewayStep ==
    ASSUME ~MemoryFails, LinkInv, SP!IInv, [Next]_vars
    PROVE  /\ LinkInv'
           /\ [Gateway!Next]_Gateway!vars
<1> USE WatchedAssumption
<1>0. CASE UNCHANGED vars
  BY <1>0 DEF vars, gateway, session, LinkInv, EndsTheLoop, Gateway!vars, Gateway!environment,
      acceptor, objects, registry, Gateway!acceptor, Gateway!objects, Gateway!registry
<1>1. ASSUME process = "running", UNCHANGED <<session, inbox>>,
             UNCHANGED client \/ \E c \in Others : Gateway!Misframe(c) \/ Gateway!Close(c)
      PROVE  LinkInv'
  <2>1. client' \in [Connections -> {"idle", "open", "misframed", "closed"}]
    BY <1>1 DEF LinkInv, Others, Gateway!Misframe, Gateway!Close
  <2>2. client'[Watched] = client[Watched]
    BY <1>1 DEF LinkInv, Others, Gateway!Misframe, Gateway!Close
  <2> QED BY <1>1, <2>1, <2>2 DEF LinkInv, EndsTheLoop, session
<1>2. CASE process = "running" /\ (MainRuns \/ AcceptorRuns \/ AcceptOk)
  <2>1. Gateway!Next /\ UNCHANGED <<session, inbox>>
    BY <1>2 DEF MainRuns, AcceptorRuns, AcceptOk, GatewayOnly, Gateway!Next
  <2>2. UNCHANGED client
    BY <1>2 DEF MainRuns, AcceptorRuns, AcceptOk, GatewayOnly, Gateway!environment,
        Gateway!MainRuns, Gateway!Initialize, Gateway!Start, Gateway!AwaitAcceptor,
        Gateway!StopAndBeginDestroy, Gateway!DestroyRegistry, Gateway!DestroyThread,
        Gateway!AcceptorRuns, Gateway!AcceptorStarted, Gateway!RetryTick,
        Gateway!InsertLock, Gateway!Insert, Gateway!Spawn, Gateway!AwaitConnection,
        Gateway!AcceptOk
  <2> QED BY <1>1, <1>2, <2>1, <2>2
<1>3. ASSUME process = "running", NEW c \in Connections, Gateway!ThreadRuns(c),
             UNCHANGED <<session, inbox>>
      PROVE  LinkInv' /\ Gateway!Next
  <2>1. UNCHANGED client
    BY <1>3 DEF Gateway!ThreadRuns, Gateway!ConnStarted, Gateway!LeaveLoop,
        Gateway!EraseLock, Gateway!Erase, Gateway!EraseAsserts, Gateway!Leave,
        Gateway!environment
  <2> QED BY <1>1, <1>3, <2>1 DEF Gateway!Next
<1>4. CASE process = "running" /\ \E c \in Others : OtherThread(c)
  BY <1>3, <1>4 DEF OtherThread, GatewayOnly, Others
<1>5. CASE process = "running" /\ \E c \in Others : OtherAnswers(c)
  BY <1>5 DEF OtherAnswers, gateway, session, LinkInv, EndsTheLoop, Gateway!vars,
      Gateway!environment, acceptor, objects, registry, Gateway!acceptor,
      Gateway!objects, Gateway!registry
<1>6. CASE process = "running" /\ WatchedThread
  <2>1. LeaveLoop => Gateway!LeaveLoop(Watched)
    BY EndedIsSeen DEF LeaveLoop, Gateway!LeaveLoop, Gateway!environment, acceptor,
        objects, registry, Gateway!acceptor, Gateway!objects, Gateway!registry
  <2>2. Gateway!ThreadRuns(Watched) /\ UNCHANGED <<session, inbox>>
    BY <1>6, <2>1 DEF WatchedThread, GatewayOnly, Gateway!ThreadRuns
  <2> QED BY <1>3, <1>6, <2>2
<1>7. CASE process = "running" /\ Serve
  <2>1. /\ Session!Serve /\ connPc[Watched] = "serving"
        /\ UNCHANGED <<mainPc, acceptor, backlog, client, connPc, objects, registry>>
        /\ process' = IF pc' = "killed" THEN "killed" ELSE process
    BY <1>7 DEF Serve
  <2>2. CASE pc' = "killed"
    <3>1. Gateway!KilledBySigpipe(Watched)
      BY <2>1, <2>2, KilledIsSeen DEF Gateway!KilledBySigpipe, Gateway!environment,
          acceptor, objects, registry, Gateway!acceptor, Gateway!objects, Gateway!registry
    <3> QED BY <1>7, <2>1, <3>1, ServingKeepsLink DEF Gateway!Next, Gateway!Crash
  <2>3. CASE pc' # "killed"
    BY <2>1, <2>3, ServingKeepsLink DEF Gateway!vars, Gateway!environment, acceptor,
        objects, registry, Gateway!acceptor, Gateway!objects, Gateway!registry
  <2> QED BY <2>2, <2>3
<1>8. CASE process = "running" /\ Environment
  <2>1. CASE WatchedClient
    BY <1>8, <2>1, WatchedClientKeepsLink DEF Gateway!Next, Gateway!Clients
  <2>2. CASE GatewayOnly(\/ Gateway!Elapse \/ Gateway!AcceptFails
                         \/ Gateway!StartFails \/ Gateway!SpawnFails
                         \/ Gateway!UseDestroyedRegistry)
    <3>1. Gateway!Next /\ UNCHANGED <<session, inbox>>
      BY <1>8, <2>2 DEF GatewayOnly, Gateway!Next, Gateway!Crash
    <3>2. UNCHANGED client
      BY <2>2 DEF GatewayOnly, Gateway!Elapse, Gateway!AcceptFails, Gateway!StartFails,
          Gateway!SpawnFails, Gateway!UseDestroyedRegistry, Gateway!environment
    <3> QED BY <1>1, <1>8, <3>1, <3>2
  <2>3. ASSUME NEW c \in Connections, Gateway!Connect(c), UNCHANGED <<session, inbox>>
        PROVE  LinkInv'
    <3>1. client[c] = "idle" /\ client' = [client EXCEPT ![c] = "open"]
      BY <2>3 DEF Gateway!Connect
    <3> QED BY <2>3, <3>1 DEF LinkInv, EndsTheLoop, session
  <2>4. CASE \E c \in Connections : GatewayOnly(Gateway!Connect(c))
    BY <1>8, <2>3, <2>4 DEF GatewayOnly, Gateway!Next, Gateway!Clients
  <2>5. CASE \E c \in Others : GatewayOnly(\/ Gateway!KilledBySigpipe(c)
                                           \/ Gateway!Misframe(c) \/ Gateway!Close(c))
    <3>1. Gateway!Next /\ UNCHANGED <<session, inbox>>
      BY <1>8, <2>5 DEF GatewayOnly, Gateway!Next, Gateway!Crash, Gateway!Clients, Others
    <3>2. UNCHANGED client \/ \E c \in Others : Gateway!Misframe(c) \/ Gateway!Close(c)
      BY <2>5 DEF GatewayOnly, Gateway!KilledBySigpipe, Gateway!environment
    <3> QED BY <1>1, <1>8, <3>1, <3>2
  <2> QED BY <1>8, <2>1, <2>2, <2>4, <2>5 DEF Environment, GatewayOnly
<1> QED BY <1>0, <1>2, <1>4, <1>5, <1>6, <1>7, <1>8 DEF Next, Ended

LEMMA LinkInvariance ==
    ASSUME ~MemoryFails
    PROVE  Spec => []LinkInv
BY InitLink, GatewayStep, SessionInvariance, PTL DEF Spec

\* As long as memory lasts the gateway is right about processMessages: a thread leaves
\* its loop, or is killed in it, only once its client has misframed a message or gone.
THEOREM SimulatorImplementsGateway ==
    ASSUME ~MemoryFails
    PROVE  Spec => ImplementsGateway
<1>1. Init => Gateway!Init
  BY DEF Init
<1> QED BY <1>1, GatewayStep, SessionInvariance, LinkInvariance, PTL
        DEF Spec, ImplementsGateway, Gateway!Spec

-----------------------------------------------------------------------------
(* Where the answers go.                                                   *)

LEMMA OwnersInTheSimulator ==
    ASSUME ~MemoryFails
    PROVE  Spec => []GP!ThreadOwnsItsDescriptor
<1>1. GP!Spec => []GP!ThreadOwnsItsDescriptor
  BY PartsAssumption, GP!ThreadsOwnTheirDescriptors
<1>2. Gateway!Spec => GP!Spec
  BY SameGateway, PTL DEF Gateway!Spec, GP!Spec
<1> QED BY SimulatorImplementsGateway, <1>1, <1>2, PTL DEF ImplementsGateway

\* A thread that serves writes to its own client.
LEMMA ServesItsOwn ==
    ASSUME GP!ThreadOwnsItsDescriptor, NEW c \in Connections, connPc[c] = "serving"
    PROVE  Addressee(c) = c /\ c # None
<1>1. socket[c] # None /\ peer[socket[c]] = c
  BY DEF GP!ThreadOwnsItsDescriptor
<1>2. c # None
  BY PartsAssumption DEF Gateway!GatewayAssumption
<1> QED BY <1>1, <1>2 DEF Addressee

\* What a step of processMessages writes: nothing, something that is not a body, or
\* the body of the answer it is sending.
LEMMA Writes ==
    ASSUME SP!IInv, Session!Serve
    PROVE  \/ wire' = wire
           \/ \E part : part.part # "body" /\ wire' = Append(wire, part)
           \/ \E bytes :
                  wire' = Append(wire, [part |-> "body", message |-> reply, bytes |-> bytes])
              /\ pc = "sendBody"
<1>1. CASE Session!SendHeader
  BY <1>1 DEF Session!SendHeader
<1>2. CASE Session!SendBody
  BY <1>2 DEF Session!SendBody
<1>3. CASE Session!WriteFails
  BY <1>3 DEF Session!WriteFails
<1>4. CASE ~(Session!SendHeader \/ Session!SendBody \/ Session!WriteFails)
  BY <1>4 DEF Session!Serve, Session!ReadHeader, Session!ReadHeaderFails, Session!ReadBody,
      Session!ReadBodyFails, Session!Discard, Session!DispatchNull, Session!OnNegotiate,
      Session!OnEstablish, Session!OnSequenceOrRetransmitRequest,
      Session!OnNewOrderSingle, Session!Receive, Session!Ended
<1> QED BY <1>1, <1>2, <1>3, <1>4

LEMMA InitInbox == Init => InboxInv
<1> SUFFICES ASSUME Init PROVE InboxInv
  OBVIOUS
<1>1. inbox = [c \in Connections |-> << >>] /\ wire = << >>
  BY DEF Init, Session!Init
<1>2. Session!Bodies = {}
  BY <1>1 DEF Session!Bodies, Session!Positions
<1> QED BY <1>1, <1>2, WatchedAssumption, FS_EmptySet DEF InboxInv, AnswersReachTheirClient

\* Nothing has been written to, or by, the watched connection.
LEMMA NothingWritten ==
    ASSUME InboxInv, UNCHANGED wire,
           inbox' \in [Connections -> Seq([from : Connections, request : Nat])],
           inbox'[Watched] = inbox[Watched],
           \A c \in Connections : \A i \in 1..Len(inbox'[c]) : inbox'[c][i].from = c
    PROVE  InboxInv'
<1>1. Session!Bodies' = Session!Bodies
  BY DEF Session!Bodies, Session!Positions
<1> QED BY <1>1 DEF InboxInv, AnswersReachTheirClient

\* The answers of the watched connection and its client's inbox grow together.
LEMMA ServingKeepsInbox ==
    ASSUME InboxInv, SP!IInv, GP!ThreadOwnsItsDescriptor, Serve
    PROVE  InboxInv'
<1> USE WatchedAssumption
<1>1. wire \in Seq(SP!WireParts)
  BY DEF SP!IInv, SP!TypeOK
<1>2. CASE wire' = wire
  <2>1. UNCHANGED inbox
    BY <1>2 DEF Serve, Answered
  <2> QED BY <1>2, <2>1, NothingWritten DEF InboxInv, AnswersReachTheirClient
<1>3. ASSUME NEW part, part.part # "body", wire' = Append(wire, part)
      PROVE  InboxInv'
  <2>1. Len(wire') = Len(wire) + 1 /\ wire'[Len(wire) + 1] = part
        /\ \A i \in 1..Len(wire) : wire'[i] = wire[i]
    BY <1>1, <1>3
  <2>2. UNCHANGED inbox
    BY <1>3, <2>1 DEF Serve, Answered
  <2>3. Len(wire) \in Nat
    BY <1>1
  <2>4. Session!Bodies' = Session!Bodies
    BY <1>3, <2>1, <2>3 DEF Session!Bodies, Session!Positions
  <2>5. \A i \in Session!Bodies : wire'[i] = wire[i]
    BY <2>1 DEF Session!Bodies, Session!Positions
  <2> QED BY <2>2, <2>4, <2>5 DEF InboxInv, AnswersReachTheirClient
<1>4. ASSUME NEW bytes, pc = "sendBody",
             wire' = Append(wire, [part |-> "body", message |-> reply, bytes |-> bytes])
      PROVE  InboxInv'
  <2> DEFINE answer == [from |-> Watched, request |-> reply.request]
             k == Len(wire) + 1
  <2>1. Len(wire') = k /\ wire'[k].part = "body" /\ wire'[k].message = reply
        /\ (\A i \in 1..Len(wire) : wire'[i] = wire[i]) /\ Len(wire) \in Nat
    BY <1>1, <1>4
  <2>2. Answered
    BY <2>1 DEF Answered
  <2>3. Addressee(Watched) = Watched /\ Watched # None
    BY ServesItsOwn DEF Serve
  <2>4. inbox' = [inbox EXCEPT ![Watched] = Append(@, answer)]
    BY <2>2, <2>3 DEF Serve, Deliver
  <2>5. answer \in [from : Connections, request : Nat]
    <3>1. reply \in SP!Messages
      BY <1>4 DEF SP!IInv, SP!SendInv, SP!Sending
    <3>2. reply.request \in Nat
      BY <3>1 DEF SP!Messages
    <3> QED BY <3>2
  <2>6. inbox[Watched] \in Seq([from : Connections, request : Nat])
    BY DEF InboxInv
  <2> HIDE DEF answer
  <2>7. /\ inbox'[Watched] = Append(inbox[Watched], answer)
        /\ \A c \in Connections : c # Watched => inbox'[c] = inbox[c]
        /\ inbox' \in [Connections -> Seq([from : Connections, request : Nat])]
    BY <2>4, <2>5, <2>6 DEF InboxInv
  <2>8. /\ Len(inbox'[Watched]) = Len(inbox[Watched]) + 1
        /\ inbox'[Watched][Len(inbox[Watched]) + 1] = answer
        /\ \A i \in 1..Len(inbox[Watched]) : inbox'[Watched][i] = inbox[Watched][i]
    BY <2>5, <2>6, <2>7
  <2>9. Session!Bodies' = Session!Bodies \cup {k} /\ k \notin Session!Bodies
    BY <2>1 DEF Session!Bodies, Session!Positions
  <2>10. IsFiniteSet(Session!Bodies)
    <3>1. IsFiniteSet(1..Len(wire))
      BY <2>1, FS_Interval
    <3> QED BY <3>1, FS_Subset DEF Session!Bodies, Session!Positions
  <2>11. Len(inbox'[Watched]) = Cardinality(Session!Bodies')
    BY <2>8, <2>9, <2>10, FS_AddElement DEF InboxInv, AnswersReachTheirClient
  <2>12. ASSUME NEW i \in 1..Len(inbox'[Watched])
         PROVE  /\ inbox'[Watched][i].from = Watched
                /\ \E j \in Session!Bodies' :
                       wire'[j].message.request = inbox'[Watched][i].request
    <3>1. CASE i \in 1..Len(inbox[Watched])
      <4>1. inbox'[Watched][i] = inbox[Watched][i]
        BY <2>8, <3>1
      <4>2. PICK j \in Session!Bodies : wire[j].message.request = inbox[Watched][i].request
        BY <3>1 DEF InboxInv, AnswersReachTheirClient
      <4>3. wire'[j] = wire[j]
        BY <2>1 DEF Session!Bodies, Session!Positions
      <4> QED BY <3>1, <4>1, <4>2, <4>3, <2>9 DEF InboxInv, AnswersReachTheirClient
    <3>2. CASE i = Len(inbox[Watched]) + 1
      BY <3>2, <2>1, <2>8, <2>9 DEF answer
    <3> QED BY <3>1, <3>2, <2>6, <2>8
  <2> QED BY <2>7, <2>11, <2>12 DEF InboxInv, AnswersReachTheirClient
<1> QED BY <1>2, <1>3, <1>4, Writes DEF Serve

\* Neither does what a reset leaves of an answer on the wire count as one.
LEMMA TornKeepsInbox ==
    ASSUME InboxInv, SP!IInv, Session!LinkDown, UNCHANGED inbox
    PROVE  InboxInv'
<1>1. wire \in Seq(SP!WireParts)
  BY DEF SP!IInv, SP!TypeOK
<1>2. wire' = wire \/ wire' = Append(wire, [part |-> "torn"])
  BY DEF Session!LinkDown
<1>3. /\ Session!Bodies' = Session!Bodies
      /\ \A i \in Session!Bodies : wire'[i] = wire[i]
  BY <1>1, <1>2 DEF Session!Bodies, Session!Positions
<1> QED BY <1>3 DEF InboxInv, AnswersReachTheirClient

LEMMA NextInbox ==
    ASSUME InboxInv, SP!IInv, GP!ThreadOwnsItsDescriptor, [Next]_vars
    PROVE  InboxInv'
<1> USE WatchedAssumption
<1>1. CASE Serve
  BY <1>1, ServingKeepsInbox
<1>2. ASSUME NEW c \in Others, OtherAnswers(c)
      PROVE  InboxInv'
  <2> DEFINE answer == [from |-> c, request |-> 1]
  <2>1. c \in Connections /\ c # Watched
    BY DEF Others
  <2>2. inbox' = [inbox EXCEPT ![c] = Append(@, answer)] /\ inbox[c] = << >>
    BY <1>2, <2>1, ServesItsOwn DEF OtherAnswers, Deliver
  <2>3. inbox'[c] = << answer >> /\ answer \in [from : Connections, request : Nat]
    BY <2>1, <2>2 DEF InboxInv
  <2>4. \A b \in Connections : b # c => inbox'[b] = inbox[b]
    BY <2>2 DEF InboxInv
  <2>5. inbox' \in [Connections -> Seq([from : Connections, request : Nat])]
    BY <2>2, <2>3 DEF InboxInv
  <2>6. \A b \in Connections : \A i \in 1..Len(inbox'[b]) : inbox'[b][i].from = b
    <3>1. Len(inbox'[c]) = 1 /\ inbox'[c][1].from = c
      BY <2>3
    <3> QED BY <3>1, <2>4 DEF InboxInv, AnswersReachTheirClient
  <2>7. UNCHANGED wire
    BY <1>2 DEF OtherAnswers, session
  <2> QED BY <2>1, <2>4, <2>5, <2>6, <2>7, NothingWritten
<1>3. CASE UNCHANGED <<wire, inbox>>
  BY <1>3, NothingWritten DEF InboxInv, AnswersReachTheirClient
<1>4. MainRuns \/ AcceptorRuns \/ AcceptOk \/ WatchedThread
      \/ (Environment /\ ~Session!LinkDown)
      \/ (\E c \in Others : OtherThread(c)) \/ UNCHANGED vars
      => UNCHANGED <<wire, inbox>>
  BY DEF MainRuns, AcceptorRuns, AcceptOk, WatchedThread, Environment, OtherThread,
      GatewayOnly, WatchedClient, WatchedSends, ClientIs, Session!Send,
      Session!HalfClose, session, vars
<1>5. CASE Environment /\ Session!LinkDown
  <2>1. UNCHANGED inbox
    BY <1>5 DEF Environment, GatewayOnly, WatchedClient, WatchedSends, ClientIs
  <2> QED BY <1>5, <2>1, TornKeepsInbox
<1> QED BY <1>1, <1>2, <1>3, <1>4, <1>5 DEF Next, Ended

\* As long as memory lasts no answer reaches a client that did not ask for it, however
\* descriptors are closed and handed out again while other threads write to theirs;
\* and each answer the session has written in full is in its client's hands.
THEOREM AnswersReachTheClientsThatAsked ==
    ASSUME ~MemoryFails
    PROVE  Spec => []AnswersReachTheirClient
<1>1. InboxInv => AnswersReachTheirClient
  BY DEF InboxInv
<1> QED BY <1>1, InitInbox, NextInbox, SessionInvariance, OwnersInTheSimulator, PTL
        DEF Spec
=============================================================================
