------------------------------ MODULE Simulator ------------------------------
(***************************************************************************)
(* The simulator put together: the threads, descriptors and owners of      *)
(* MarketSegmentGateway, and, inside the thread of one connection, the     *)
(* session of FIXPConnection.  The threads of the other connections are    *)
(* what MarketSegmentGateway makes of them; they, too, write answers to    *)
(* their sockets.  Any connection may be the watched one.                  *)
(*                                                                         *)
(* The two modules meet in three places: a thread runs processMessages     *)
(* while it is "serving" and leaves when its loop ends; what it writes     *)
(* goes to the connection its descriptor refers to at that moment; and     *)
(* SIGPIPE, raised in any thread, ends them all.                           *)
(***************************************************************************)
EXTENDS Naturals, Sequences, FiniteSets

CONSTANTS
    Connections, Descriptors, None, RetrySeconds, SigpipeFatal, AssertsEnabled,
    Frames, MaxFrames, Templates, UUIDs, Junk, SeqNumRange, BufferSize,
    SendBufferSize, MemoryFails,
    Watched         \* the connection whose session is followed

ASSUME WatchedAssumption == Watched \in Connections

VARIABLES
    \* MarketSegmentGateway
    process, mainPc, acceptorPc, newConnection, loopCount, backlog, client, connPc,
    holders, socket, peer, activeConnections, mutex,
    \* FIXPConnection
    sent, taken, link, pc, buffer, residue, uuid, nextSeqNo, reply, handled, wire,
    \* history: the answers that have reached the client of each connection
    inbox

Gateway == INSTANCE MarketSegmentGateway
Session == INSTANCE FIXPConnection

\* What the two modules assume of the constants they share with this one.
ASSUME PartsAssumption == Gateway!GatewayAssumption /\ Session!FramesAssumption

session == <<sent, taken, link, pc, buffer, residue, uuid, nextSeqNo, reply, handled,
             wire>>
acceptor == <<acceptorPc, newConnection, loopCount>>
objects  == <<holders, socket, peer>>
registry == <<activeConnections, mutex>>
gateway  == <<process, mainPc, acceptor, backlog, client, connPc, objects, registry>>
vars     == <<gateway, session, inbox>>

Others == Connections \ {Watched}

Init ==
    /\ Gateway!Init
    /\ Session!Init
    /\ inbox = [c \in Connections |-> << >>]

GatewayOnly(step) == step /\ UNCHANGED <<session, inbox>>

-----------------------------------------------------------------------------
(* The threads.                                                            *)

\* The watched connection's thread leaves when processMessages has left its loop.
LeaveLoop ==
    /\ connPc[Watched] = "serving"
    /\ pc = "ended"
    /\ connPc' = [connPc EXCEPT ![Watched] = "lock"]
    /\ UNCHANGED <<process, mainPc, acceptor, backlog, client,
                   objects, registry>>

WatchedThread ==
    GatewayOnly(\/ Gateway!ConnStarted(Watched)
                \/ LeaveLoop
                \/ Gateway!EraseLock(Watched)
                \/ Gateway!Erase(Watched)
                \/ Gateway!EraseAsserts(Watched)
                \/ Gateway!Leave(Watched))

\* Whom a write of the connection's thread reaches.
Addressee(c) == IF socket[c] = None THEN None ELSE peer[socket[c]]

Deliver(c, request) ==
    inbox' = IF Addressee(c) = None THEN inbox
             ELSE [inbox EXCEPT ![Addressee(c)] =
                      Append(@, [from |-> c, request |-> request])]

\* The body of an answer has been written.
Answered == wire' # wire /\ wire'[Len(wire')].part = "body"

\* A step of processMessages, in the thread that runs it; SIGPIPE is the process's.
Serve ==
    /\ connPc[Watched] = "serving"
    /\ Session!Serve
    /\ IF Answered THEN Deliver(Watched, reply.request) ELSE UNCHANGED inbox
    /\ process' = IF pc' = "killed" THEN "killed" ELSE process
    /\ UNCHANGED <<mainPc, acceptor, backlog, client, connPc,
                   objects, registry>>

\* Another connection's thread answers its client; once is enough to be seen.
OtherAnswers(c) ==
    /\ connPc[c] = "serving"
    /\ client[c] # "closed"
    /\ inbox[c] = << >>
    /\ Deliver(c, 1)
    /\ UNCHANGED <<gateway, session>>

-----------------------------------------------------------------------------
(* The watched connection's client: what it does to its stream is what the *)
(* session sees of it.                                                     *)

ClientIs(state) ==
    /\ client' = [client EXCEPT ![Watched] = state]
    /\ UNCHANGED <<process, mainPc, acceptor, backlog, connPc,
                   objects, registry, inbox>>

EndsTheLoop(f) == ~f.encodingOk \/ f.msgSize < Session!SofhSize

WatchedSends(f) ==
    /\ Session!Send(f)
    /\ ClientIs(IF ~f.whole THEN "closed"
                ELSE IF EndsTheLoop(f) THEN "misframed" ELSE client[Watched])

WatchedClient ==
    /\ client[Watched] # "idle"
    /\ \/ \E f \in Frames : WatchedSends(f)
       \/ (Session!HalfClose \/ Session!LinkDown) /\ ClientIs("closed")

-----------------------------------------------------------------------------
MainRuns     == GatewayOnly(Gateway!MainRuns)
AcceptorRuns == GatewayOnly(Gateway!AcceptorRuns)
AcceptOk     == GatewayOnly(Gateway!AcceptOk)
OtherThread(c) == GatewayOnly(Gateway!ThreadRuns(c))

Environment ==
    \/ GatewayOnly(\/ Gateway!Elapse
                   \/ Gateway!AcceptFails
                   \/ Gateway!StartFails
                   \/ Gateway!SpawnFails
                   \/ Gateway!UseDestroyedRegistry
                   \/ \E c \in Connections : Gateway!Connect(c)
                   \/ \E c \in Others :
                          \/ Gateway!KilledBySigpipe(c)
                          \/ Gateway!Misframe(c)
                          \/ Gateway!Close(c))
    \/ WatchedClient

Ended == process # "running" /\ UNCHANGED vars

Next ==
    \/ /\ process = "running"
       /\ \/ MainRuns
          \/ AcceptorRuns
          \/ AcceptOk
          \/ \E c \in Others : OtherThread(c) \/ OtherAnswers(c)
          \/ WatchedThread
          \/ Serve
          \/ Environment
    \/ Ended

\* As in the two modules: threads are scheduled, accept does not fail for ever.
Running(step) == process = "running" /\ step

Fairness ==
    /\ WF_vars(Running(MainRuns))
    /\ WF_vars(Running(AcceptorRuns))
    /\ SF_vars(Running(AcceptOk))
    /\ \A c \in Others : WF_vars(Running(OtherThread(c)))
    /\ WF_vars(Running(WatchedThread))
    /\ WF_vars(Running(Serve))

Spec == Init /\ [][Next]_vars
FairSpec == Spec /\ Fairness

-----------------------------------------------------------------------------
(* Properties.                                                             *)

\* An answer reaches the client that asked, over a descriptor that others have used
\* and will use again, and nobody else's thread writes to that client.
AnswersReachTheirClient ==
    /\ \A c \in Connections : \A i \in 1..Len(inbox[c]) : inbox[c][i].from = c
    /\ Len(inbox[Watched]) = Cardinality(Session!Bodies)
    /\ \A i \in 1..Len(inbox[Watched]) :
           \E j \in Session!Bodies : wire[j].message.request = inbox[Watched][i].request

\* What MarketSegmentGateway assumes of processMessages is true of it: a thread
\* leaves its loop, or is killed by SIGPIPE, only once its client has misframed a
\* message or gone away.
ImplementsGateway == Gateway!Spec

\* As long as descriptors keep becoming free, a client that connects, stays and sends
\* a message that asks for an answer gets it, through the accept loop, the registry's
\* lock, the thread and its session - whatever bad messages it or others have sent.
EveryClientIsAnswered ==
    []<>(Gateway!FreeDescriptors # {}) =>
        \A n \in 1..MaxFrames :
            (/\ client[Watched] = "open"
             /\ n \in 1..Len(sent)
             /\ Session!Answerable(sent[n])) ~>
                \/ \E i \in 1..Len(inbox[Watched]) : inbox[Watched][i].request = n
                \/ client[Watched] # "open"
                \/ process # "running"

\* "... or some connections disconnect which frees up some more handles"
\* (MarketSegmentGateway.cpp:78): so it is, with what processMessages makes of it.
GoneGivesDescriptorBack ==
    (socket[Watched] # None /\ client[Watched] \in {"misframed", "closed"}) ~>
        (socket[Watched] = None \/ process # "running")

-----------------------------------------------------------------------------
(* What holds the two modules together: the invariants behind the proofs.  *)

\* What the gateway knows of the watched client is what the session makes of its
\* stream.
LinkInv ==
    /\ client \in [Connections -> {"idle", "open", "misframed", "closed"}]
    /\ client[Watched] = "closed" <=> link # "up"
    /\ \A i \in 1..Len(sent) :
           /\ EndsTheLoop(sent[i]) => client[Watched] \in {"misframed", "closed"}
           /\ ~sent[i].whole => client[Watched] = "closed"

InboxInv ==
    /\ inbox \in [Connections -> Seq([from : Connections, request : Nat])]
    /\ AnswersReachTheirClient
=============================================================================
