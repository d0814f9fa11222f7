------------------------ MODULE MarketSegmentGateway ------------------------
(***************************************************************************)
(* The life of the simulator process and of every FIXPConnection in it:    *)
(* CMESimulator::run on the main thread, the accept loop on its own thread *)
(* (MarketSegmentGateway::handleClientConnections) and one detached thread *)
(* per connection.                                                         *)
(*                                                                         *)
(* A FIXPConnection is owned by shared_ptr copies.  holders[c] is the set  *)
(* of the copies that exist: the accept loop's local newConnection         *)
(* ("acceptor"), the one the thread's lambda captured ("thread", which     *)
(* also stands for the temporary copy passed to connectionEnd) and the     *)
(* element of activeConnections_ ("registry").  Whoever drops the last     *)
(* copy runs the destructor, which closes the socket.                      *)
(*                                                                         *)
(* What happens inside processMessages is modelled in FIXPConnection; here *)
(* a thread is "serving" until the client gives it a reason to leave its   *)
(* loop.                                                                   *)
(***************************************************************************)
EXTENDS Naturals, Sequences, FiniteSets

CONSTANTS
    Connections,    \* FIXPConnection objects, one for each TCP connection opened
    Descriptors,    \* the file descriptors the process can still open
    None,           \* a null pointer, socket_ == -1, a free descriptor or mutex
    RetrySeconds,   \* how long the accept loop sleeps after a failure (60)
    SigpipeFatal,   \* SIGPIPE has its default disposition: it ends the process
    AssertsEnabled  \* built without NDEBUG, as CMakeLists.txt does by default

ASSUME GatewayAssumption ==
    /\ None \notin Connections \cup Descriptors
    /\ "acceptor" \notin Connections \cup {None}
    /\ "main" \notin Connections
    /\ RetrySeconds \in Nat \ {0}
    /\ {SigpipeFatal, AssertsEnabled} \subseteq BOOLEAN

VARIABLES
    process,            \* the operating system's view of the process
    mainPc,             \* CMESimulator::run
    acceptorPc,         \* handleClientConnections, in the thread of threadPtr_
    newConnection,      \* its local shared_ptr, None when out of scope
    loopCount,          \* its local countdown after a failed accept
    backlog,            \* connections the kernel has queued for accept
    client,             \* what each client has done to its connection
    connPc,             \* the thread running processMessages of a connection
    holders,            \* the shared_ptr copies to each connection
    socket,             \* socket_ of each connection
    peer,               \* kernel: the connection an open descriptor refers to
    activeConnections,  \* activeConnections_
    mutex               \* the thread that holds mutex_

environment == <<backlog, client>>
objects     == <<holders, socket, peer>>
registry    == <<activeConnections, mutex>>
acceptor    == <<acceptorPc, newConnection, loopCount>>
vars == <<process, mainPc, acceptor, environment, connPc, objects, registry>>

HolderKinds == {"acceptor", "thread", "registry"}
AcceptorPcs == {"none", "starting", "accept", "retry",
                "lock", "insert", "spawn", "awaitConnection"}
MainPcs     == {"initialize", "start", "awaitAcceptor", "sleeping", "stopping",
                "destroyingRegistry", "destroyingThread"}
ConnPcs     == {"none", "starting", "serving", "lock", "erase", "leaving", "done"}

TypeOK ==
    /\ process \in {"running", "exited", "aborted", "killed"}
    /\ mainPc \in MainPcs
    /\ acceptorPc \in AcceptorPcs
    /\ newConnection \in Connections \cup {None}
    /\ loopCount \in 0..RetrySeconds
    /\ backlog \in Seq(Connections)
    /\ client \in [Connections -> {"idle", "open", "misframed", "closed"}]
    /\ connPc \in [Connections -> ConnPcs]
    /\ holders \in [Connections -> SUBSET HolderKinds]
    /\ socket \in [Connections -> Descriptors \cup {None}]
    /\ peer \in [Descriptors -> Connections \cup {None}]
    /\ activeConnections \in SUBSET Connections
    /\ mutex \in Connections \cup {"acceptor", None}

Init ==
    /\ process = "running"
    /\ mainPc = "initialize"
    /\ acceptorPc = "none"
    /\ newConnection = None
    /\ loopCount = 0
    /\ backlog = << >>
    /\ client = [c \in Connections |-> "idle"]
    /\ connPc = [c \in Connections |-> "none"]
    /\ holders = [c \in Connections |-> {}]
    /\ socket = [c \in Connections |-> None]
    /\ peer = [d \in Descriptors |-> None]
    /\ activeConnections = {}
    /\ mutex = None

FreeDescriptors == {d \in Descriptors : peer[d] = None}
InBacklog(c) == \E i \in 1..Len(backlog) : backlog[i] = c

\* listen has succeeded and the process still has the listening socket.
Listening == process = "running" /\ mainPc # "initialize"

RegistryAlive == mainPc \notin {"destroyingRegistry", "destroyingThread"}

-----------------------------------------------------------------------------
(* Ownership.                                                              *)

\* The destructor's stop(): shutdown, close, socket_ = -1.
CloseSocket(c) ==
    /\ peer' = [peer EXCEPT ![socket[c]] = None]
    /\ socket' = [socket EXCEPT ![c] = None]

\* Mutant: the destructor does not call stop.
ReleaseWithoutStop(c, kind) ==
    /\ holders' = [holders EXCEPT ![c] = @ \ {kind}]
    /\ UNCHANGED <<peer, socket>>

\* One shared_ptr copy goes away; the last one takes the object with it.
Release(c, kind) ==
    /\ holders' = [holders EXCEPT ![c] = @ \ {kind}]
    /\ IF holders[c] = {kind} THEN CloseSocket(c) ELSE UNCHANGED <<peer, socket>>

-----------------------------------------------------------------------------
(* The main thread: CMESimulator::run.                                     *)

\* initialize: socket, bind and listen; if one fails, run and main return.
Initialize ==
    /\ mainPc = "initialize"
    /\ \/ mainPc' = "start" /\ UNCHANGED process
       \/ process' = "exited" /\ UNCHANGED mainPc
    /\ UNCHANGED <<acceptor, environment, connPc, objects, registry>>

\* start: create the accept thread ...
Start ==
    /\ mainPc = "start"
    /\ mainPc' = "awaitAcceptor"
    /\ acceptorPc' = "starting"
    /\ UNCHANGED <<process, newConnection, loopCount, environment, connPc,
                   objects, registry>>

\* std::thread throws std::system_error; nothing catches it.
StartFails ==
    /\ mainPc = "start"
    /\ process' = "aborted"
    /\ UNCHANGED <<mainPc, acceptor, environment, connPc, objects, registry>>

\* ... and wait for the promise that start keeps on its stack.
AwaitAcceptor ==
    /\ mainPc = "awaitAcceptor"
    /\ acceptorPc # "starting"
    /\ mainPc' = "sleeping"
    /\ UNCHANGED <<process, acceptor, environment, connPc, objects, registry>>

\* The 6000 seconds of run are over.
Elapse ==
    /\ mainPc = "sleeping"
    /\ mainPc' = "stopping"
    /\ UNCHANGED <<process, acceptor, environment, connPc, objects, registry>>

\* stop returns false and does nothing; msgw goes out of scope.  Members are
\* destroyed in reverse order: activeConnections_ first, without mutex_.
StopAndBeginDestroy ==
    /\ mainPc = "stopping"
    /\ mainPc' = "destroyingRegistry"
    /\ UNCHANGED <<process, acceptor, environment, connPc, objects, registry>>

\* The set drops its shared_ptr copies.
DestroyRegistry ==
    LET dropped == {c \in activeConnections : holders[c] = {"registry"}} IN
    /\ mainPc = "destroyingRegistry"
    /\ mainPc' = "destroyingThread"
    /\ activeConnections' = {}
    /\ holders' = [c \in Connections |-> holders[c] \ {"registry"}]
    /\ socket' = [c \in Connections |-> IF c \in dropped THEN None ELSE socket[c]]
    /\ peer' = [d \in Descriptors |-> IF peer[d] \in dropped THEN None ELSE peer[d]]
    /\ UNCHANGED <<process, acceptor, environment, connPc, mutex>>

\* threadPtr_ still owns the joinable accept thread: its destructor is
\* std::terminate.
DestroyThread ==
    /\ mainPc = "destroyingThread"
    /\ process' = "aborted"
    /\ UNCHANGED <<mainPc, acceptor, environment, connPc, objects, registry>>

MainRuns ==
    \/ Initialize
    \/ Start
    \/ AwaitAcceptor
    \/ StopAndBeginDestroy
    \/ DestroyRegistry
    \/ DestroyThread

-----------------------------------------------------------------------------
(* The accept loop: handleClientConnections.                               *)

\* threadStartedPromise_.set_value(), the first thing the thread does.
AcceptorStarted ==
    /\ acceptorPc = "starting"
    /\ acceptorPc' = "accept"
    /\ UNCHANGED <<process, mainPc, newConnection, loopCount, environment, connPc,
                   objects, registry>>

\* Mutant: the thread is started before activeConnections_ knows the connection.
AcceptOkInsertForgotten ==
    /\ acceptorPc = "accept"
    /\ backlog # << >>
    /\ \E d \in FreeDescriptors :
        /\ peer' = [peer EXCEPT ![d] = Head(backlog)]
        /\ socket' = [socket EXCEPT ![Head(backlog)] = d]
    /\ backlog' = Tail(backlog)
    /\ newConnection' = Head(backlog)
    /\ holders' = [holders EXCEPT ![Head(backlog)] = {"acceptor"}]
    /\ acceptorPc' = "spawn"
    /\ UNCHANGED <<process, mainPc, loopCount, client, connPc, registry>>

\* accept takes the oldest queued connection; make_shared wraps its socket.
AcceptOk ==
    /\ acceptorPc = "accept"
    /\ backlog # << >>
    /\ \E d \in FreeDescriptors :
        /\ peer' = [peer EXCEPT ![d] = Head(backlog)]
        /\ socket' = [socket EXCEPT ![Head(backlog)] = d]
    /\ backlog' = Tail(backlog)
    /\ newConnection' = Head(backlog)
    /\ holders' = [holders EXCEPT ![Head(backlog)] = {"acceptor"}]
    /\ acceptorPc' = "lock"
    /\ UNCHANGED <<process, mainPc, loopCount, client, connPc, registry>>

\* Mutant: a failed accept ends the loop.
AcceptFailsGivesUp ==
    /\ acceptorPc = "accept"
    /\ acceptorPc' = "none"
    /\ UNCHANGED <<process, mainPc, newConnection, loopCount, environment, connPc,
                   objects, registry>>

\* accept may fail at any time, and must when no descriptor is free.
AcceptFails ==
    /\ acceptorPc = "accept"
    /\ acceptorPc' = "retry"
    /\ loopCount' = RetrySeconds
    /\ UNCHANGED <<process, mainPc, newConnection, environment, connPc,
                   objects, registry>>

\* Mutant: the sleeping loop's condition is loopCount >= 0.
RetryTickOffByOne ==
    /\ acceptorPc = "retry"
    /\ loopCount' = loopCount - 1
    /\ acceptorPc' = IF loopCount = 0 THEN "accept" ELSE "retry"
    /\ UNCHANGED <<process, mainPc, newConnection, environment, connPc,
                   objects, registry>>

\* One second less to sleep; at 0, continue.
RetryTick ==
    /\ acceptorPc = "retry"
    /\ \/ loopCount > 0 /\ loopCount' = loopCount - 1 /\ UNCHANGED acceptorPc
       \/ loopCount = 0 /\ acceptorPc' = "accept" /\ UNCHANGED loopCount
    /\ UNCHANGED <<process, mainPc, newConnection, environment, connPc,
                   objects, registry>>

InsertLock ==
    /\ acceptorPc = "lock"
    /\ mutex = None
    /\ mutex' = "acceptor"
    /\ acceptorPc' = "insert"
    /\ UNCHANGED <<process, mainPc, newConnection, loopCount, environment, connPc,
                   objects, activeConnections>>

Insert ==
    /\ acceptorPc = "insert"
    /\ activeConnections' = activeConnections \cup {newConnection}
    /\ holders' = [holders EXCEPT ![newConnection] = @ \cup {"registry"}]
    /\ mutex' = None
    /\ acceptorPc' = "spawn"
    /\ UNCHANGED <<process, mainPc, newConnection, loopCount, environment, connPc,
                   socket, peer>>

\* Mutant: the lambda captures a reference to the connection, not a copy.
SpawnByReference ==
    /\ acceptorPc = "spawn"
    /\ connPc' = [connPc EXCEPT ![newConnection] = "starting"]
    /\ acceptorPc' = "awaitConnection"
    /\ UNCHANGED <<process, mainPc, newConnection, loopCount, environment, objects,
                   registry>>

\* The lambda copies newConnection; the thread is detached.
Spawn ==
    /\ acceptorPc = "spawn"
    /\ connPc' = [connPc EXCEPT ![newConnection] = "starting"]
    /\ holders' = [holders EXCEPT ![newConnection] = @ \cup {"thread"}]
    /\ acceptorPc' = "awaitConnection"
    /\ UNCHANGED <<process, mainPc, newConnection, loopCount, environment, socket,
                   peer, registry>>

\* As in StartFails, with the connection already registered.
SpawnFails ==
    /\ acceptorPc = "spawn"
    /\ process' = "aborted"
    /\ UNCHANGED <<mainPc, acceptor, environment, connPc, objects, registry>>

\* Mutant: the loop goes on without waiting for the promise.
AwaitConnectionNoWait ==
    /\ acceptorPc = "awaitConnection"
    /\ Release(newConnection, "acceptor")
    /\ newConnection' = None
    /\ acceptorPc' = "accept"
    /\ UNCHANGED <<process, mainPc, loopCount, environment, connPc, registry>>

\* Wait for the promise, then the end of the loop's scope.
AwaitConnection ==
    /\ acceptorPc = "awaitConnection"
    /\ connPc[newConnection] # "starting"
    /\ Release(newConnection, "acceptor")
    /\ newConnection' = None
    /\ acceptorPc' = "accept"
    /\ UNCHANGED <<process, mainPc, loopCount, environment, connPc, registry>>

-----------------------------------------------------------------------------
(* The thread of a connection: processMessages, then connectionEnd.        *)

\* threadStartedPromise.set_value(), then into processMessages.
ConnStarted(c) ==
    /\ connPc[c] = "starting"
    /\ connPc' = [connPc EXCEPT ![c] = "serving"]
    /\ UNCHANGED <<process, mainPc, acceptor, environment, objects, registry>>

\* A read fails, or the header is not one processMessages accepts.
LeaveLoop(c) ==
    /\ connPc[c] = "serving"
    /\ client[c] \in {"misframed", "closed"}
    /\ connPc' = [connPc EXCEPT ![c] = "lock"]
    /\ UNCHANGED <<process, mainPc, acceptor, environment, objects, registry>>

\* Answering a client that has reset its connection raises SIGPIPE.
KilledBySigpipe(c) ==
    /\ SigpipeFatal
    /\ connPc[c] = "serving"
    /\ client[c] = "closed"
    /\ process' = "killed"
    /\ UNCHANGED <<mainPc, acceptor, environment, connPc, objects, registry>>

\* Mutant: connectionEnd does not take mutex_.
EraseUnlocked(c) ==
    /\ connPc[c] = "lock"
    /\ connPc' = [connPc EXCEPT ![c] = "erase"]
    /\ UNCHANGED <<process, mainPc, acceptor, environment, objects, registry>>

EraseLock(c) ==
    /\ connPc[c] = "lock"
    /\ mutex = None
    /\ mutex' = c
    /\ connPc' = [connPc EXCEPT ![c] = "erase"]
    /\ UNCHANGED <<process, mainPc, acceptor, environment, objects,
                   activeConnections>>

\* The erase of connectionEnd; without asserts an unknown connection is logged.
Erase(c) ==
    /\ connPc[c] = "erase"
    /\ c \in activeConnections \/ ~AssertsEnabled
    /\ activeConnections' = activeConnections \ {c}
    /\ Release(c, "registry")
    /\ mutex' = None
    /\ connPc' = [connPc EXCEPT ![c] = "leaving"]
    /\ UNCHANGED <<process, mainPc, acceptor, environment>>

\* "Trying to delete an unknown connection."
EraseAsserts(c) ==
    /\ connPc[c] = "erase"
    /\ c \notin activeConnections
    /\ AssertsEnabled
    /\ process' = "aborted"
    /\ UNCHANGED <<mainPc, acceptor, environment, connPc, objects, registry>>

\* Mutant: a cycle of shared_ptr keeps the thread's copy alive.
LeaveCycle(c) ==
    /\ connPc[c] = "leaving"
    /\ connPc' = [connPc EXCEPT ![c] = "done"]
    /\ UNCHANGED <<process, mainPc, acceptor, environment, objects, registry>>

\* The thread's lambda, and with it its copy, is destroyed.
Leave(c) ==
    /\ connPc[c] = "leaving"
    /\ Release(c, "thread")
    /\ connPc' = [connPc EXCEPT ![c] = "done"]
    /\ UNCHANGED <<process, mainPc, acceptor, environment, registry>>

\* Undefined behaviour: using activeConnections_ once its destructor has begun
\* may crash (or go on: Insert, Erase and EraseAsserts stay enabled).
UseDestroyedRegistry ==
    /\ ~RegistryAlive
    /\ acceptorPc = "insert" \/ \E c \in Connections : connPc[c] = "erase"
    /\ process' = "aborted"
    /\ UNCHANGED <<mainPc, acceptor, environment, connPc, objects, registry>>

-----------------------------------------------------------------------------
(* The clients and the kernel's queue of accepted handshakes.              *)

Connect(c) ==
    /\ Listening
    /\ client[c] = "idle"
    /\ client' = [client EXCEPT ![c] = "open"]
    /\ backlog' = Append(backlog, c)
    /\ UNCHANGED <<process, mainPc, acceptor, connPc, objects, registry>>

\* The thread will find a header it gives up on.
Misframe(c) ==
    /\ client[c] = "open"
    /\ client' = [client EXCEPT ![c] = "misframed"]
    /\ UNCHANGED <<process, mainPc, acceptor, backlog, connPc, objects, registry>>

\* Close or reset, in both directions.
Close(c) ==
    /\ client[c] \in {"open", "misframed"}
    /\ client' = [client EXCEPT ![c] = "closed"]
    /\ UNCHANGED <<process, mainPc, acceptor, backlog, connPc, objects, registry>>

-----------------------------------------------------------------------------
AcceptorRuns ==
    \/ AcceptorStarted
    \/ RetryTick
    \/ InsertLock
    \/ Insert
    \/ Spawn
    \/ AwaitConnection

ThreadRuns(c) ==
    \/ ConnStarted(c)
    \/ LeaveLoop(c)
    \/ EraseLock(c)
    \/ Erase(c)
    \/ EraseAsserts(c)
    \/ Leave(c)

Crash ==
    \/ StartFails
    \/ SpawnFails
    \/ UseDestroyedRegistry
    \/ \E c \in Connections : KilledBySigpipe(c)

Clients == \E c \in Connections : Connect(c) \/ Misframe(c) \/ Close(c)

\* The process has ended: nothing moves any more.
Ended == process # "running" /\ UNCHANGED vars

Next ==
    \/ /\ process = "running"
       /\ \/ MainRuns
          \/ Elapse
          \/ AcceptorRuns
          \/ AcceptOk
          \/ AcceptFails
          \/ \E c \in Connections : ThreadRuns(c)
          \/ Crash
          \/ Clients
    \/ Ended

\* The scheduler runs every thread that can run; accept does not fail for ever
\* while a connection is queued and a descriptor is free.  Nothing is assumed
\* of the clients, of failures, or of the end of run's sleep (Elapse).
Running(A) == process = "running" /\ A

Fairness ==
    /\ WF_vars(Running(MainRuns))
    /\ WF_vars(Running(AcceptorRuns))
    /\ SF_vars(Running(AcceptOk))
    /\ \A c \in Connections : WF_vars(Running(ThreadRuns(c)))

Spec == Init /\ [][Next]_vars
FairSpec == Spec /\ Fairness

-----------------------------------------------------------------------------
(* Safety.                                                                 *)

\* Who is inside a section that uses activeConnections_: the accept loop's
\* insert, connectionEnd's erase, the destructor of the gateway.
Using ==
    (IF acceptorPc = "insert" THEN {"acceptor"} ELSE {})
    \cup {c \in Connections : connPc[c] = "erase"}
    \cup (IF mainPc = "destroyingRegistry" THEN {"main"} ELSE {})

\* "activeConnections_; //protected by mutex_" (MarketSegmentGateway.h:50): no
\* two threads use it at once.
ProtectedByMutex ==
    process = "running" => \A a, b \in Using : a = b

\* The same while the gateway lives: the accept loop and the connection
\* threads never meet in activeConnections_.
RegistryExclusive == RegistryAlive => ProtectedByMutex

\* While the gateway lives activeConnections_ holds exactly the connections
\* whose thread has yet to report its end, and the one about to get a thread.
RegistryTracksThreads ==
    RegistryAlive =>
        \A c \in Connections :
            c \in activeConnections <=>
                \/ connPc[c] \in {"starting", "serving", "lock", "erase"}
                \/ newConnection = c /\ acceptorPc = "spawn"

\* A thread never touches a connection that is destroyed, nor a descriptor that
\* has been closed or handed to another connection.
ThreadOwnsItsDescriptor ==
    \A c \in Connections :
        connPc[c] \in {"starting", "serving", "lock", "erase", "leaving"} =>
            /\ socket[c] # None
            /\ peer[socket[c]] = c

\* No descriptor is leaked: one in use belongs to a connection whose thread has
\* not finished, or that the accept loop still holds.
NoDescriptorLeak ==
    \A d \in Descriptors :
        peer[d] # None =>
            /\ socket[peer[d]] = d
            /\ connPc[peer[d]] \in {"none", "done"} => newConnection = peer[d]

\* A thread that has yet to set its promise is being waited for: the promise,
\* on the waiter's stack, still exists.
PromiseAlive ==
    /\ acceptorPc = "starting" => mainPc = "awaitAcceptor"
    /\ \A c \in Connections :
           connPc[c] = "starting" =>
               acceptorPc = "awaitConnection" /\ newConnection = c

-----------------------------------------------------------------------------
(* The inductive invariant behind the safety properties.                   *)

Holding == {"lock", "insert", "spawn", "awaitConnection"}
Living  == {"starting", "serving", "lock", "erase", "leaving"}

\* The copies of a connection's shared_ptr, read off the program counters.
OwnersInv ==
    \A c \in Connections :
        /\ "acceptor" \in holders[c] <=> newConnection = c
        /\ "thread" \in holders[c] <=> connPc[c] \in Living
        /\ "registry" \in holders[c] <=> c \in activeConnections

\* Sockets and descriptors are each other's inverse, and a connection has a
\* socket for as long as it has an owner.
SocketInv ==
    /\ \A c \in Connections : socket[c] # None <=> holders[c] # {}
    /\ \A c \in Connections, d \in Descriptors : socket[c] = d <=> peer[d] = c

\* The accept loop against the thread it starts.
AcceptorInv ==
    /\ newConnection # None <=> acceptorPc \in Holding
    /\ newConnection # None =>
           (connPc[newConnection] = "none" <=> acceptorPc # "awaitConnection")
    /\ \A c \in Connections :
           connPc[c] = "starting" => acceptorPc = "awaitConnection" /\ newConnection = c

\* run against the accept thread.
MainInv ==
    /\ mainPc \in {"initialize", "start"} => acceptorPc = "none"
    /\ acceptorPc = "starting" => mainPc = "awaitAcceptor"

MutexInv ==
    /\ mutex = "acceptor" <=> acceptorPc = "insert"
    /\ \A c \in Connections : mutex = c <=> connPc[c] = "erase"

\* Nothing is registered without a reason, even in an activeConnections_ that
\* has been destroyed; nothing is missing while the gateway lives.
RegistryInv ==
    /\ RegistryTracksThreads
    /\ \A c \in activeConnections :
           \/ connPc[c] \in {"starting", "serving", "lock", "erase"}
           \/ newConnection = c /\ acceptorPc = "spawn"

\* A connection that waits to be accepted, or is yet to be made, is untouched.
BacklogInv ==
    /\ \A i, j \in 1..Len(backlog) : backlog[i] = backlog[j] => i = j
    /\ \A i \in 1..Len(backlog) :
           /\ client[backlog[i]] # "idle"
           /\ connPc[backlog[i]] = "none"
           /\ holders[backlog[i]] = {}
    /\ \A c \in Connections :
           client[c] = "idle" => connPc[c] = "none" /\ holders[c] = {}

\* The invariant the proofs of the properties above rest on.
IInv ==
    /\ TypeOK
    /\ OwnersInv
    /\ SocketInv
    /\ AcceptorInv
    /\ MainInv
    /\ MutexInv
    /\ RegistryInv
    /\ BacklogInv

-----------------------------------------------------------------------------
(* What the gateway implements.                                            *)

\* How far a connection has come.
StageOf(c) ==
    CASE connPc[c] \in {"starting", "serving", "lock", "erase"} -> "served"
      [] connPc[c] = "leaving" \/ (connPc[c] = "done" /\ newConnection = c) -> "ended"
      [] connPc[c] = "done" /\ newConnection # c -> "closed"
      [] connPc[c] = "none" /\ newConnection = c ->
            IF acceptorPc = "spawn" THEN "registered" ELSE "admitted"
      [] OTHER -> IF InBacklog(c) THEN "queued" ELSE "new"

Lifecycle == INSTANCE ConnectionLifecycle
    WITH queue <- backlog,
         stage <- [c \in Connections |-> StageOf(c)],
         descriptor <- socket

\* The threads, the lock and the shared pointers of the gateway together
\* implement the life cycle of a connection.
ImplementsLifecycle == Lifecycle!Spec

-----------------------------------------------------------------------------
(* Liveness.                                                               *)

\* "Better to keep trying than to give up" (MarketSegmentGateway.cpp:79): if
\* descriptors keep becoming free, every queued connection is accepted.
BacklogDrains ==
    []<>(FreeDescriptors # {}) =>
        \A c \in Connections : InBacklog(c) ~> (~InBacklog(c) \/ process # "running")

\* "... or some connections disconnect which frees up some more handles"
\* (MarketSegmentGateway.cpp:78): a connection whose client is gone gives its
\* descriptor back.
DescriptorReturned ==
    \A c \in Connections :
        (socket[c] # None /\ client[c] \in {"misframed", "closed"}) ~>
            (socket[c] = None \/ process # "running")
=============================================================================
