--------------------- MODULE MarketSegmentGatewayProofs ---------------------
(***************************************************************************)
(* Proofs about MarketSegmentGateway, for any number of connections and    *)
(* descriptors and any RetrySeconds.  IInv is shown to be inductive, one   *)
(* thread of control at a time; the safety properties follow from it.      *)
(***************************************************************************)
EXTENDS MarketSegmentGateway, TLAPS

\* The steps of CMESimulator::run preserve the invariant.
LEMMA MainStep ==
    ASSUME IInv, process = "running",
           MainRuns \/ Elapse
    PROVE  IInv'
<1> USE GatewayAssumption DEF environment, objects, registry, acceptor
<1>1. CASE Initialize
  <2>1. TypeOK'
    BY <1>1 DEF IInv, TypeOK, HolderKinds, AcceptorPcs, MainPcs, ConnPcs,
        Initialize
  <2>2. MainInv'
    BY <1>1 DEF IInv, TypeOK, MainInv, Initialize
  <2>3. RegistryInv'
    BY <1>1 DEF IInv, TypeOK, RegistryInv, RegistryTracksThreads,
        RegistryAlive, Initialize
  <2>4. OwnersInv' /\ SocketInv' /\ AcceptorInv' /\ MutexInv' /\ BacklogInv'
    BY <1>1 DEF IInv, OwnersInv, SocketInv, AcceptorInv, MutexInv, BacklogInv,
        Living, Holding, Initialize
  <2> QED BY <2>1, <2>2, <2>3, <2>4 DEF IInv
<1>2. CASE Start
  <2>1. TypeOK'
    BY <1>2 DEF IInv, TypeOK, HolderKinds, AcceptorPcs, MainPcs, ConnPcs, Start
  <2>2. AcceptorInv'
    BY <1>2 DEF IInv, TypeOK, AcceptorInv, MainInv, Holding, Start
  <2>3. MainInv'
    BY <1>2 DEF IInv, TypeOK, MainInv, Start
  <2>4. MutexInv'
    BY <1>2 DEF IInv, TypeOK, MutexInv, MainInv, Start
  <2>5. RegistryInv'
    BY <1>2 DEF IInv, TypeOK, RegistryInv, MainInv, RegistryTracksThreads,
        RegistryAlive, Start
  <2>6. OwnersInv' /\ SocketInv' /\ BacklogInv'
    BY <1>2 DEF IInv, OwnersInv, SocketInv, BacklogInv, Living, Start
  <2> QED BY <2>1, <2>2, <2>3, <2>4, <2>5, <2>6 DEF IInv
<1>3. CASE AwaitAcceptor
  <2>1. TypeOK'
    BY <1>3 DEF IInv, TypeOK, HolderKinds, AcceptorPcs, MainPcs, ConnPcs,
        AwaitAcceptor
  <2>2. MainInv'
    BY <1>3 DEF IInv, TypeOK, MainInv, AwaitAcceptor
  <2>3. RegistryInv'
    BY <1>3 DEF IInv, TypeOK, RegistryInv, RegistryTracksThreads,
        RegistryAlive, AwaitAcceptor
  <2>4. OwnersInv' /\ SocketInv' /\ AcceptorInv' /\ MutexInv' /\ BacklogInv'
    BY <1>3 DEF IInv, OwnersInv, SocketInv, AcceptorInv, MutexInv, BacklogInv,
        Living, Holding, AwaitAcceptor
  <2> QED BY <2>1, <2>2, <2>3, <2>4 DEF IInv
<1>4. CASE Elapse
  <2>1. TypeOK'
    BY <1>4 DEF IInv, TypeOK, HolderKinds, AcceptorPcs, MainPcs, ConnPcs, Elapse
  <2>2. MainInv'
    BY <1>4 DEF IInv, TypeOK, MainInv, Elapse
  <2>3. RegistryInv'
    BY <1>4 DEF IInv, TypeOK, RegistryInv, RegistryTracksThreads,
        RegistryAlive, Elapse
  <2>4. OwnersInv' /\ SocketInv' /\ AcceptorInv' /\ MutexInv' /\ BacklogInv'
    BY <1>4 DEF IInv, OwnersInv, SocketInv, AcceptorInv, MutexInv, BacklogInv,
        Living, Holding, Elapse
  <2> QED BY <2>1, <2>2, <2>3, <2>4 DEF IInv
<1>5. CASE StopAndBeginDestroy
  <2>1. TypeOK'
    BY <1>5 DEF IInv, TypeOK, HolderKinds, AcceptorPcs, MainPcs, ConnPcs,
        StopAndBeginDestroy
  <2>2. MainInv'
    BY <1>5 DEF IInv, TypeOK, MainInv, StopAndBeginDestroy
  <2>3. RegistryInv'
    BY <1>5 DEF IInv, TypeOK, RegistryInv, RegistryTracksThreads,
        RegistryAlive, StopAndBeginDestroy
  <2>4. OwnersInv' /\ SocketInv' /\ AcceptorInv' /\ MutexInv' /\ BacklogInv'
    BY <1>5 DEF IInv, OwnersInv, SocketInv, AcceptorInv, MutexInv, BacklogInv,
        Living, Holding, StopAndBeginDestroy
  <2> QED BY <2>1, <2>2, <2>3, <2>4 DEF IInv
<1>6. CASE DestroyRegistry
  <2>1. TypeOK'
    BY <1>6 DEF IInv, TypeOK, HolderKinds, AcceptorPcs, MainPcs, ConnPcs,
        DestroyRegistry
  <2>2. OwnersInv'
    BY <1>6 DEF IInv, TypeOK, OwnersInv, Living, DestroyRegistry
  <2>3. SocketInv'
    BY <1>6 DEF IInv, TypeOK, SocketInv, OwnersInv, Living, DestroyRegistry
  <2>4. MainInv'
    BY <1>6 DEF IInv, TypeOK, MainInv, DestroyRegistry
  <2>5. RegistryInv'
    BY <1>6 DEF IInv, TypeOK, RegistryInv, RegistryTracksThreads,
        RegistryAlive, DestroyRegistry
  <2>6. BacklogInv'
    BY <1>6 DEF IInv, TypeOK, BacklogInv, DestroyRegistry
  <2>7. AcceptorInv' /\ MutexInv'
    BY <1>6 DEF IInv, AcceptorInv, MutexInv, Holding, DestroyRegistry
  <2> QED BY <2>1, <2>2, <2>3, <2>4, <2>5, <2>6, <2>7 DEF IInv
<1>7. CASE DestroyThread
  <2>1. TypeOK'
    BY <1>7 DEF IInv, TypeOK, HolderKinds, AcceptorPcs, MainPcs, ConnPcs,
        DestroyThread
  <2>2. MainInv'
    BY <1>7 DEF IInv, TypeOK, MainInv, DestroyThread
  <2>3. OwnersInv' /\ SocketInv' /\ AcceptorInv' /\ MutexInv' /\ RegistryInv' /\ BacklogInv'
    BY <1>7 DEF IInv, OwnersInv, SocketInv, AcceptorInv, MutexInv, RegistryInv,
        BacklogInv, Living, Holding, RegistryTracksThreads, RegistryAlive,
        DestroyThread
  <2> QED BY <2>1, <2>2, <2>3 DEF IInv
<1> QED BY <1>1, <1>2, <1>3, <1>4, <1>5, <1>6, <1>7 DEF MainRuns

\* The steps of the accept loop preserve the invariant.
LEMMA AcceptorStep ==
    ASSUME IInv, process = "running",
           AcceptorRuns \/ AcceptOk \/ AcceptFails
    PROVE  IInv'
<1> USE GatewayAssumption DEF environment, objects, registry, acceptor
<1>1. CASE AcceptorStarted
  <2>1. TypeOK'
    BY <1>1 DEF IInv, TypeOK, HolderKinds, AcceptorPcs, MainPcs, ConnPcs,
        AcceptorStarted
  <2>2. AcceptorInv'
    BY <1>1 DEF IInv, TypeOK, AcceptorInv, Holding, AcceptorStarted
  <2>3. MainInv'
    BY <1>1 DEF IInv, TypeOK, MainInv, AcceptorStarted
  <2>4. MutexInv'
    BY <1>1 DEF IInv, TypeOK, MutexInv, AcceptorStarted
  <2>5. RegistryInv'
    BY <1>1 DEF IInv, TypeOK, RegistryInv, RegistryTracksThreads,
        RegistryAlive, AcceptorStarted
  <2>6. OwnersInv' /\ SocketInv' /\ BacklogInv'
    BY <1>1 DEF IInv, OwnersInv, SocketInv, BacklogInv, Living, AcceptorStarted
  <2> QED BY <2>1, <2>2, <2>3, <2>4, <2>5, <2>6 DEF IInv
<1>2. CASE AcceptOk
  <2>1. TypeOK'
    BY <1>2 DEF IInv, TypeOK, HolderKinds, AcceptorPcs, MainPcs, ConnPcs,
        AcceptOk, FreeDescriptors
  <2>2. OwnersInv'
    BY <1>2 DEF IInv, TypeOK, OwnersInv, BacklogInv, AcceptorInv, Living,
        Holding, AcceptOk, FreeDescriptors
  <2>3. SocketInv'
    <3> DEFINE h == Head(backlog)
    <3>1. h \in Connections /\ holders[h] = {} /\ socket[h] = None
      BY <1>2 DEF AcceptOk, IInv, TypeOK, BacklogInv, SocketInv
    <3>2. PICK d \in Descriptors :
            /\ peer[d] = None
            /\ peer' = [peer EXCEPT ![d] = h]
            /\ socket' = [socket EXCEPT ![h] = d]
      BY <1>2 DEF AcceptOk, FreeDescriptors
    <3>3. holders' = [holders EXCEPT ![h] = {"acceptor"}]
      BY <1>2 DEF AcceptOk
    <3> QED BY <3>1, <3>2, <3>3 DEF IInv, TypeOK, SocketInv
  <2>4. AcceptorInv'
    BY <1>2 DEF IInv, TypeOK, AcceptorInv, BacklogInv, Holding, AcceptOk,
        FreeDescriptors
  <2>5. MainInv'
    BY <1>2 DEF IInv, TypeOK, MainInv, AcceptOk, FreeDescriptors
  <2>6. MutexInv'
    BY <1>2 DEF IInv, TypeOK, MutexInv, AcceptOk, FreeDescriptors
  <2>7. RegistryInv'
    BY <1>2 DEF IInv, TypeOK, RegistryInv, RegistryTracksThreads,
        RegistryAlive, AcceptOk, FreeDescriptors
  <2>8. BacklogInv'
    BY <1>2 DEF IInv, TypeOK, BacklogInv, AcceptOk, FreeDescriptors
  <2> QED BY <2>1, <2>2, <2>3, <2>4, <2>5, <2>6, <2>7, <2>8 DEF IInv
<1>3. CASE AcceptFails
  <2>1. TypeOK'
    BY <1>3 DEF IInv, TypeOK, HolderKinds, AcceptorPcs, MainPcs, ConnPcs,
        AcceptFails
  <2>2. AcceptorInv'
    BY <1>3 DEF IInv, TypeOK, AcceptorInv, Holding, AcceptFails
  <2>3. MainInv'
    BY <1>3 DEF IInv, TypeOK, MainInv, AcceptFails
  <2>4. MutexInv'
    BY <1>3 DEF IInv, TypeOK, MutexInv, AcceptFails
  <2>5. RegistryInv'
    BY <1>3 DEF IInv, TypeOK, RegistryInv, RegistryTracksThreads,
        RegistryAlive, AcceptFails
  <2>6. OwnersInv' /\ SocketInv' /\ BacklogInv'
    BY <1>3 DEF IInv, OwnersInv, SocketInv, BacklogInv, Living, AcceptFails
  <2> QED BY <2>1, <2>2, <2>3, <2>4, <2>5, <2>6 DEF IInv
<1>4. CASE RetryTick
  <2>1. TypeOK'
    BY <1>4 DEF IInv, TypeOK, HolderKinds, AcceptorPcs, MainPcs, ConnPcs,
        RetryTick
  <2>2. AcceptorInv'
    BY <1>4 DEF IInv, TypeOK, AcceptorInv, Holding, RetryTick
  <2>3. MainInv'
    BY <1>4 DEF IInv, TypeOK, MainInv, RetryTick
  <2>4. MutexInv'
    BY <1>4 DEF IInv, TypeOK, MutexInv, RetryTick
  <2>5. RegistryInv'
    BY <1>4 DEF IInv, TypeOK, RegistryInv, RegistryTracksThreads,
        RegistryAlive, RetryTick
  <2>6. OwnersInv' /\ SocketInv' /\ BacklogInv'
    BY <1>4 DEF IInv, OwnersInv, SocketInv, BacklogInv, Living, RetryTick
  <2> QED BY <2>1, <2>2, <2>3, <2>4, <2>5, <2>6 DEF IInv
<1>5. CASE InsertLock
  <2>1. TypeOK'
    BY <1>5 DEF IInv, TypeOK, HolderKinds, AcceptorPcs, MainPcs, ConnPcs,
        InsertLock
  <2>2. AcceptorInv'
    BY <1>5 DEF IInv, TypeOK, AcceptorInv, Holding, InsertLock
  <2>3. MainInv'
    BY <1>5 DEF IInv, TypeOK, MainInv, InsertLock
  <2>4. MutexInv'
    BY <1>5 DEF IInv, TypeOK, MutexInv, InsertLock
  <2>5. RegistryInv'
    BY <1>5 DEF IInv, TypeOK, RegistryInv, RegistryTracksThreads,
        RegistryAlive, InsertLock
  <2>6. OwnersInv' /\ SocketInv' /\ BacklogInv'
    BY <1>5 DEF IInv, OwnersInv, SocketInv, BacklogInv, Living, InsertLock
  <2> QED BY <2>1, <2>2, <2>3, <2>4, <2>5, <2>6 DEF IInv
<1>6. CASE Insert
  <2>1. TypeOK'
    BY <1>6 DEF IInv, TypeOK, AcceptorInv, HolderKinds, AcceptorPcs, MainPcs,
        ConnPcs, Holding, Insert
  <2>2. OwnersInv'
    BY <1>6 DEF IInv, TypeOK, OwnersInv, Living, Insert
  <2>3. SocketInv'
    BY <1>6 DEF IInv, TypeOK, SocketInv, OwnersInv, AcceptorInv, Living,
        Holding, Insert
  <2>4. AcceptorInv'
    BY <1>6 DEF IInv, TypeOK, AcceptorInv, Holding, Insert
  <2>5. MainInv'
    BY <1>6 DEF IInv, TypeOK, MainInv, Insert
  <2>6. MutexInv'
    BY <1>6 DEF IInv, TypeOK, MutexInv, Insert
  <2>7. RegistryInv'
    BY <1>6 DEF IInv, TypeOK, RegistryInv, RegistryTracksThreads,
        RegistryAlive, Insert
  <2>8. BacklogInv'
    BY <1>6 DEF IInv, TypeOK, BacklogInv, OwnersInv, AcceptorInv, Living,
        Holding, Insert
  <2> QED BY <2>1, <2>2, <2>3, <2>4, <2>5, <2>6, <2>7, <2>8 DEF IInv
<1>7. CASE Spawn
  <2>1. TypeOK'
    BY <1>7 DEF IInv, TypeOK, HolderKinds, AcceptorPcs, MainPcs, ConnPcs, Spawn
  <2>2. OwnersInv'
    BY <1>7 DEF IInv, TypeOK, OwnersInv, Living, Spawn
  <2>3. SocketInv'
    BY <1>7 DEF IInv, TypeOK, SocketInv, OwnersInv, AcceptorInv, Living,
        Holding, Spawn
  <2>4. AcceptorInv'
    BY <1>7 DEF IInv, TypeOK, AcceptorInv, Holding, Spawn
  <2>5. MainInv'
    BY <1>7 DEF IInv, TypeOK, MainInv, Spawn
  <2>6. MutexInv'
    BY <1>7 DEF IInv, TypeOK, MutexInv, AcceptorInv, Holding, Spawn
  <2>7. RegistryInv'
    BY <1>7 DEF IInv, TypeOK, RegistryInv, RegistryTracksThreads,
        RegistryAlive, Spawn
  <2>8. BacklogInv'
    BY <1>7 DEF IInv, TypeOK, BacklogInv, OwnersInv, AcceptorInv, Living,
        Holding, Spawn
  <2> QED BY <2>1, <2>2, <2>3, <2>4, <2>5, <2>6, <2>7, <2>8 DEF IInv
<1>8. CASE AwaitConnection
  <2>1. TypeOK'
    BY <1>8 DEF IInv, TypeOK, HolderKinds, AcceptorPcs, MainPcs, ConnPcs,
        AwaitConnection, Release, CloseSocket
  <2>2. OwnersInv'
    BY <1>8 DEF IInv, TypeOK, OwnersInv, Living, AwaitConnection, Release,
        CloseSocket
  <2>3. SocketInv'
    BY <1>8 DEF IInv, TypeOK, SocketInv, OwnersInv, AcceptorInv, Living,
        Holding, AwaitConnection, Release, CloseSocket
  <2>4. AcceptorInv'
    BY <1>8 DEF IInv, TypeOK, AcceptorInv, Holding, AwaitConnection, Release,
        CloseSocket
  <2>5. MainInv'
    BY <1>8 DEF IInv, TypeOK, MainInv, AwaitConnection, Release, CloseSocket
  <2>6. MutexInv'
    BY <1>8 DEF IInv, TypeOK, MutexInv, AwaitConnection, Release, CloseSocket
  <2>7. RegistryInv'
    BY <1>8 DEF IInv, TypeOK, RegistryInv, RegistryTracksThreads,
        RegistryAlive, AwaitConnection, Release, CloseSocket
  <2>8. BacklogInv'
    BY <1>8 DEF IInv, TypeOK, BacklogInv, AwaitConnection, Release, CloseSocket
  <2> QED BY <2>1, <2>2, <2>3, <2>4, <2>5, <2>6, <2>7, <2>8 DEF IInv
<1> QED BY <1>1, <1>2, <1>3, <1>4, <1>5, <1>6, <1>7, <1>8 DEF AcceptorRuns

\* The steps of a connection's thread preserve the invariant.
LEMMA ThreadStep ==
    ASSUME IInv, process = "running", NEW c \in Connections,
           ThreadRuns(c)
    PROVE  IInv'
<1> USE GatewayAssumption DEF environment, objects, registry, acceptor
<1>1. CASE ConnStarted(c)
  <2>1. TypeOK'
    BY <1>1 DEF IInv, TypeOK, HolderKinds, AcceptorPcs, MainPcs, ConnPcs,
        ConnStarted
  <2>2. OwnersInv'
    BY <1>1 DEF IInv, TypeOK, OwnersInv, Living, ConnStarted
  <2>3. AcceptorInv'
    BY <1>1 DEF IInv, TypeOK, AcceptorInv, Holding, ConnStarted
  <2>4. MutexInv'
    BY <1>1 DEF IInv, TypeOK, MutexInv, ConnStarted
  <2>5. RegistryInv'
    BY <1>1 DEF IInv, TypeOK, RegistryInv, RegistryTracksThreads,
        RegistryAlive, ConnStarted
  <2>6. BacklogInv'
    BY <1>1 DEF IInv, TypeOK, BacklogInv, ConnStarted
  <2>7. SocketInv' /\ MainInv'
    BY <1>1 DEF IInv, SocketInv, MainInv, ConnStarted
  <2> QED BY <2>1, <2>2, <2>3, <2>4, <2>5, <2>6, <2>7 DEF IInv
<1>2. CASE LeaveLoop(c)
  <2>1. TypeOK'
    BY <1>2 DEF IInv, TypeOK, HolderKinds, AcceptorPcs, MainPcs, ConnPcs,
        LeaveLoop
  <2>2. OwnersInv'
    BY <1>2 DEF IInv, TypeOK, OwnersInv, Living, LeaveLoop
  <2>3. AcceptorInv'
    BY <1>2 DEF IInv, TypeOK, AcceptorInv, Holding, LeaveLoop
  <2>4. MutexInv'
    BY <1>2 DEF IInv, TypeOK, MutexInv, LeaveLoop
  <2>5. RegistryInv'
    BY <1>2 DEF IInv, TypeOK, RegistryInv, RegistryTracksThreads,
        RegistryAlive, LeaveLoop
  <2>6. BacklogInv'
    BY <1>2 DEF IInv, TypeOK, BacklogInv, LeaveLoop
  <2>7. SocketInv' /\ MainInv'
    BY <1>2 DEF IInv, SocketInv, MainInv, LeaveLoop
  <2> QED BY <2>1, <2>2, <2>3, <2>4, <2>5, <2>6, <2>7 DEF IInv
<1>3. CASE EraseLock(c)
  <2>1. TypeOK'
    BY <1>3 DEF IInv, TypeOK, HolderKinds, AcceptorPcs, MainPcs, ConnPcs,
        EraseLock
  <2>2. OwnersInv'
    BY <1>3 DEF IInv, TypeOK, OwnersInv, Living, EraseLock
  <2>3. AcceptorInv'
    BY <1>3 DEF IInv, TypeOK, AcceptorInv, Holding, EraseLock
  <2>4. MutexInv'
    BY <1>3 DEF IInv, TypeOK, MutexInv, EraseLock
  <2>5. RegistryInv'
    BY <1>3 DEF IInv, TypeOK, RegistryInv, RegistryTracksThreads,
        RegistryAlive, EraseLock
  <2>6. BacklogInv'
    BY <1>3 DEF IInv, TypeOK, BacklogInv, EraseLock
  <2>7. SocketInv' /\ MainInv'
    BY <1>3 DEF IInv, SocketInv, MainInv, EraseLock
  <2> QED BY <2>1, <2>2, <2>3, <2>4, <2>5, <2>6, <2>7 DEF IInv
<1>4. CASE Erase(c)
  <2>1. TypeOK'
    BY <1>4 DEF IInv, TypeOK, HolderKinds, AcceptorPcs, MainPcs, ConnPcs,
        Erase, Release, CloseSocket
  <2>2. OwnersInv'
    BY <1>4 DEF IInv, TypeOK, OwnersInv, Living, Erase, Release, CloseSocket
  <2>3. SocketInv'
    BY <1>4 DEF IInv, TypeOK, SocketInv, Erase, Release, CloseSocket
  <2>4. AcceptorInv'
    BY <1>4 DEF IInv, TypeOK, AcceptorInv, Holding, Erase, Release, CloseSocket
  <2>5. MutexInv'
    BY <1>4 DEF IInv, TypeOK, MutexInv, Erase, Release, CloseSocket
  <2>6. RegistryInv'
    BY <1>4 DEF IInv, TypeOK, RegistryInv, AcceptorInv, RegistryTracksThreads,
        RegistryAlive, Holding, Erase, Release, CloseSocket
  <2>7. BacklogInv'
    BY <1>4 DEF IInv, TypeOK, BacklogInv, Erase, Release, CloseSocket
  <2>8. MainInv'
    BY <1>4 DEF IInv, MainInv, Erase
  <2> QED BY <2>1, <2>2, <2>3, <2>4, <2>5, <2>6, <2>7, <2>8 DEF IInv
<1>5. CASE EraseAsserts(c)
  <2>1. TypeOK'
    BY <1>5 DEF IInv, TypeOK, HolderKinds, AcceptorPcs, MainPcs, ConnPcs,
        EraseAsserts
  <2>2. MainInv'
    BY <1>5 DEF IInv, TypeOK, MainInv, EraseAsserts
  <2>3. OwnersInv' /\ SocketInv' /\ AcceptorInv' /\ MutexInv' /\ RegistryInv' /\ BacklogInv'
    BY <1>5 DEF IInv, OwnersInv, SocketInv, AcceptorInv, MutexInv, RegistryInv,
        BacklogInv, Living, Holding, RegistryTracksThreads, RegistryAlive,
        EraseAsserts
  <2> QED BY <2>1, <2>2, <2>3 DEF IInv
<1>6. CASE Leave(c)
  <2>1. TypeOK'
    BY <1>6 DEF IInv, TypeOK, HolderKinds, AcceptorPcs, MainPcs, ConnPcs,
        Leave, Release, CloseSocket
  <2>2. OwnersInv'
    BY <1>6 DEF IInv, TypeOK, OwnersInv, Living, Leave, Release, CloseSocket
  <2>3. SocketInv'
    BY <1>6 DEF IInv, TypeOK, SocketInv, Leave, Release, CloseSocket
  <2>4. AcceptorInv'
    BY <1>6 DEF IInv, TypeOK, AcceptorInv, Holding, Leave, Release, CloseSocket
  <2>5. MutexInv'
    BY <1>6 DEF IInv, TypeOK, MutexInv, Leave, Release, CloseSocket
  <2>6. RegistryInv'
    BY <1>6 DEF IInv, TypeOK, RegistryInv, RegistryTracksThreads,
        RegistryAlive, Leave, Release, CloseSocket
  <2>7. BacklogInv'
    BY <1>6 DEF IInv, TypeOK, BacklogInv, Leave, Release, CloseSocket
  <2>8. MainInv'
    BY <1>6 DEF IInv, MainInv, Leave
  <2> QED BY <2>1, <2>2, <2>3, <2>4, <2>5, <2>6, <2>7, <2>8 DEF IInv
<1> QED BY <1>1, <1>2, <1>3, <1>4, <1>5, <1>6 DEF ThreadRuns

\* The steps of a client preserve the invariant.
LEMMA ClientStep ==
    ASSUME IInv, process = "running", NEW c \in Connections,
           Connect(c) \/ Misframe(c) \/ Close(c)
    PROVE  IInv'
<1> USE GatewayAssumption DEF environment, objects, registry, acceptor
<1>1. CASE Connect(c)
  <2>1. TypeOK'
    BY <1>1 DEF IInv, TypeOK, HolderKinds, AcceptorPcs, MainPcs, ConnPcs,
        Connect
  <2>2. BacklogInv'
    BY <1>1 DEF IInv, TypeOK, BacklogInv, Connect
  <2>3. OwnersInv' /\ SocketInv' /\ AcceptorInv' /\ MainInv' /\ MutexInv' /\ RegistryInv'
    BY <1>1 DEF IInv, OwnersInv, SocketInv, AcceptorInv, MainInv, MutexInv,
        RegistryInv, Living, Holding, RegistryTracksThreads, RegistryAlive,
        Connect
  <2> QED BY <2>1, <2>2, <2>3 DEF IInv
<1>2. CASE Misframe(c)
  <2>1. TypeOK'
    BY <1>2 DEF IInv, TypeOK, HolderKinds, AcceptorPcs, MainPcs, ConnPcs,
        Misframe
  <2>2. BacklogInv'
    BY <1>2 DEF IInv, TypeOK, BacklogInv, Misframe
  <2>3. OwnersInv' /\ SocketInv' /\ AcceptorInv' /\ MainInv' /\ MutexInv' /\ RegistryInv'
    BY <1>2 DEF IInv, OwnersInv, SocketInv, AcceptorInv, MainInv, MutexInv,
        RegistryInv, Living, Holding, RegistryTracksThreads, RegistryAlive,
        Misframe
  <2> QED BY <2>1, <2>2, <2>3 DEF IInv
<1>3. CASE Close(c)
  <2>1. TypeOK'
    BY <1>3 DEF IInv, TypeOK, HolderKinds, AcceptorPcs, MainPcs, ConnPcs, Close
  <2>2. BacklogInv'
    BY <1>3 DEF IInv, TypeOK, BacklogInv, Close
  <2>3. OwnersInv' /\ SocketInv' /\ AcceptorInv' /\ MainInv' /\ MutexInv' /\ RegistryInv'
    BY <1>3 DEF IInv, OwnersInv, SocketInv, AcceptorInv, MainInv, MutexInv,
        RegistryInv, Living, Holding, RegistryTracksThreads, RegistryAlive,
        Close
  <2> QED BY <2>1, <2>2, <2>3 DEF IInv
<1> QED BY <1>1, <1>2, <1>3

\* The ways in which the environment ends the process change nothing else.
LEMMA CrashStep ==
    ASSUME IInv, process = "running", Crash
    PROVE  IInv'
<1> USE DEF environment, objects, registry, acceptor
<1>1. UNCHANGED <<mainPc, acceptor, environment, connPc, objects, registry>>
  BY DEF Crash, StartFails, SpawnFails, UseDestroyedRegistry, KilledBySigpipe
<1>2. TypeOK'
  BY <1>1 DEF Crash, StartFails, SpawnFails, UseDestroyedRegistry, KilledBySigpipe,
      IInv, TypeOK
<1>3. MainInv'
  BY <1>1 DEF IInv, MainInv
<1>4. OwnersInv' /\ SocketInv' /\ AcceptorInv' /\ MutexInv' /\ RegistryInv' /\ BacklogInv'
  BY <1>1 DEF IInv, OwnersInv, SocketInv, AcceptorInv, MutexInv, RegistryInv,
      RegistryTracksThreads, RegistryAlive, BacklogInv
<1> QED BY <1>2, <1>3, <1>4 DEF IInv

LEMMA InitIInv == Init => IInv
<1> SUFFICES ASSUME Init PROVE IInv
  OBVIOUS
<1> USE GatewayAssumption DEF Init
<1>1. TypeOK
  BY DEF TypeOK, MainPcs, AcceptorPcs, ConnPcs, HolderKinds
<1>2. OwnersInv /\ SocketInv /\ AcceptorInv
  BY DEF OwnersInv, SocketInv, AcceptorInv, Living, Holding
<1>3. MainInv /\ MutexInv
  BY DEF MainInv, MutexInv
<1>4. RegistryInv /\ BacklogInv
  BY DEF RegistryInv, RegistryTracksThreads, BacklogInv
<1> QED BY <1>1, <1>2, <1>3, <1>4 DEF IInv

LEMMA NextIInv == IInv /\ [Next]_vars => IInv'
<1> SUFFICES ASSUME IInv, [Next]_vars PROVE IInv'
  OBVIOUS
<1>1. CASE UNCHANGED vars
  BY <1>1 DEF vars, acceptor, environment, objects, registry, IInv, TypeOK, OwnersInv,
      SocketInv, AcceptorInv, MainInv, MutexInv, RegistryInv, RegistryTracksThreads,
      RegistryAlive, BacklogInv
<1>2. CASE process = "running" /\ (MainRuns \/ Elapse)
  BY <1>2, MainStep
<1>3. CASE process = "running" /\ (AcceptorRuns \/ AcceptOk \/ AcceptFails)
  BY <1>3, AcceptorStep
<1>4. CASE process = "running" /\ \E c \in Connections : ThreadRuns(c)
  BY <1>4, ThreadStep
<1>5. CASE process = "running" /\ Clients
  BY <1>5, ClientStep DEF Clients
<1>6. CASE process = "running" /\ Crash
  BY <1>6, CrashStep
<1> QED BY <1>1, <1>2, <1>3, <1>4, <1>5, <1>6 DEF Next, Ended

\* The invariant holds of every behaviour of the gateway.
THEOREM Invariance == Spec => []IInv
<1> QED BY InitIInv, NextIInv, PTL DEF Spec

-----------------------------------------------------------------------------
\* Every variable keeps its type.
THEOREM TypeCorrect == Spec => []TypeOK
<1>1. IInv => TypeOK
  BY DEF IInv
<1> QED BY <1>1, Invariance, PTL

\* mutex_ keeps the accept loop's insert and the connection threads' erase apart,
\* however many threads there are, until the gateway is destroyed.
THEOREM RegistryIsExclusive == Spec => []RegistryExclusive
<1>1. IInv => RegistryExclusive
  BY GatewayAssumption DEF IInv, MutexInv, RegistryExclusive, ProtectedByMutex,
      RegistryAlive, Using
<1> QED BY <1>1, Invariance, PTL

\* activeConnections_ holds exactly the connections whose thread has yet to end.
THEOREM RegistryIsAccurate == Spec => []RegistryTracksThreads
<1>1. IInv => RegistryTracksThreads
  BY DEF IInv, RegistryInv
<1> QED BY <1>1, Invariance, PTL

\* No thread uses a destroyed connection or another connection's descriptor.
THEOREM ThreadsOwnTheirDescriptors == Spec => []ThreadOwnsItsDescriptor
<1>1. IInv => ThreadOwnsItsDescriptor
  <2> SUFFICES ASSUME IInv, NEW c \in Connections, connPc[c] \in Living
               PROVE  socket[c] # None /\ peer[socket[c]] = c
    BY DEF ThreadOwnsItsDescriptor, Living
  <2>1. "thread" \in holders[c]
    BY DEF IInv, OwnersInv
  <2> QED BY <2>1 DEF IInv, TypeOK, SocketInv
<1> QED BY <1>1, Invariance, PTL

\* No descriptor outlives the connection it was opened for.
THEOREM DescriptorsDoNotLeak == Spec => []NoDescriptorLeak
<1>1. IInv => NoDescriptorLeak
  <2> SUFFICES ASSUME IInv, NEW d \in Descriptors, peer[d] # None
               PROVE  /\ socket[peer[d]] = d
                      /\ connPc[peer[d]] \in {"none", "done"} => newConnection = peer[d]
    BY DEF NoDescriptorLeak
  <2>1. peer[d] \in Connections /\ socket[peer[d]] = d
    BY DEF IInv, TypeOK, SocketInv
  <2>2. holders[peer[d]] # {}
    BY <2>1, GatewayAssumption DEF IInv, SocketInv
  <2>3. PICK kind \in HolderKinds : kind \in holders[peer[d]]
    BY <2>1, <2>2 DEF IInv, TypeOK
  <2>4. CASE kind = "acceptor"
    BY <2>1, <2>3, <2>4 DEF IInv, OwnersInv
  <2>5. CASE kind = "thread"
    BY <2>1, <2>3, <2>5 DEF IInv, OwnersInv, Living
  <2>6. CASE kind = "registry"
    BY <2>1, <2>3, <2>6 DEF IInv, OwnersInv, RegistryInv
  <2> QED BY <2>1, <2>3, <2>4, <2>5, <2>6 DEF HolderKinds
<1> QED BY <1>1, Invariance, PTL

\* Whoever owns the promise a new thread is about to set is still waiting for it.
THEOREM PromisesStayAlive == Spec => []PromiseAlive
<1>1. IInv => PromiseAlive
  BY DEF IInv, AcceptorInv, MainInv, PromiseAlive
<1> QED BY <1>1, Invariance, PTL

-----------------------------------------------------------------------------
(* The gateway implements ConnectionLifecycle.                             *)

Stage == [c \in Connections |-> StageOf(c)]

\* Nothing the abstract specification sees has changed.
Unseen == UNCHANGED <<backlog, Stage, socket>>

\* A step that moves no connection from one stage to the next is a stutter.
LEMMA UnseenStep ==
    ASSUME UNCHANGED <<connPc, newConnection, backlog, socket>>,
           newConnection # None => (acceptorPc' = "spawn" <=> acceptorPc = "spawn"),
           IInv
    PROVE  Unseen
<1>1. \A c \in Connections : StageOf(c)' = StageOf(c)
  BY GatewayAssumption DEF StageOf, InBacklog
<1> QED BY <1>1 DEF Unseen, Stage

LEMMA InitRefines == Init => Lifecycle!Init
<1> SUFFICES ASSUME Init PROVE Lifecycle!Init
  OBVIOUS
<1>1. \A c \in Connections : StageOf(c) = "new"
  BY GatewayAssumption DEF Init, StageOf, InBacklog
<1> QED BY <1>1 DEF Init, Lifecycle!Init

\* run never moves a connection along.
LEMMA MainRefines ==
    ASSUME IInv, MainRuns \/ Elapse
    PROVE  Unseen
<1> USE DEF environment, objects, registry, acceptor
<1>1. CASE Initialize
  BY <1>1, UnseenStep DEF Initialize
<1>2. CASE Start
  BY <1>2, UnseenStep DEF Start, IInv, MainInv
<1>3. CASE AwaitAcceptor
  BY <1>3, UnseenStep DEF AwaitAcceptor
<1>4. CASE Elapse
  BY <1>4, UnseenStep DEF Elapse
<1>5. CASE StopAndBeginDestroy
  BY <1>5, UnseenStep DEF StopAndBeginDestroy
<1>6. CASE DestroyRegistry
  <2>1. \A c \in activeConnections : holders[c] # {"registry"}
    BY DEF IInv, TypeOK, OwnersInv, RegistryInv, Living
  <2>2. socket' = socket
    BY <1>6, <2>1 DEF DestroyRegistry, IInv, TypeOK
  <2> QED BY <1>6, <2>2, UnseenStep DEF DestroyRegistry
<1>7. CASE DestroyThread
  BY <1>7, UnseenStep DEF DestroyThread
<1> QED BY <1>1, <1>2, <1>3, <1>4, <1>5, <1>6, <1>7 DEF MainRuns

LEMMA AcceptOkRefines ==
    ASSUME IInv, AcceptOk, NEW h, h = Head(backlog)
    PROVE  Lifecycle!Admit(h)
<1>1. /\ h \in Connections /\ backlog # << >>
      /\ connPc[h] = "none" /\ newConnection = None
  BY DEF AcceptOk, IInv, TypeOK, BacklogInv, AcceptorInv, Holding
<1>2. \A c \in Connections \ {h} : InBacklog(c)' <=> InBacklog(c)
  <2> SUFFICES ASSUME NEW c \in Connections, c # h
               PROVE  InBacklog(c)' <=> InBacklog(c)
    OBVIOUS
  <2>1. backlog \in Seq(Connections) /\ backlog' = Tail(backlog)
    BY DEF AcceptOk, IInv, TypeOK
  <2>2. /\ Len(backlog) \in Nat \ {0} /\ Len(backlog') = Len(backlog) - 1
        /\ h = backlog[1]
    BY <1>1, <2>1
  <2>3. \A i \in 1..Len(backlog') : backlog'[i] = backlog[i + 1]
    BY <1>1, <2>1
  <2>4. ASSUME NEW i \in 1..Len(backlog), backlog[i] = c
        PROVE  i - 1 \in 1..Len(backlog') /\ backlog'[i - 1] = c
    BY <2>2, <2>3, <2>4
  <2>5. ASSUME NEW i \in 1..Len(backlog'), backlog'[i] = c
        PROVE  i + 1 \in 1..Len(backlog) /\ backlog[i + 1] = c
    BY <2>2, <2>3, <2>5
  <2> QED BY <2>4, <2>5 DEF InBacklog
<1>3. \A c \in Connections \ {h} : StageOf(c)' = StageOf(c)
  BY <1>1, <1>2, GatewayAssumption DEF AcceptOk, StageOf
<1>4. StageOf(h)' = "admitted"
  BY <1>1 DEF AcceptOk, StageOf
<1>5. Stage' = [Stage EXCEPT ![h] = "admitted"]
  BY <1>1, <1>3, <1>4 DEF Stage
<1>6. PICK d \in Descriptors : peer[d] = None /\ socket' = [socket EXCEPT ![h] = d]
  BY DEF AcceptOk, FreeDescriptors
<1>7. \A other \in Connections : socket[other] # d
  BY <1>6, GatewayAssumption DEF IInv, SocketInv
<1>8. backlog' = Tail(backlog)
  BY DEF AcceptOk
<1> QED BY <1>1, <1>5, <1>6, <1>7, <1>8 DEF Lifecycle!Admit, Stage


\* A step that moves one connection and no other.
LEMMA MovesOne ==
    ASSUME NEW c \in Connections, NEW to, StageOf(c)' = to,
           \A other \in Connections \ {c} : StageOf(other)' = StageOf(other)
    PROVE  Stage[c] = StageOf(c) /\ Stage' = [Stage EXCEPT ![c] = to]
BY DEF Stage

\* Insert registers and Spawn serves the accept loop's connection.  Dropping the
\* loop's copy closes the connection if its thread has already finished.
LEMMA AcceptorRefines ==
    ASSUME IInv, AcceptorRuns \/ AcceptFails
    PROVE  Unseen \/ Lifecycle!Next
<1> USE GatewayAssumption DEF environment, objects, registry, acceptor
<1>1. CASE AcceptorStarted
  BY <1>1, UnseenStep DEF AcceptorStarted
<1>2. CASE AcceptFails
  BY <1>2, UnseenStep DEF AcceptFails
<1>3. CASE RetryTick
  BY <1>3, UnseenStep DEF RetryTick, IInv, AcceptorInv, Holding
<1>4. CASE InsertLock
  BY <1>4, UnseenStep DEF InsertLock
<1>5. CASE Insert
  <2>1. PICK c \in Connections : c = newConnection /\ connPc[c] = "none"
    BY <1>5 DEF Insert, IInv, TypeOK, AcceptorInv, Holding
  <2>2. /\ StageOf(c) = "admitted" /\ StageOf(c)' = "registered"
        /\ \A other \in Connections \ {c} : StageOf(other)' = StageOf(other)
    BY <1>5, <2>1 DEF Insert, StageOf, InBacklog
  <2>3. Lifecycle!Register(c)
    BY <1>5, <2>2, MovesOne DEF Insert, Lifecycle!Register, Lifecycle!Proceed, Stage
  <2> QED BY <2>3 DEF Lifecycle!Next
<1>6. CASE Spawn
  <2>1. PICK c \in Connections : c = newConnection /\ connPc[c] = "none"
    BY <1>6 DEF Spawn, IInv, TypeOK, AcceptorInv, Holding
  <2>2. /\ StageOf(c) = "registered" /\ StageOf(c)' = "served"
        /\ \A other \in Connections \ {c} : StageOf(other)' = StageOf(other)
    BY <1>6, <2>1 DEF Spawn, IInv, TypeOK, StageOf, InBacklog
  <2>3. Lifecycle!Serve(c)
    BY <1>6, <2>2, MovesOne DEF Spawn, Lifecycle!Serve, Lifecycle!Proceed, Stage
  <2> QED BY <2>3 DEF Lifecycle!Next
<1>7. CASE AwaitConnection
  <2>1. PICK c \in Connections : c = newConnection /\ connPc[c] # "none"
    BY <1>7 DEF AwaitConnection, IInv, TypeOK, AcceptorInv, Holding
  <2>2. \A other \in Connections \ {c} : StageOf(other)' = StageOf(other)
    BY <1>7, <2>1 DEF AwaitConnection, StageOf, InBacklog
  <2>3. CASE connPc[c] = "done"
    <3>1. holders[c] = {"acceptor"}
      BY <1>7, <2>1, <2>3 DEF AwaitConnection, IInv, TypeOK, HolderKinds, OwnersInv,
          RegistryInv, Living
    <3>2. socket' = [socket EXCEPT ![c] = None]
      BY <1>7, <2>1, <3>1 DEF AwaitConnection, Release, CloseSocket
    <3>3. StageOf(c) = "ended" /\ StageOf(c)' = "closed"
      BY <1>7, <2>1, <2>3 DEF AwaitConnection, StageOf
    <3>4. Lifecycle!Close(c)
      BY <1>7, <2>2, <3>2, <3>3, MovesOne DEF AwaitConnection, Lifecycle!Close, Stage
    <3> QED BY <3>4 DEF Lifecycle!Next
  <2>4. CASE connPc[c] # "done"
    <3>1. "thread" \in holders[c]
      BY <2>1, <2>4 DEF IInv, TypeOK, ConnPcs, OwnersInv, Living
    <3>2. socket' = socket
      BY <1>7, <2>1, <3>1 DEF AwaitConnection, Release
    <3>3. StageOf(c)' = StageOf(c)
      BY <1>7, <2>1, <2>4 DEF AwaitConnection, IInv, TypeOK, ConnPcs, StageOf
    <3> QED BY <1>7, <2>2, <3>2, <3>3 DEF AwaitConnection, Unseen, Stage
  <2> QED BY <2>3, <2>4
<1> QED BY <1>1, <1>2, <1>3, <1>4, <1>5, <1>6, <1>7 DEF AcceptorRuns

\* Erase ends a connection; the thread's last step closes it, unless the accept
\* loop still holds its copy.
LEMMA ThreadRefines ==
    ASSUME IInv, NEW c \in Connections, ThreadRuns(c)
    PROVE  Unseen \/ Lifecycle!Next
<1> USE GatewayAssumption DEF environment, objects, registry, acceptor
<1>1. CASE ConnStarted(c) \/ LeaveLoop(c) \/ EraseLock(c)
  <2>1. /\ connPc[c] \in {"starting", "serving", "lock"}
        /\ \E pc \in {"serving", "lock", "erase"} : connPc' = [connPc EXCEPT ![c] = pc]
        /\ UNCHANGED <<acceptorPc, newConnection, backlog, socket>>
    BY <1>1 DEF ConnStarted, LeaveLoop, EraseLock
  <2>2. \A other \in Connections : StageOf(other)' = StageOf(other)
    BY <2>1 DEF IInv, TypeOK, StageOf, InBacklog
  <2> QED BY <2>1, <2>2 DEF Unseen, Stage
<1>2. CASE Erase(c)
  <2>1. "thread" \in holders[c]
    BY <1>2 DEF Erase, IInv, OwnersInv, Living
  <2>2. socket' = socket
    BY <1>2, <2>1 DEF Erase, Release
  <2>3. /\ StageOf(c) = "served" /\ StageOf(c)' = "ended"
        /\ \A other \in Connections \ {c} : StageOf(other)' = StageOf(other)
    BY <1>2 DEF Erase, IInv, TypeOK, StageOf, InBacklog
  <2>4. Lifecycle!End(c)
    BY <1>2, <2>2, <2>3, MovesOne DEF Erase, Lifecycle!End, Lifecycle!Proceed, Stage
  <2> QED BY <2>4 DEF Lifecycle!Next
<1>3. CASE EraseAsserts(c)
  BY <1>3, UnseenStep DEF EraseAsserts
<1>4. CASE Leave(c)
  <2>1. \A other \in Connections \ {c} : StageOf(other)' = StageOf(other)
    BY <1>4 DEF Leave, IInv, TypeOK, StageOf, InBacklog
  <2>2. CASE newConnection # c
    <3>1. holders[c] = {"thread"}
      BY <1>4, <2>2 DEF Leave, IInv, TypeOK, HolderKinds, OwnersInv, RegistryInv, Living
    <3>2. socket' = [socket EXCEPT ![c] = None]
      BY <1>4, <3>1 DEF Leave, Release, CloseSocket
    <3>3. StageOf(c) = "ended" /\ StageOf(c)' = "closed"
      BY <1>4, <2>2 DEF Leave, IInv, TypeOK, StageOf
    <3>4. Lifecycle!Close(c)
      BY <1>4, <2>1, <3>2, <3>3, MovesOne DEF Leave, Lifecycle!Close, Stage
    <3> QED BY <3>4 DEF Lifecycle!Next
  <2>3. CASE newConnection = c
    <3>1. "acceptor" \in holders[c]
      BY <2>3 DEF IInv, OwnersInv
    <3>2. socket' = socket
      BY <1>4, <3>1 DEF Leave, Release
    <3>3. StageOf(c)' = StageOf(c)
      BY <1>4, <2>3 DEF Leave, IInv, TypeOK, StageOf
    <3> QED BY <1>4, <2>1, <3>2, <3>3 DEF Leave, Unseen, Stage
  <2> QED BY <2>2, <2>3
<1> QED BY <1>1, <1>2, <1>3, <1>4 DEF ThreadRuns

LEMMA ClientRefines ==
    ASSUME IInv, NEW c \in Connections, Connect(c) \/ Misframe(c) \/ Close(c)
    PROVE  Unseen \/ Lifecycle!Next
<1> USE GatewayAssumption DEF objects, registry, acceptor
<1>1. CASE Misframe(c) \/ Close(c)
  BY <1>1, UnseenStep DEF Misframe, Close
<1>2. CASE Connect(c)
  <2>1. backlog \in Seq(Connections) /\ backlog' = Append(backlog, c)
    BY <1>2 DEF Connect, IInv, TypeOK
  <2>2. /\ Len(backlog) \in Nat /\ Len(backlog') = Len(backlog) + 1
        /\ \A i \in 1..Len(backlog) : backlog'[i] = backlog[i]
        /\ backlog'[Len(backlog')] = c
    BY <2>1
  <2>3. ~InBacklog(c) /\ InBacklog(c)'
    BY <1>2, <2>2 DEF Connect, IInv, BacklogInv, InBacklog
  <2>4. \A other \in Connections \ {c} : InBacklog(other)' <=> InBacklog(other)
    BY <2>2 DEF InBacklog
  <2>5. connPc[c] = "none" /\ newConnection # c
    BY <1>2 DEF Connect, IInv, BacklogInv, OwnersInv
  <2>6. /\ StageOf(c) = "new" /\ StageOf(c)' = "queued"
        /\ \A other \in Connections \ {c} : StageOf(other)' = StageOf(other)
    BY <1>2, <2>3, <2>4, <2>5 DEF Connect, StageOf
  <2>7. Lifecycle!Arrive(c)
    BY <1>2, <2>1, <2>6, MovesOne DEF Connect, Lifecycle!Arrive, Stage
  <2> QED BY <2>7 DEF Lifecycle!Next
<1> QED BY <1>1, <1>2

LEMMA NextRefines == IInv /\ [Next]_vars => [Lifecycle!Next]_Lifecycle!vars
<1> SUFFICES ASSUME IInv, [Next]_vars PROVE Unseen \/ Lifecycle!Next
  BY DEF Unseen, Stage, Lifecycle!vars
<1>1. CASE UNCHANGED vars
  BY <1>1, UnseenStep DEF vars, environment, objects, acceptor
<1>2. CASE MainRuns \/ Elapse
  BY <1>2, MainRefines
<1>3. CASE AcceptorRuns \/ AcceptFails
  BY <1>3, AcceptorRefines
<1>4. CASE AcceptOk
  <2>1. Head(backlog) \in Connections
    BY <1>4 DEF AcceptOk, IInv, TypeOK
  <2> QED BY <1>4, <2>1, AcceptOkRefines DEF Lifecycle!Next
<1>5. CASE \E c \in Connections : ThreadRuns(c)
  BY <1>5, ThreadRefines
<1>6. CASE Clients
  BY <1>6, ClientRefines DEF Clients
<1>7. CASE Crash
  BY <1>7, UnseenStep DEF Crash, StartFails, SpawnFails, UseDestroyedRegistry, KilledBySigpipe,
      environment, objects, acceptor
<1> QED BY <1>1, <1>2, <1>3, <1>4, <1>5, <1>6, <1>7 DEF Next, Ended

\* Every behaviour of the gateway, with any number of connections and descriptors,
\* is one that ConnectionLifecycle allows.
THEOREM GatewayImplementsLifecycle == Spec => ImplementsLifecycle
<1> QED BY InitRefines, NextRefines, Invariance, PTL
        DEF Spec, ImplementsLifecycle, Lifecycle!Spec
=============================================================================
