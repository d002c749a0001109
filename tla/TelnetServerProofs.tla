------------------------- MODULE TelnetServerProofs -------------------------
(***************************************************************************)
(* The safety properties of TelnetServer, proved for every number of       *)
(* descriptors, heap blocks, segments and commands.  IInv of TelnetServer  *)
(* is inductive: MainKeeps, HandlerKeeps, ListenerKeeps, PeerKeeps and     *)
(* StopsKeep take the actions thread by thread.  With it, each step of the *)
(* threads is a step of SessionRegistry or leaves what it sees alone.      *)
(***************************************************************************)
EXTENDS TelnetServer, InductionLemmas, FiniteSetTheorems, SequenceTheorems, TLAPS

\* The program's limit on descriptors makes its connections a finite set.
LEMMA ConnsFinite == IsFiniteSet(Conns)
  BY FS_Interval, LimitAssumption DEF Conns

\* Ending the process disturbs nothing, and undefined behaviour is only for
\* the teardown.
LEMMA StopKeeps ==
  ASSUME IInv, NEW how \in Outcomes, Stop(how),
         how = "undefined" => mpc \in Teardown
  PROVE  IInv'
<1>1. TypeOK'
  BY DEF IInv, TypeOK, Stop, shared, mainVars, threads, tables, net, local
<1>2. /\ ThreadsInOrder' /\ AcceptInOrder' /\ BlocksAreOwned' /\ AllLive'
      /\ WorkInHand' /\ LockHeldByWorker'
  BY DEF IInv, Consistent, Stop, mainVars, threads, tables, net, local,
    ThreadsInOrder, AcceptInOrder, BlocksAreOwned, Owns, AllLive, WorkInHand,
    LockHeldByWorker
<1>3. RecordHasOneOwner' /\ SocketsAreRegistered' /\ MemorySafeUntilTeardown'
  BY DEF IInv, Consistent, Stop, mainVars, threads, tables, net, local,
    RecordHasOneOwner, OwnsRecord, SocketsAreRegistered, RegisteredAs,
    MemorySafeUntilTeardown
<1> QED
  BY <1>1, <1>2, <1>3 DEF IInv, Consistent

\* Taking the first piece or command off a list.
LEMMA SeqTail ==
  ASSUME NEW S, NEW s \in Seq(S), s # <<>>
  PROVE  /\ Tail(s) \in Seq(S)
         /\ Len(s) # 1 => Tail(s) # <<>>
<1>1. /\ Tail(s) \in Seq(S) /\ Len(Tail(s)) = Len(s) - 1 /\ Len(s) \in Nat
  BY HeadTailProperties
<1>2. Tail(s) = <<>> <=> Len(Tail(s)) = 0
  BY <1>1, EmptySeq
<1> QED
  BY <1>1, <1>2

\* Every key of either table is an allocated block.
LEMMA BlocksOfRecords ==
  ASSUME IInv
  PROVE  ConnKeys \subseteq heap
  BY DEF IInv, Consistent, ConnKeys, RecordHasOneOwner, OwnsRecord

LEMMA BlocksOfSockets ==
  ASSUME IInv
  PROVE  SockKeys \subseteq heap
<1> SUFFICES ASSUME NEW a \in SockKeys
             PROVE  a \in heap
  OBVIOUS
<1>1. a \in Addrs /\ socks[a] \in Conns
  BY DEF IInv, TypeOK, SockKeys, NoFd
<1>2. RegisteredAs(socks[a], a)
  BY <1>1 DEF IInv, Consistent, SocketsAreRegistered
<1>3. Owns(socks[a])
  BY <1>1, <1>2, AddrAssumption
    DEF IInv, Consistent, RegisteredAs, ThreadsInOrder, AcceptInOrder, Owns
<1> QED
  BY <1>1, <1>2, <1>3 DEF IInv, Consistent, BlocksAreOwned, RegisteredAs

-----------------------------------------------------------------------------
\* The accept loop and the end of launch_telnet_server.
LEMMA MainKeeps ==
  ASSUME IInv, 
         \/ Alloc \/ AllocFails \/ CallAccept \/ Accept \/ AcceptFails
         \/ AcceptFull \/ Spawn \/ SpawnFails \/ RegisterLock \/ PutSocket
         \/ Listen \/ DestroyLock \/ DestroyConns \/ DestroySocks
  PROVE  IInv'
<1> USE DEF shared, mainVars, threads, tables, net, local
<1>0. /\ TypeOK /\ ThreadsInOrder /\ AcceptInOrder /\ BlocksAreOwned /\ AllLive
      /\ WorkInHand /\ LockHeldByWorker /\ RecordHasOneOwner
      /\ SocketsAreRegistered /\ MemorySafeUntilTeardown
  BY DEF IInv, Consistent
<1>s. ASSUME NEW how \in Outcomes, Stop(how), how = "undefined" => mpc \in Teardown
      PROVE  IInv'
  BY <1>s, StopKeeps
<1>1. CASE Alloc
  <2>1. TypeOK'
    BY <1>0, <1>1 DEF TypeOK, Conns, NoFd, Threads, Outcomes, MainStates,
      Teardown, HandlerStates, ListenerStates, Alloc, MainGoes
  <2>2. AcceptInOrder'
    BY <1>0, <1>1 DEF AcceptInOrder, Owns, Conns, TypeOK, Alloc, MainGoes
  <2>3. BlocksAreOwned'
    <3>1. PICK a \in Addrs \ heap : heap' = heap \cup {a} /\ caddr' = a
      BY <1>1 DEF Alloc
    <3> QED
      BY <1>0, <1>1, <3>1 DEF BlocksAreOwned, Owns, TypeOK, Alloc, MainGoes
  <2>4. AllLive'
    BY <1>0, <1>1 DEF AllLive, Teardown, Alloc, MainGoes
  <2>5. LockHeldByWorker'
    BY <1>0, <1>1 DEF LockHeldByWorker, Main, Handler, Listener, NoThread,
      TypeOK, Alloc, MainGoes
  <2>6. RecordHasOneOwner'
    BY <1>0, <1>1 DEF RecordHasOneOwner, OwnsRecord, TypeOK, Alloc, MainGoes
  <2>7. SocketsAreRegistered'
    BY <1>0, <1>1 DEF SocketsAreRegistered, RegisteredAs, Conns, NoFd, TypeOK,
      Alloc, MainGoes
  <2>8. MemorySafeUntilTeardown'
    BY <1>0, <1>1 DEF MemorySafeUntilTeardown, Teardown, Alloc, MainGoes
  <2>9. ThreadsInOrder' /\ WorkInHand'
    BY <1>0, <1>1 DEF ThreadsInOrder, WorkInHand, Alloc, MainGoes
  <2> QED
    BY <2>1, <2>2, <2>3, <2>4, <2>5, <2>6, <2>7, <2>8, <2>9 DEF IInv, Consistent
<1>2. CASE AllocFails
  <2>1. TypeOK'
    BY <1>0, <1>2 DEF TypeOK, Conns, NoFd, Threads, Outcomes, MainStates,
      Teardown, HandlerStates, ListenerStates, AllocFails, MainGoes
  <2>2. AcceptInOrder'
    BY <1>0, <1>2 DEF AcceptInOrder, Owns, Conns, TypeOK, AllocFails, MainGoes
  <2>3. BlocksAreOwned'
    BY <1>0, <1>2 DEF BlocksAreOwned, Owns, Conns, TypeOK, AllocFails,
      MainGoes
  <2>4. AllLive'
    BY <1>0, <1>2 DEF AllLive, Teardown, AllocFails, MainGoes
  <2>5. LockHeldByWorker'
    BY <1>0, <1>2 DEF LockHeldByWorker, Main, Handler, Listener, NoThread,
      TypeOK, AllocFails, MainGoes
  <2>6. SocketsAreRegistered'
    BY <1>0, <1>2 DEF SocketsAreRegistered, RegisteredAs, Conns, NoFd, TypeOK,
      AllocFails, MainGoes
  <2>7. MemorySafeUntilTeardown'
    BY <1>0, <1>2 DEF MemorySafeUntilTeardown, Teardown, AllocFails, MainGoes
  <2>8. ThreadsInOrder' /\ WorkInHand' /\ RecordHasOneOwner'
    BY <1>0, <1>2 DEF ThreadsInOrder, WorkInHand, RecordHasOneOwner,
      OwnsRecord, AllocFails, MainGoes
  <2> QED
    BY <2>1, <2>2, <2>3, <2>4, <2>5, <2>6, <2>7, <2>8 DEF IInv, Consistent
<1>3. CASE CallAccept
  <2>1. TypeOK'
    BY <1>0, <1>3 DEF TypeOK, Conns, NoFd, Threads, Outcomes, MainStates,
      Teardown, HandlerStates, ListenerStates, CallAccept, MainGoes,
      Descriptors, Fetching
  <2>2. AcceptInOrder'
    <3>1. Cardinality(Fetching) \in Nat
      BY FS_CardinalityType, ConnsFinite, FS_Subset DEF Fetching
    <3>2. opened < FdLimit
      BY <1>0, <1>3, <3>1, LimitAssumption DEF CallAccept, Descriptors, TypeOK
    <3> QED
      BY <1>3, <3>2 DEF AcceptInOrder, CallAccept, MainGoes
  <2>3. BlocksAreOwned'
    BY <1>0, <1>3 DEF BlocksAreOwned, Owns, Conns, TypeOK, CallAccept,
      MainGoes, Descriptors, Fetching
  <2>4. AllLive'
    BY <1>0, <1>3 DEF AllLive, Teardown, CallAccept, MainGoes, Descriptors,
      Fetching
  <2>5. LockHeldByWorker'
    BY <1>0, <1>3 DEF LockHeldByWorker, Main, Handler, Listener, NoThread,
      TypeOK, CallAccept, MainGoes, Descriptors, Fetching
  <2>6. SocketsAreRegistered'
    BY <1>0, <1>3 DEF SocketsAreRegistered, RegisteredAs, Conns, NoFd, TypeOK,
      CallAccept, MainGoes, Descriptors, Fetching
  <2>7. MemorySafeUntilTeardown'
    BY <1>0, <1>3 DEF MemorySafeUntilTeardown, Teardown, CallAccept, MainGoes,
      Descriptors, Fetching
  <2>8. ThreadsInOrder' /\ WorkInHand' /\ RecordHasOneOwner'
    BY <1>0, <1>3 DEF ThreadsInOrder, WorkInHand, RecordHasOneOwner,
      OwnsRecord, CallAccept, MainGoes, Descriptors, Fetching
  <2> QED
    BY <2>1, <2>2, <2>3, <2>4, <2>5, <2>6, <2>7, <2>8 DEF IInv, Consistent
<1>4. CASE Accept
  <2>1. TypeOK'
    <3>1. opened + 1 \in Conns
      BY <1>0, <1>4, LimitAssumption DEF Accept, AcceptInOrder, TypeOK, Conns
    <3> QED
      BY <1>0, <1>4, <3>1 DEF TypeOK, Accept, MainGoes, MainStates, Conns
  <2>2. ThreadsInOrder'
    BY <1>0, <1>4, LimitAssumption DEF ThreadsInOrder, TypeOK, Accept, Conns
  <2>3. AcceptInOrder'
    <3>1. opened + 1 \in Conns /\ ~(opened + 1 <= opened)
      BY <1>0, <1>4, LimitAssumption DEF Accept, AcceptInOrder, TypeOK, Conns
    <3> QED
      BY <1>0, <1>4, <3>1 DEF AcceptInOrder, ThreadsInOrder, Accept, MainGoes
  <2>4. BlocksAreOwned'
    BY <1>0, <1>4 DEF BlocksAreOwned, Owns, Conns, TypeOK, Accept, MainGoes
  <2>5. AllLive'
    BY <1>0, <1>4 DEF AllLive, Teardown, Accept, MainGoes
  <2>6. LockHeldByWorker'
    BY <1>0, <1>4 DEF LockHeldByWorker, Main, Handler, Listener, NoThread,
      TypeOK, Accept, MainGoes
  <2>7. SocketsAreRegistered'
    BY <1>0, <1>4 DEF SocketsAreRegistered, RegisteredAs, Conns, NoFd, TypeOK,
      Accept, MainGoes
  <2>8. MemorySafeUntilTeardown'
    BY <1>0, <1>4 DEF MemorySafeUntilTeardown, Teardown, Accept, MainGoes
  <2>9. WorkInHand' /\ RecordHasOneOwner'
    BY <1>0, <1>4 DEF WorkInHand, RecordHasOneOwner, OwnsRecord, Accept,
      MainGoes
  <2> QED
    BY <2>1, <2>2, <2>3, <2>4, <2>5, <2>6, <2>7, <2>8, <2>9 DEF IInv, Consistent
<1>5. CASE AcceptFails
  <2>1. TypeOK'
    BY <1>0, <1>5 DEF TypeOK, Conns, NoFd, Threads, Outcomes, MainStates,
      Teardown, HandlerStates, ListenerStates, AcceptFails, LeaveLoop,
      MainGoes
  <2>2. AcceptInOrder'
    BY <1>0, <1>5 DEF AcceptInOrder, Owns, Conns, TypeOK, AcceptFails,
      LeaveLoop, MainGoes
  <2>3. BlocksAreOwned'
    BY <1>0, <1>5 DEF BlocksAreOwned, Owns, Conns, TypeOK, AcceptFails,
      LeaveLoop, MainGoes
  <2>4. AllLive'
    BY <1>0, <1>5 DEF AllLive, Teardown, AcceptFails, LeaveLoop, MainGoes
  <2>5. LockHeldByWorker'
    BY <1>0, <1>5 DEF LockHeldByWorker, Main, Handler, Listener, NoThread,
      TypeOK, AcceptFails, LeaveLoop, MainGoes
  <2>6. RecordHasOneOwner'
    <3> SUFFICES ASSUME NEW a \in Addrs, conns'[a] # {}
                 PROVE  \E d \in Conns : OwnsRecord(d, a)'
      BY DEF RecordHasOneOwner
    <3>1. PICK d \in Conns : OwnsRecord(d, a)
      BY <1>0, <1>5 DEF RecordHasOneOwner, AcceptFails, LeaveLoop
    <3>2. OwnsRecord(d, a)'
      BY <1>0, <1>5, <3>1, AddrAssumption DEF OwnsRecord, TypeOK, BlocksAreOwned, Owns, ThreadsInOrder, AcceptFails, LeaveLoop
    <3> QED
      BY <3>2
  <2>7. SocketsAreRegistered'
    BY <1>0, <1>5 DEF SocketsAreRegistered, RegisteredAs, Conns, NoFd, TypeOK,
      AcceptFails, LeaveLoop, MainGoes
  <2>8. MemorySafeUntilTeardown'
    BY <1>0, <1>5 DEF MemorySafeUntilTeardown, Teardown, AcceptFails,
      LeaveLoop, MainGoes
  <2>9. ThreadsInOrder' /\ WorkInHand'
    BY <1>0, <1>5 DEF ThreadsInOrder, WorkInHand, AcceptFails, LeaveLoop,
      MainGoes
  <2> QED
    BY <2>1, <2>2, <2>3, <2>4, <2>5, <2>6, <2>7, <2>8, <2>9 DEF IInv, Consistent
<1>6. CASE AcceptFull
  <2>1. TypeOK'
    BY <1>0, <1>6 DEF TypeOK, Conns, NoFd, Threads, Outcomes, MainStates,
      Teardown, HandlerStates, ListenerStates, AcceptFull, LeaveLoop, MainGoes
  <2>2. AcceptInOrder'
    BY <1>0, <1>6 DEF AcceptInOrder, Owns, Conns, TypeOK, AcceptFull,
      LeaveLoop, MainGoes
  <2>3. BlocksAreOwned'
    BY <1>0, <1>6 DEF BlocksAreOwned, Owns, Conns, TypeOK, AcceptFull,
      LeaveLoop, MainGoes
  <2>4. AllLive'
    BY <1>0, <1>6 DEF AllLive, Teardown, AcceptFull, LeaveLoop, MainGoes
  <2>5. LockHeldByWorker'
    BY <1>0, <1>6 DEF LockHeldByWorker, Main, Handler, Listener, NoThread,
      TypeOK, AcceptFull, LeaveLoop, MainGoes
  <2>6. RecordHasOneOwner'
    <3> SUFFICES ASSUME NEW a \in Addrs, conns'[a] # {}
                 PROVE  \E d \in Conns : OwnsRecord(d, a)'
      BY DEF RecordHasOneOwner
    <3>1. PICK d \in Conns : OwnsRecord(d, a)
      BY <1>0, <1>6 DEF RecordHasOneOwner, AcceptFull, LeaveLoop
    <3>2. OwnsRecord(d, a)'
      BY <1>0, <1>6, <3>1, AddrAssumption DEF OwnsRecord, TypeOK, BlocksAreOwned, Owns, ThreadsInOrder, AcceptFull, LeaveLoop
    <3> QED
      BY <3>2
  <2>7. SocketsAreRegistered'
    BY <1>0, <1>6 DEF SocketsAreRegistered, RegisteredAs, Conns, NoFd, TypeOK,
      AcceptFull, LeaveLoop, MainGoes
  <2>8. MemorySafeUntilTeardown'
    BY <1>0, <1>6 DEF MemorySafeUntilTeardown, Teardown, AcceptFull,
      LeaveLoop, MainGoes
  <2>9. ThreadsInOrder' /\ WorkInHand'
    BY <1>0, <1>6 DEF ThreadsInOrder, WorkInHand, AcceptFull, LeaveLoop,
      MainGoes
  <2> QED
    BY <2>1, <2>2, <2>3, <2>4, <2>5, <2>6, <2>7, <2>8, <2>9 DEF IInv, Consistent
<1>7. CASE Spawn
  <2>1. TypeOK'
    BY <1>0, <1>7 DEF TypeOK, Conns, NoFd, Threads, Outcomes, MainStates,
      Teardown, HandlerStates, ListenerStates, Spawn, MainGoes
  <2>2. ThreadsInOrder'
    BY <1>0, <1>7 DEF ThreadsInOrder, TypeOK, AcceptInOrder, Conns,
      BlocksAreOwned, Spawn, MainGoes
  <2>3. AcceptInOrder'
    BY <1>0, <1>7 DEF AcceptInOrder, Owns, Conns, TypeOK, ThreadsInOrder,
      Spawn, MainGoes
  <2>4. BlocksAreOwned'
    BY <1>0, <1>7 DEF BlocksAreOwned, Owns, Conns, TypeOK, Spawn, MainGoes
  <2>5. AllLive'
    BY <1>0, <1>7 DEF AllLive, Teardown, Spawn, MainGoes
  <2>6. WorkInHand'
    BY <1>0, <1>7 DEF WorkInHand, TypeOK, Spawn, MainGoes
  <2>7. LockHeldByWorker'
    BY <1>0, <1>7 DEF LockHeldByWorker, Main, Handler, Listener, NoThread,
      TypeOK, AcceptInOrder, Conns, Spawn, MainGoes
  <2>8. RecordHasOneOwner'
    <3> SUFFICES ASSUME NEW a \in Addrs, conns'[a] # {}
                 PROVE  \E d \in Conns : OwnsRecord(d, a)'
      BY DEF RecordHasOneOwner
    <3>1. PICK d \in Conns : OwnsRecord(d, a)
      BY <1>0, <1>7 DEF RecordHasOneOwner, Spawn
    <3>2. OwnsRecord(d, a)'
      BY <1>0, <1>7, <3>1, AddrAssumption DEF OwnsRecord, TypeOK, AcceptInOrder, ThreadsInOrder, Spawn
    <3> QED
      BY <3>2
  <2>9. SocketsAreRegistered'
    BY <1>0, <1>7 DEF SocketsAreRegistered, RegisteredAs, Conns, NoFd, TypeOK,
      AcceptInOrder, ThreadsInOrder, Spawn, MainGoes
  <2>10. MemorySafeUntilTeardown'
    BY <1>0, <1>7 DEF MemorySafeUntilTeardown, Teardown, Spawn, MainGoes
  <2> QED
    BY <2>1, <2>2, <2>3, <2>4, <2>5, <2>6, <2>7, <2>8, <2>9, <2>10 DEF IInv, Consistent
<1>8. CASE SpawnFails
  <2>1. TypeOK'
    BY <1>0, <1>8 DEF TypeOK, Conns, NoFd, Threads, Outcomes, MainStates,
      Teardown, HandlerStates, ListenerStates, SpawnFails, MainGoes
  <2>2. AcceptInOrder'
    BY <1>0, <1>8 DEF AcceptInOrder, Owns, Conns, TypeOK, SpawnFails, MainGoes
  <2>3. BlocksAreOwned'
    BY <1>0, <1>8 DEF BlocksAreOwned, Owns, Conns, TypeOK, SpawnFails,
      MainGoes
  <2>4. AllLive'
    BY <1>0, <1>8 DEF AllLive, Teardown, SpawnFails, MainGoes
  <2>5. LockHeldByWorker'
    BY <1>0, <1>8 DEF LockHeldByWorker, Main, Handler, Listener, NoThread,
      TypeOK, SpawnFails, MainGoes
  <2>6. RecordHasOneOwner'
    <3> SUFFICES ASSUME NEW a \in Addrs, conns'[a] # {}
                 PROVE  \E d \in Conns : OwnsRecord(d, a)'
      BY DEF RecordHasOneOwner
    <3>1. PICK d \in Conns : OwnsRecord(d, a)
      BY <1>0, <1>8 DEF RecordHasOneOwner, SpawnFails
    <3>2. OwnsRecord(d, a)'
      BY <1>0, <1>8, <3>1, AddrAssumption DEF OwnsRecord, TypeOK, BlocksAreOwned, Owns, ThreadsInOrder, SpawnFails
    <3> QED
      BY <3>2
  <2>7. SocketsAreRegistered'
    BY <1>0, <1>8 DEF SocketsAreRegistered, RegisteredAs, Conns, NoFd, TypeOK,
      SpawnFails, MainGoes
  <2>8. MemorySafeUntilTeardown'
    BY <1>0, <1>8 DEF MemorySafeUntilTeardown, Teardown, SpawnFails, MainGoes
  <2>9. ThreadsInOrder' /\ WorkInHand'
    BY <1>0, <1>8 DEF ThreadsInOrder, WorkInHand, SpawnFails, MainGoes
  <2> QED
    BY <2>1, <2>2, <2>3, <2>4, <2>5, <2>6, <2>7, <2>8, <2>9 DEF IInv, Consistent
<1>9. CASE RegisterLock
  <2>1. TypeOK'
    BY <1>0, <1>9 DEF TypeOK, Conns, NoFd, Threads, Outcomes, MainStates,
      Teardown, HandlerStates, ListenerStates, RegisterLock, MainGoes, Take
  <2>2. AcceptInOrder'
    BY <1>0, <1>9 DEF AcceptInOrder, Owns, Conns, TypeOK, RegisterLock,
      MainGoes, Take
  <2>3. BlocksAreOwned'
    BY <1>0, <1>9 DEF BlocksAreOwned, Owns, Conns, TypeOK, RegisterLock,
      MainGoes, Take
  <2>4. AllLive'
    BY <1>0, <1>9 DEF AllLive, Teardown, RegisterLock, MainGoes, Take
  <2>5. LockHeldByWorker'
    BY <1>0, <1>9 DEF LockHeldByWorker, Main, Handler, Listener, NoThread,
      TypeOK, RegisterLock, MainGoes, Take
  <2>6. SocketsAreRegistered'
    BY <1>0, <1>9 DEF SocketsAreRegistered, RegisteredAs, Conns, NoFd, TypeOK,
      RegisterLock, MainGoes, Take
  <2>7. MemorySafeUntilTeardown'
    BY <1>0, <1>9 DEF MemorySafeUntilTeardown, Teardown, RegisterLock,
      MainGoes, Take
  <2>8. ThreadsInOrder' /\ WorkInHand' /\ RecordHasOneOwner'
    BY <1>0, <1>9 DEF ThreadsInOrder, WorkInHand, RecordHasOneOwner,
      OwnsRecord, RegisterLock, MainGoes, Take
  <2> QED
    BY <2>1, <2>2, <2>3, <2>4, <2>5, <2>6, <2>7, <2>8 DEF IInv, Consistent
<1>10. CASE PutSocket
  <2>ok. CASE ~(KeysReadable(caddr, SockKeys))
    <3>1. Stop("undefined")
      BY <1>10, <2>ok DEF PutSocket, Using
    <3>2. mpc \in Teardown
      <4>1. caddr \in heap
        BY <1>0, <1>10 DEF PutSocket, AcceptInOrder, BlocksAreOwned
      <4> QED
        BY <2>ok, <4>1, BlocksOfSockets DEF KeysReadable
    <3> QED
      BY <1>s, <3>1, <3>2 DEF Outcomes
  <2>go. CASE KeysReadable(caddr, SockKeys)
    <3>1. TypeOK'
      BY <1>0, <1>10, <2>go DEF TypeOK, Conns, NoFd, Threads, Outcomes,
        MainStates, Teardown, HandlerStates, ListenerStates, AcceptInOrder,
        PutSocket, MainGoes, Using
    <3>2. AcceptInOrder'
      BY <1>0, <1>10, <2>go DEF AcceptInOrder, Owns, Conns, TypeOK, PutSocket,
        MainGoes, Using
    <3>3. BlocksAreOwned'
      BY <1>0, <1>10, <2>go DEF BlocksAreOwned, Owns, Conns, TypeOK, PutSocket,
        MainGoes, Using
    <3>4. AllLive'
      BY <1>0, <1>10, <2>go DEF AllLive, Teardown, PutSocket, MainGoes, Using
    <3>5. LockHeldByWorker'
      BY <1>0, <1>10, <2>go DEF LockHeldByWorker, Main, Handler, Listener,
        NoThread, TypeOK, AcceptInOrder, PutSocket, MainGoes, Using
    <3>6. SocketsAreRegistered'
      BY <1>0, <1>10, <2>go DEF SocketsAreRegistered, RegisteredAs, Conns, NoFd,
        TypeOK, AcceptInOrder, BlocksAreOwned, ThreadsInOrder, Owns, PutSocket,
        MainGoes, Using
    <3>7. MemorySafeUntilTeardown'
      BY <1>0, <1>10, <2>go DEF MemorySafeUntilTeardown, Teardown, PutSocket,
        MainGoes, Using
    <3>8. ThreadsInOrder' /\ WorkInHand' /\ RecordHasOneOwner'
      BY <1>0, <1>10, <2>go DEF ThreadsInOrder, WorkInHand, RecordHasOneOwner,
        OwnsRecord, PutSocket, MainGoes, Using
    <3> QED
      BY <3>1, <3>2, <3>3, <3>4, <3>5, <3>6, <3>7, <3>8 DEF IInv, Consistent
  <2> QED
    BY <2>ok, <2>go
<1>11. CASE Listen
  <2>1. TypeOK'
    BY <1>0, <1>11 DEF TypeOK, Conns, NoFd, Threads, Outcomes, MainStates,
      Teardown, HandlerStates, ListenerStates, Listen, MainGoes
  <2>2. ThreadsInOrder'
    BY <1>0, <1>11 DEF ThreadsInOrder, TypeOK, AcceptInOrder, Owns, Listen,
      MainGoes
  <2>3. AcceptInOrder'
    BY <1>0, <1>11 DEF AcceptInOrder, Owns, Conns, TypeOK, Listen, MainGoes
  <2>4. BlocksAreOwned'
    BY <1>0, <1>11 DEF BlocksAreOwned, Owns, Conns, TypeOK, AcceptInOrder,
      Listen, MainGoes
  <2>5. AllLive'
    BY <1>0, <1>11 DEF AllLive, Teardown, Listen, MainGoes
  <2>6. LockHeldByWorker'
    BY <1>0, <1>11 DEF LockHeldByWorker, Main, Handler, Listener, NoThread,
      TypeOK, AcceptInOrder, Conns, Listen, MainGoes
  <2>7. RecordHasOneOwner'
    BY <1>0, <1>11 DEF RecordHasOneOwner, OwnsRecord, TypeOK, Listen, MainGoes
  <2>8. SocketsAreRegistered'
    BY <1>0, <1>11 DEF SocketsAreRegistered, RegisteredAs, Conns, NoFd,
      TypeOK, Listen, MainGoes
  <2>9. MemorySafeUntilTeardown'
    BY <1>0, <1>11 DEF MemorySafeUntilTeardown, Teardown, Listen, MainGoes
  <2>10. WorkInHand'
    BY <1>0, <1>11 DEF WorkInHand, Listen, MainGoes
  <2> QED
    BY <2>1, <2>2, <2>3, <2>4, <2>5, <2>6, <2>7, <2>8, <2>9, <2>10 DEF IInv, Consistent
<1>12. CASE DestroyLock
  <2>1. TypeOK'
    BY <1>0, <1>12 DEF TypeOK, Conns, NoFd, Threads, Outcomes, MainStates,
      Teardown, HandlerStates, ListenerStates, DestroyLock, MainGoes
  <2>2. AcceptInOrder'
    BY <1>0, <1>12 DEF AcceptInOrder, Owns, Conns, TypeOK, DestroyLock,
      MainGoes
  <2>3. BlocksAreOwned'
    BY <1>0, <1>12 DEF BlocksAreOwned, Owns, Conns, TypeOK, DestroyLock,
      MainGoes
  <2>4. AllLive'
    BY <1>0, <1>12 DEF AllLive, Teardown, DestroyLock, MainGoes
  <2>5. LockHeldByWorker'
    BY <1>0, <1>12 DEF LockHeldByWorker, Main, Handler, Listener, NoThread,
      TypeOK, DestroyLock, MainGoes
  <2>6. SocketsAreRegistered'
    BY <1>0, <1>12 DEF SocketsAreRegistered, RegisteredAs, Conns, NoFd,
      TypeOK, DestroyLock, MainGoes
  <2>7. MemorySafeUntilTeardown'
    BY <1>0, <1>12 DEF MemorySafeUntilTeardown, Teardown, DestroyLock,
      MainGoes
  <2>8. ThreadsInOrder' /\ WorkInHand' /\ RecordHasOneOwner'
    BY <1>0, <1>12 DEF ThreadsInOrder, WorkInHand, RecordHasOneOwner,
      OwnsRecord, DestroyLock, MainGoes
  <2> QED
    BY <2>1, <2>2, <2>3, <2>4, <2>5, <2>6, <2>7, <2>8 DEF IInv, Consistent
<1>13. CASE DestroyConns
  <2>1. TypeOK'
    BY <1>0, <1>13 DEF TypeOK, Conns, NoFd, Threads, Outcomes, MainStates,
      Teardown, HandlerStates, ListenerStates, DestroyConns, MainGoes
  <2>2. AcceptInOrder'
    BY <1>0, <1>13 DEF AcceptInOrder, Owns, Conns, TypeOK, DestroyConns,
      MainGoes
  <2>3. BlocksAreOwned'
    BY <1>0, <1>13 DEF BlocksAreOwned, Owns, Conns, TypeOK, DestroyConns,
      MainGoes
  <2>4. AllLive'
    BY <1>0, <1>13 DEF AllLive, Teardown, DestroyConns, MainGoes
  <2>5. LockHeldByWorker'
    BY <1>0, <1>13 DEF LockHeldByWorker, Main, Handler, Listener, NoThread,
      TypeOK, DestroyConns, MainGoes
  <2>6. SocketsAreRegistered'
    BY <1>0, <1>13 DEF SocketsAreRegistered, RegisteredAs, Conns, NoFd,
      TypeOK, DestroyConns, MainGoes
  <2>7. MemorySafeUntilTeardown'
    BY <1>0, <1>13 DEF MemorySafeUntilTeardown, Teardown, DestroyConns,
      MainGoes
  <2>8. ThreadsInOrder' /\ WorkInHand' /\ RecordHasOneOwner'
    BY <1>0, <1>13 DEF ThreadsInOrder, WorkInHand, RecordHasOneOwner,
      OwnsRecord, DestroyConns, MainGoes
  <2> QED
    BY <2>1, <2>2, <2>3, <2>4, <2>5, <2>6, <2>7, <2>8 DEF IInv, Consistent
<1>14. CASE DestroySocks
  <2>1. TypeOK'
    BY <1>0, <1>14 DEF TypeOK, Conns, NoFd, Threads, Outcomes, MainStates,
      Teardown, HandlerStates, ListenerStates, DestroySocks, MainGoes
  <2>2. AcceptInOrder'
    BY <1>0, <1>14 DEF AcceptInOrder, Owns, Conns, TypeOK, DestroySocks,
      MainGoes
  <2>3. BlocksAreOwned'
    BY <1>0, <1>14 DEF BlocksAreOwned, Owns, Conns, TypeOK, DestroySocks,
      MainGoes
  <2>4. AllLive'
    BY <1>0, <1>14 DEF AllLive, Teardown, DestroySocks, MainGoes
  <2>5. LockHeldByWorker'
    BY <1>0, <1>14 DEF LockHeldByWorker, Main, Handler, Listener, NoThread,
      TypeOK, DestroySocks, MainGoes
  <2>6. SocketsAreRegistered'
    BY <1>0, <1>14 DEF SocketsAreRegistered, RegisteredAs, Conns, NoFd,
      TypeOK, DestroySocks, MainGoes
  <2>7. MemorySafeUntilTeardown'
    BY <1>0, <1>14 DEF MemorySafeUntilTeardown, Teardown, DestroySocks,
      MainGoes
  <2>8. ThreadsInOrder' /\ WorkInHand' /\ RecordHasOneOwner'
    BY <1>0, <1>14 DEF ThreadsInOrder, WorkInHand, RecordHasOneOwner,
      OwnsRecord, DestroySocks, MainGoes
  <2> QED
    BY <2>1, <2>2, <2>3, <2>4, <2>5, <2>6, <2>7, <2>8 DEF IInv, Consistent
<1> QED BY <1>1, <1>2, <1>3, <1>4, <1>5, <1>6, <1>7, <1>8, <1>9, <1>10, <1>11,
  <1>12, <1>13, <1>14

-----------------------------------------------------------------------------
\* The handler thread of a connection.
LEMMA HandlerKeeps ==
  ASSUME IInv, NEW c \in Conns,
         \/ Start(c) \/ RecvEnds(c) \/ Refuse(c) \/ GiveUp(c) \/ DataLock(c)
         \/ AppendData(c) \/ OpenFetch(c) \/ Fetched(c) \/ Reply(c)
         \/ Exit(c) \/ DataUnlock(c) \/ Leave(c)
  PROVE  IInv'
<1> USE DEF shared, mainVars, threads, tables, net, local
<1>0. /\ TypeOK /\ ThreadsInOrder /\ AcceptInOrder /\ BlocksAreOwned /\ AllLive
      /\ WorkInHand /\ LockHeldByWorker /\ RecordHasOneOwner
      /\ SocketsAreRegistered /\ MemorySafeUntilTeardown
  BY DEF IInv, Consistent
<1>s. ASSUME NEW how \in Outcomes, Stop(how), how = "undefined" => mpc \in Teardown
      PROVE  IInv'
  BY <1>s, StopKeeps
<1>1. CASE Start(c)
  <2>1. TypeOK'
    BY <1>0, <1>1 DEF TypeOK, Conns, NoFd, Threads, Outcomes, MainStates,
      Teardown, HandlerStates, ListenerStates, Start, HandlerGoes
  <2>2. ThreadsInOrder'
    BY <1>0, <1>1 DEF ThreadsInOrder, TypeOK, Start, HandlerGoes
  <2>3. AcceptInOrder'
    BY <1>0, <1>1 DEF AcceptInOrder, Owns, Conns, TypeOK, Start, HandlerGoes
  <2>4. BlocksAreOwned'
    BY <1>0, <1>1 DEF BlocksAreOwned, Owns, Conns, TypeOK, Start, HandlerGoes
  <2>5. WorkInHand'
    BY <1>0, <1>1 DEF WorkInHand, TypeOK, Start, HandlerGoes
  <2>6. LockHeldByWorker'
    BY <1>0, <1>1 DEF LockHeldByWorker, Main, Handler, Listener, NoThread,
      TypeOK, Start, HandlerGoes
  <2>7. /\ AllLive' /\ RecordHasOneOwner'
       /\ SocketsAreRegistered' /\ MemorySafeUntilTeardown'
    BY <1>0, <1>1 DEF AllLive, RecordHasOneOwner, SocketsAreRegistered,
      MemorySafeUntilTeardown, Teardown, OwnsRecord, RegisteredAs, Conns,
      NoFd, Start, HandlerGoes
  <2> QED
    BY <2>1, <2>2, <2>3, <2>4, <2>5, <2>6, <2>7 DEF IInv, Consistent
<1>2. CASE RecvEnds(c)
  <2>1. TypeOK'
    BY <1>0, <1>2 DEF TypeOK, Conns, NoFd, Threads, Outcomes, MainStates,
      Teardown, HandlerStates, ListenerStates, RecvEnds, HandlerGoes
  <2>2. ThreadsInOrder'
    BY <1>0, <1>2 DEF ThreadsInOrder, TypeOK, RecvEnds, HandlerGoes
  <2>3. AcceptInOrder'
    BY <1>0, <1>2 DEF AcceptInOrder, Owns, Conns, TypeOK, RecvEnds,
      HandlerGoes
  <2>4. BlocksAreOwned'
    BY <1>0, <1>2 DEF BlocksAreOwned, Owns, Conns, TypeOK, RecvEnds,
      HandlerGoes
  <2>5. WorkInHand'
    BY <1>0, <1>2 DEF WorkInHand, TypeOK, RecvEnds, HandlerGoes
  <2>6. LockHeldByWorker'
    BY <1>0, <1>2 DEF LockHeldByWorker, Main, Handler, Listener, NoThread,
      TypeOK, RecvEnds, HandlerGoes
  <2>7. /\ AllLive' /\ RecordHasOneOwner'
       /\ SocketsAreRegistered' /\ MemorySafeUntilTeardown'
    BY <1>0, <1>2 DEF AllLive, RecordHasOneOwner, SocketsAreRegistered,
      MemorySafeUntilTeardown, Teardown, OwnsRecord, RegisteredAs, Conns,
      NoFd, RecvEnds, HandlerGoes
  <2> QED
    BY <2>1, <2>2, <2>3, <2>4, <2>5, <2>6, <2>7 DEF IInv, Consistent
<1>3. CASE Refuse(c)
  <2>1. TypeOK'
    <3>1. scan[c] \in Seq({"data", "option"}) /\ scan[c] # <<>>
      BY <1>0, <1>3 DEF TypeOK, WorkInHand, Refuse
    <3>2. /\ Tail(scan[c]) \in Seq({"data", "option"})
         /\ Len(scan[c]) # 1 => Tail(scan[c]) # <<>>
      BY <3>1, SeqTail
    <3>3. unread[c] + 1 \in 0 .. Window
      BY <1>0, <1>3, TrafficAssumption DEF TypeOK, Sent, Refuse
    <3> QED
      BY <1>0, <1>3, <3>1, <3>2, <3>3 DEF TypeOK, Conns, Refuse, Sent,
        PieceDone, HandlerGoes, HandlerStates
  <2>2. ThreadsInOrder'
    BY <1>0, <1>3 DEF ThreadsInOrder, TypeOK, Refuse, HandlerGoes, PieceDone,
      Sent
  <2>3. AcceptInOrder'
    BY <1>0, <1>3 DEF AcceptInOrder, Owns, Conns, TypeOK, Refuse, HandlerGoes,
      PieceDone, Sent
  <2>4. BlocksAreOwned'
    BY <1>0, <1>3 DEF BlocksAreOwned, Owns, Conns, TypeOK, Refuse,
      HandlerGoes, PieceDone, Sent
  <2>5. WorkInHand'
    <3>1. scan[c] \in Seq({"data", "option"}) /\ scan[c] # <<>>
      BY <1>0, <1>3 DEF TypeOK, WorkInHand, Refuse
    <3>2. /\ Tail(scan[c]) \in Seq({"data", "option"})
         /\ Len(scan[c]) # 1 => Tail(scan[c]) # <<>>
      BY <3>1, SeqTail
    <3> QED
      BY <1>0, <1>3, <3>1, <3>2 DEF TypeOK, Conns, WorkInHand, Refuse,
        PieceDone, HandlerGoes
  <2>6. LockHeldByWorker'
    BY <1>0, <1>3 DEF LockHeldByWorker, Main, Handler, Listener, NoThread,
      TypeOK, Refuse, HandlerGoes, PieceDone, Sent
  <2>7. /\ AllLive' /\ RecordHasOneOwner'
       /\ SocketsAreRegistered' /\ MemorySafeUntilTeardown'
    BY <1>0, <1>3 DEF AllLive, RecordHasOneOwner, SocketsAreRegistered,
      MemorySafeUntilTeardown, Teardown, OwnsRecord, RegisteredAs, Conns,
      NoFd, Refuse, HandlerGoes, PieceDone, Sent
  <2> QED
    BY <2>1, <2>2, <2>3, <2>4, <2>5, <2>6, <2>7 DEF IInv, Consistent
<1>4. CASE GiveUp(c)
  <2>1. TypeOK'
    <3>1. <<>> \in Seq({"data", "option"})
      BY SMT
    <3> QED
      BY <1>0, <1>4, <3>1 DEF TypeOK, Conns, GiveUp, HandlerGoes, HandlerStates
  <2>2. ThreadsInOrder'
    BY <1>0, <1>4 DEF ThreadsInOrder, TypeOK, GiveUp, HandlerGoes
  <2>3. AcceptInOrder'
    BY <1>0, <1>4 DEF AcceptInOrder, Owns, Conns, TypeOK, GiveUp, HandlerGoes
  <2>4. BlocksAreOwned'
    BY <1>0, <1>4 DEF BlocksAreOwned, Owns, Conns, TypeOK, GiveUp, HandlerGoes
  <2>5. WorkInHand'
    BY <1>0, <1>4 DEF WorkInHand, TypeOK, GiveUp, HandlerGoes
  <2>6. LockHeldByWorker'
    BY <1>0, <1>4 DEF LockHeldByWorker, Main, Handler, Listener, NoThread,
      TypeOK, GiveUp, HandlerGoes
  <2>7. /\ AllLive' /\ RecordHasOneOwner'
       /\ SocketsAreRegistered' /\ MemorySafeUntilTeardown'
    BY <1>0, <1>4 DEF AllLive, RecordHasOneOwner, SocketsAreRegistered,
      MemorySafeUntilTeardown, Teardown, OwnsRecord, RegisteredAs, Conns,
      NoFd, GiveUp, HandlerGoes
  <2> QED
    BY <2>1, <2>2, <2>3, <2>4, <2>5, <2>6, <2>7 DEF IInv, Consistent
<1>5. CASE DataLock(c)
  <2>ok. CASE ~("lock" \in live)
    <3>1. Stop("undefined")
      BY <1>5, <2>ok DEF DataLock, Using
    <3>2. mpc \in Teardown
      BY <1>0, <1>5, <2>ok DEF AllLive
    <3> QED
      BY <1>s, <3>1, <3>2 DEF Outcomes
  <2>go. CASE "lock" \in live
    <3>1. TypeOK'
      <4>1. Handler(c) \in Threads
        BY DEF Threads
      <4> QED
        BY <1>0, <1>5, <2>go, <4>1 DEF TypeOK, Conns, DataLock, Using, Take, HandlerGoes,
          HandlerStates
    <3>2. ThreadsInOrder'
      BY <1>0, <1>5, <2>go DEF ThreadsInOrder, TypeOK, DataLock, HandlerGoes,
        Take, Using
    <3>3. AcceptInOrder'
      BY <1>0, <1>5, <2>go DEF AcceptInOrder, Owns, Conns, TypeOK, DataLock,
        HandlerGoes, Take, Using
    <3>4. BlocksAreOwned'
      BY <1>0, <1>5, <2>go DEF BlocksAreOwned, Owns, Conns, TypeOK, DataLock,
        HandlerGoes, Take, Using
    <3>5. WorkInHand'
      BY <1>0, <1>5, <2>go DEF WorkInHand, TypeOK, DataLock, HandlerGoes, Take,
        Using
    <3>6. LockHeldByWorker'
      BY <1>0, <1>5, <2>go DEF LockHeldByWorker, Main, Handler, Listener,
        NoThread, TypeOK, DataLock, HandlerGoes, Take, Using
    <3>7. /\ AllLive' /\ RecordHasOneOwner'
         /\ SocketsAreRegistered' /\ MemorySafeUntilTeardown'
      BY <1>0, <1>5, <2>go DEF AllLive, RecordHasOneOwner, SocketsAreRegistered,
        MemorySafeUntilTeardown, Teardown, OwnsRecord, RegisteredAs, Conns,
        NoFd, DataLock, HandlerGoes, Take, Using
    <3> QED
      BY <3>1, <3>2, <3>3, <3>4, <3>5, <3>6, <3>7 DEF IInv, Consistent
  <2> QED
    BY <2>ok, <2>go
<1>6. CASE AppendData(c)
  <2>ok. CASE ~("conns" \in live /\ KeysReadable(addrOf[c], ConnKeys))
    <3>1. Stop("undefined")
      BY <1>6, <2>ok DEF AppendData, Using
    <3>2. mpc \in Teardown
      BY <1>0, <1>6, <2>ok, BlocksOfRecords DEF AllLive, AppendData, KeysReadable,
        ConnKeys, BlocksAreOwned, ThreadsInOrder, Owns
    <3> QED
      BY <1>s, <3>1, <3>2 DEF Outcomes
  <2>go. CASE "conns" \in live /\ KeysReadable(addrOf[c], ConnKeys)
    <3>1. TypeOK'
      <4>1. addrOf[c] \in Addrs
        BY <1>0, <1>6, <2>go DEF TypeOK, ThreadsInOrder, AppendData
      <4>2. todo' \in [Conns -> Seq({"fetch", "exit"})]
        BY <1>0, <1>6, <2>go, TrafficAssumption DEF TypeOK, AppendData, Using
      <4>3. conns' \in [Addrs -> SUBSET Conns]
        <5>1. conns' = [conns EXCEPT ![addrOf[c]] = @ \cup {c}]
          BY <1>6, <2>go DEF AppendData, Using
        <5> QED
          BY <1>0, <4>1, <5>1 DEF TypeOK
      <4> QED
        BY <1>0, <1>6, <2>go, <4>1, <4>2, <4>3 DEF TypeOK, Conns, AppendData, Using,
          HandlerGoes, HandlerStates
    <3>2. ThreadsInOrder'
      BY <1>0, <1>6, <2>go DEF ThreadsInOrder, TypeOK, AppendData, HandlerGoes,
        Using
    <3>3. AcceptInOrder'
      <4>1. /\ hpc[c] = "append" /\ hpc' = [hpc EXCEPT ![c] = "exec"]
            /\ UNCHANGED <<mpc, opened, caddr, addrOf, lpc>>
        BY <1>6, <2>go DEF AppendData, HandlerGoes, Using, mainVars
      <4> QED
        BY <1>0, <4>1 DEF AcceptInOrder, Owns, Conns, TypeOK
    <3>4. BlocksAreOwned'
      BY <1>0, <1>6, <2>go DEF BlocksAreOwned, Owns, Conns, TypeOK, AppendData,
        HandlerGoes, Using
    <3>5. WorkInHand'
      BY <1>0, <1>6, <2>go DEF WorkInHand, TypeOK, AppendData, HandlerGoes,
        Using
    <3>6. LockHeldByWorker'
      BY <1>0, <1>6, <2>go DEF LockHeldByWorker, Main, Handler, Listener,
        NoThread, TypeOK, AppendData, HandlerGoes, Using
    <3>7. RecordHasOneOwner'
      <4> SUFFICES ASSUME NEW a \in Addrs, conns'[a] # {}
                   PROVE  \E d \in Conns : OwnsRecord(d, a)'
        BY DEF RecordHasOneOwner
      <4>0. /\ hpc[c] = "append" /\ lpc' = lpc /\ addrOf' = addrOf /\ heap' = heap
            /\ conns' = [conns EXCEPT ![addrOf[c]] = @ \cup {c}]
        BY <1>6, <2>go DEF AppendData, Using
      <4>1. Owns(c) /\ addrOf[c] \in heap /\ lpc[c] \in {"none", "join"}
        BY <1>0, <4>0 DEF ThreadsInOrder, BlocksAreOwned, Owns
      <4>2. CASE a = addrOf[c]
        <5>1. conns[a] \in {{}, {c}}
          BY <1>0, <4>1, <4>2, AddrAssumption
            DEF RecordHasOneOwner, OwnsRecord, ThreadsInOrder, BlocksAreOwned, Owns
        <5>2. conns'[a] = {c}
          BY <1>0, <4>0, <4>2, <5>1 DEF TypeOK
        <5> QED
          BY <4>0, <4>1, <4>2, <5>2 DEF OwnsRecord
      <4>3. CASE a # addrOf[c]
        <5>1. conns'[a] = conns[a]
          BY <1>0, <4>0, <4>3 DEF TypeOK
        <5>2. PICK d \in Conns : OwnsRecord(d, a)
          BY <1>0, <5>1 DEF RecordHasOneOwner
        <5> QED
          BY <4>0, <5>1, <5>2 DEF OwnsRecord
      <4> QED
        BY <4>2, <4>3
    <3>8. AllLive' /\ SocketsAreRegistered' /\ MemorySafeUntilTeardown'
      BY <1>0, <1>6, <2>go DEF AllLive, SocketsAreRegistered,
        MemorySafeUntilTeardown, Teardown, RegisteredAs, Conns, NoFd,
        AppendData, HandlerGoes, Using
    <3> QED
      BY <3>1, <3>2, <3>3, <3>4, <3>5, <3>6, <3>7, <3>8 DEF IInv, Consistent
  <2> QED
    BY <2>ok, <2>go
<1>7. CASE OpenFetch(c)
  <2>1. TypeOK'
    BY <1>0, <1>7 DEF TypeOK, Conns, NoFd, Threads, Outcomes, MainStates,
      Teardown, HandlerStates, ListenerStates, OpenFetch, HandlerGoes
  <2>2. ThreadsInOrder'
    BY <1>0, <1>7 DEF ThreadsInOrder, TypeOK, OpenFetch, HandlerGoes
  <2>3. AcceptInOrder'
    BY <1>0, <1>7 DEF AcceptInOrder, Owns, Conns, TypeOK, OpenFetch,
      HandlerGoes
  <2>4. BlocksAreOwned'
    BY <1>0, <1>7 DEF BlocksAreOwned, Owns, Conns, TypeOK, OpenFetch,
      HandlerGoes
  <2>5. WorkInHand'
    BY <1>0, <1>7 DEF WorkInHand, TypeOK, OpenFetch, HandlerGoes
  <2>6. LockHeldByWorker'
    BY <1>0, <1>7 DEF LockHeldByWorker, Main, Handler, Listener, NoThread,
      TypeOK, OpenFetch, HandlerGoes
  <2>7. /\ AllLive' /\ RecordHasOneOwner'
       /\ SocketsAreRegistered' /\ MemorySafeUntilTeardown'
    BY <1>0, <1>7 DEF AllLive, RecordHasOneOwner, SocketsAreRegistered,
      MemorySafeUntilTeardown, Teardown, OwnsRecord, RegisteredAs, Conns,
      NoFd, OpenFetch, HandlerGoes
  <2> QED
    BY <2>1, <2>2, <2>3, <2>4, <2>5, <2>6, <2>7 DEF IInv, Consistent
<1>8. CASE Fetched(c)
  <2>1. TypeOK'
    BY <1>0, <1>8 DEF TypeOK, Conns, NoFd, Threads, Outcomes, MainStates,
      Teardown, HandlerStates, ListenerStates, Fetched, HandlerGoes
  <2>2. ThreadsInOrder'
    BY <1>0, <1>8 DEF ThreadsInOrder, TypeOK, Fetched, HandlerGoes
  <2>3. AcceptInOrder'
    BY <1>0, <1>8 DEF AcceptInOrder, Owns, Conns, TypeOK, Fetched, HandlerGoes
  <2>4. BlocksAreOwned'
    BY <1>0, <1>8 DEF BlocksAreOwned, Owns, Conns, TypeOK, Fetched,
      HandlerGoes
  <2>5. WorkInHand'
    BY <1>0, <1>8 DEF WorkInHand, TypeOK, Fetched, HandlerGoes
  <2>6. LockHeldByWorker'
    BY <1>0, <1>8 DEF LockHeldByWorker, Main, Handler, Listener, NoThread,
      TypeOK, Fetched, HandlerGoes
  <2>7. /\ AllLive' /\ RecordHasOneOwner'
       /\ SocketsAreRegistered' /\ MemorySafeUntilTeardown'
    BY <1>0, <1>8 DEF AllLive, RecordHasOneOwner, SocketsAreRegistered,
      MemorySafeUntilTeardown, Teardown, OwnsRecord, RegisteredAs, Conns,
      NoFd, Fetched, HandlerGoes
  <2> QED
    BY <2>1, <2>2, <2>3, <2>4, <2>5, <2>6, <2>7 DEF IInv, Consistent
<1>9. CASE Reply(c)
  <2>1. TypeOK'
    <3>1. todo[c] \in Seq({"fetch", "exit"}) /\ todo[c] # <<>>
      BY <1>0, <1>9 DEF TypeOK, WorkInHand, Reply
    <3>2. Tail(todo[c]) \in Seq({"fetch", "exit"})
      BY <3>1, SeqTail
    <3>3. unread' \in [Conns -> 0 .. Window]
      BY <1>0, <1>9, TrafficAssumption DEF TypeOK, Sent, Reply
    <3> QED
      BY <1>0, <1>9, <3>1, <3>2, <3>3 DEF TypeOK, Conns, Reply, CommandDone,
        HandlerGoes, HandlerStates
  <2>2. ThreadsInOrder'
    BY <1>0, <1>9 DEF ThreadsInOrder, TypeOK, Reply, HandlerGoes, CommandDone,
      Sent
  <2>3. AcceptInOrder'
    BY <1>0, <1>9 DEF AcceptInOrder, Owns, Conns, TypeOK, Reply, HandlerGoes,
      CommandDone, Sent
  <2>4. BlocksAreOwned'
    BY <1>0, <1>9 DEF BlocksAreOwned, Owns, Conns, TypeOK, Reply, HandlerGoes,
      CommandDone, Sent
  <2>5. WorkInHand'
    BY <1>0, <1>9 DEF WorkInHand, TypeOK, Reply, HandlerGoes, CommandDone,
      Sent
  <2>6. LockHeldByWorker'
    BY <1>0, <1>9 DEF LockHeldByWorker, Main, Handler, Listener, NoThread,
      TypeOK, Reply, HandlerGoes, CommandDone, Sent
  <2>7. /\ AllLive' /\ RecordHasOneOwner'
       /\ SocketsAreRegistered' /\ MemorySafeUntilTeardown'
    BY <1>0, <1>9 DEF AllLive, RecordHasOneOwner, SocketsAreRegistered,
      MemorySafeUntilTeardown, Teardown, OwnsRecord, RegisteredAs, Conns,
      NoFd, Reply, HandlerGoes, CommandDone, Sent
  <2> QED
    BY <2>1, <2>2, <2>3, <2>4, <2>5, <2>6, <2>7 DEF IInv, Consistent
<1>10. CASE Exit(c)
  <2>1. TypeOK'
    <3>1. todo[c] \in Seq({"fetch", "exit"}) /\ todo[c] # <<>>
      BY <1>0, <1>10 DEF TypeOK, WorkInHand, Exit
    <3>2. Tail(todo[c]) \in Seq({"fetch", "exit"})
      BY <3>1, SeqTail
    <3> QED
      BY <1>0, <1>10, <3>1, <3>2 DEF TypeOK, Conns, Exit, CommandDone
  <2>2. WorkInHand'
    BY <1>0, <1>10 DEF WorkInHand, TypeOK, Exit, CommandDone
  <2>3. /\ ThreadsInOrder' /\ AcceptInOrder' /\ BlocksAreOwned' /\ AllLive'
       /\ LockHeldByWorker' /\ RecordHasOneOwner' /\ SocketsAreRegistered' /\ MemorySafeUntilTeardown'
    BY <1>0, <1>10 DEF ThreadsInOrder, AcceptInOrder, BlocksAreOwned, AllLive,
      LockHeldByWorker, RecordHasOneOwner, SocketsAreRegistered,
      MemorySafeUntilTeardown, Owns, Conns, Teardown, Main, Handler, Listener,
      NoThread, OwnsRecord, RegisteredAs, NoFd, Exit, CommandDone
  <2> QED
    BY <2>1, <2>2, <2>3 DEF IInv, Consistent
<1>11. CASE DataUnlock(c)
  <2>1. TypeOK'
    <3>1. scan[c] \in Seq({"data", "option"}) /\ scan[c] # <<>>
      BY <1>0, <1>11 DEF TypeOK, WorkInHand, DataUnlock
    <3>2. /\ Tail(scan[c]) \in Seq({"data", "option"})
         /\ Len(scan[c]) # 1 => Tail(scan[c]) # <<>>
      BY <3>1, SeqTail
    <3> QED
      BY <1>0, <1>11, <3>1, <3>2 DEF TypeOK, Conns, DataUnlock, PieceDone,
        HandlerGoes, HandlerStates
  <2>2. ThreadsInOrder'
    BY <1>0, <1>11 DEF ThreadsInOrder, TypeOK, DataUnlock, HandlerGoes,
      PieceDone
  <2>3. AcceptInOrder'
    BY <1>0, <1>11 DEF AcceptInOrder, Owns, Conns, TypeOK, DataUnlock,
      HandlerGoes, PieceDone
  <2>4. BlocksAreOwned'
    BY <1>0, <1>11 DEF BlocksAreOwned, Owns, Conns, TypeOK, DataUnlock,
      HandlerGoes, PieceDone
  <2>5. WorkInHand'
    <3>1. scan[c] \in Seq({"data", "option"}) /\ scan[c] # <<>>
      BY <1>0, <1>11 DEF TypeOK, WorkInHand, DataUnlock
    <3>2. /\ Tail(scan[c]) \in Seq({"data", "option"})
         /\ Len(scan[c]) # 1 => Tail(scan[c]) # <<>>
      BY <3>1, SeqTail
    <3> QED
      BY <1>0, <1>11, <3>1, <3>2 DEF TypeOK, Conns, WorkInHand, DataUnlock,
        PieceDone, HandlerGoes
  <2>6. LockHeldByWorker'
    BY <1>0, <1>11 DEF LockHeldByWorker, Main, Handler, Listener, NoThread,
      TypeOK, DataUnlock, HandlerGoes, PieceDone
  <2>7. /\ AllLive' /\ RecordHasOneOwner'
       /\ SocketsAreRegistered' /\ MemorySafeUntilTeardown'
    BY <1>0, <1>11 DEF AllLive, RecordHasOneOwner, SocketsAreRegistered,
      MemorySafeUntilTeardown, Teardown, OwnsRecord, RegisteredAs, Conns,
      NoFd, DataUnlock, HandlerGoes, PieceDone
  <2> QED
    BY <2>1, <2>2, <2>3, <2>4, <2>5, <2>6, <2>7 DEF IInv, Consistent
<1>12. CASE Leave(c)
  <2>1. TypeOK'
    BY <1>0, <1>12 DEF TypeOK, Conns, NoFd, Threads, Outcomes, MainStates,
      Teardown, HandlerStates, ListenerStates, Leave, HandlerGoes
  <2>2. ThreadsInOrder'
    BY <1>0, <1>12 DEF ThreadsInOrder, TypeOK, Leave, HandlerGoes
  <2>3. AcceptInOrder'
    BY <1>0, <1>12 DEF AcceptInOrder, Owns, Conns, TypeOK, Leave, HandlerGoes
  <2>4. BlocksAreOwned'
    BY <1>0, <1>12 DEF BlocksAreOwned, Owns, Conns, TypeOK, Leave, HandlerGoes
  <2>5. WorkInHand'
    BY <1>0, <1>12 DEF WorkInHand, TypeOK, Leave, HandlerGoes
  <2>6. LockHeldByWorker'
    BY <1>0, <1>12 DEF LockHeldByWorker, Main, Handler, Listener, NoThread,
      TypeOK, Leave, HandlerGoes
  <2>7. /\ AllLive' /\ RecordHasOneOwner'
       /\ SocketsAreRegistered' /\ MemorySafeUntilTeardown'
    BY <1>0, <1>12 DEF AllLive, RecordHasOneOwner, SocketsAreRegistered,
      MemorySafeUntilTeardown, Teardown, OwnsRecord, RegisteredAs, Conns,
      NoFd, Leave, HandlerGoes
  <2> QED
    BY <2>1, <2>2, <2>3, <2>4, <2>5, <2>6, <2>7 DEF IInv, Consistent
<1> QED BY <1>1, <1>2, <1>3, <1>4, <1>5, <1>6, <1>7, <1>8, <1>9, <1>10, <1>11,
  <1>12

-----------------------------------------------------------------------------
\* The disconnection listener of a connection.
LEMMA ListenerKeeps ==
  ASSUME IInv, NEW c \in Conns,
         \/ ListenerLock(c) \/ RemoveRecord(c) \/ RemoveSocket(c)
         \/ FreeAddr(c)
  PROVE  IInv'
<1> USE DEF shared, mainVars, threads, tables, net, local
<1>0. /\ TypeOK /\ ThreadsInOrder /\ AcceptInOrder /\ BlocksAreOwned /\ AllLive
      /\ WorkInHand /\ LockHeldByWorker /\ RecordHasOneOwner
      /\ SocketsAreRegistered /\ MemorySafeUntilTeardown
  BY DEF IInv, Consistent
<1>s. ASSUME NEW how \in Outcomes, Stop(how), how = "undefined" => mpc \in Teardown
      PROVE  IInv'
  BY <1>s, StopKeeps
<1>1. CASE ListenerLock(c)
  <2>ok. CASE ~("lock" \in live /\ addrOf[c] \in heap)
    <3>1. Stop("undefined")
      BY <1>1, <2>ok DEF ListenerLock, Using
    <3>2. mpc \in Teardown
      BY <1>0, <1>1, <2>ok DEF ListenerLock, AllLive, BlocksAreOwned, ThreadsInOrder, Owns
    <3> QED
      BY <1>s, <3>1, <3>2 DEF Outcomes
  <2>go. CASE "lock" \in live /\ addrOf[c] \in heap
    <3>1. TypeOK'
      <4>1. Listener(c) \in Threads
        BY DEF Threads
      <4> QED
        BY <1>0, <1>1, <2>go, <4>1 DEF TypeOK, Conns, ListenerLock, Using, Take,
          ListenerGoes, ListenerStates
    <3>2. ThreadsInOrder'
      BY <1>0, <1>1, <2>go DEF ThreadsInOrder, TypeOK, ListenerLock,
        ListenerGoes, Take, Using
    <3>3. AcceptInOrder'
      BY <1>0, <1>1, <2>go DEF AcceptInOrder, Owns, Conns, TypeOK, ListenerLock,
        ListenerGoes, Take, Using
    <3>4. BlocksAreOwned'
      BY <1>0, <1>1, <2>go DEF BlocksAreOwned, Owns, Conns, TypeOK,
        ListenerLock, ListenerGoes, Take, Using
    <3>5. LockHeldByWorker'
      BY <1>0, <1>1, <2>go DEF LockHeldByWorker, Main, Handler, Listener,
        NoThread, TypeOK, ListenerLock, ListenerGoes, Take, Using
    <3>6. RecordHasOneOwner'
      <4> SUFFICES ASSUME NEW a \in Addrs, conns'[a] # {}
                   PROVE  \E d \in Conns : OwnsRecord(d, a)'
        BY DEF RecordHasOneOwner
      <4>1. PICK d \in Conns : OwnsRecord(d, a)
        BY <1>0, <1>1, <2>go DEF RecordHasOneOwner, ListenerLock, Using
      <4>2. OwnsRecord(d, a)'
        BY <1>0, <1>1, <2>go, <4>1 DEF OwnsRecord, TypeOK, ListenerLock, Using, ListenerGoes
      <4> QED
        BY <4>2
    <3>7. SocketsAreRegistered'
      <4> SUFFICES ASSUME NEW a \in Addrs, NEW d \in Conns
                   PROVE  (socks[a] = d <=> RegisteredAs(d, a))'
        BY DEF SocketsAreRegistered
      <4>1. socks[a] = d <=> RegisteredAs(d, a)
        BY <1>0 DEF SocketsAreRegistered
      <4> QED
        BY <1>0, <1>1, <2>go, <4>1 DEF RegisteredAs, TypeOK, ListenerLock, Using,
          ListenerGoes, ThreadsInOrder
    <3>8. AllLive' /\ WorkInHand' /\ MemorySafeUntilTeardown'
      BY <1>0, <1>1, <2>go DEF AllLive, WorkInHand, MemorySafeUntilTeardown,
        Teardown, ListenerLock, ListenerGoes, Take, Using
    <3> QED
      BY <3>1, <3>2, <3>3, <3>4, <3>5, <3>6, <3>7, <3>8 DEF IInv, Consistent
  <2> QED
    BY <2>ok, <2>go
<1>2. CASE RemoveRecord(c)
  <2>ok. CASE ~("conns" \in live /\ KeysReadable(addrOf[c], {}))
    <3>1. Stop("undefined")
      BY <1>2, <2>ok DEF RemoveRecord, Using
    <3>2. mpc \in Teardown
      BY <1>0, <1>2, <2>ok DEF RemoveRecord, AllLive, KeysReadable, BlocksAreOwned,
        ThreadsInOrder, Owns
    <3> QED
      BY <1>s, <3>1, <3>2 DEF Outcomes
  <2>go. CASE "conns" \in live /\ KeysReadable(addrOf[c], {})
    <3>1. TypeOK'
      BY <1>0, <1>2, <2>go DEF TypeOK, Conns, NoFd, Threads, Outcomes,
        MainStates, Teardown, HandlerStates, ListenerStates, RemoveRecord,
        ListenerGoes, Using
    <3>2. ThreadsInOrder'
      BY <1>0, <1>2, <2>go DEF ThreadsInOrder, TypeOK, RemoveRecord,
        ListenerGoes, Using
    <3>3. AcceptInOrder'
      BY <1>0, <1>2, <2>go DEF AcceptInOrder, Owns, Conns, TypeOK, RemoveRecord,
        ListenerGoes, Using
    <3>4. BlocksAreOwned'
      BY <1>0, <1>2, <2>go DEF BlocksAreOwned, Owns, Conns, TypeOK,
        RemoveRecord, ListenerGoes, Using
    <3>5. LockHeldByWorker'
      BY <1>0, <1>2, <2>go DEF LockHeldByWorker, Main, Handler, Listener,
        NoThread, TypeOK, RemoveRecord, ListenerGoes, Using
    <3>6. RecordHasOneOwner'
      <4> SUFFICES ASSUME NEW a \in Addrs, conns'[a] # {}
                   PROVE  \E d \in Conns : OwnsRecord(d, a)'
        BY DEF RecordHasOneOwner
      <4>1. conns[a] # {} /\ a # addrOf[c] /\ conns'[a] = conns[a]
        BY <1>0, <1>2, <2>go DEF RemoveRecord, Using, TypeOK
      <4>2. PICK d \in Conns : OwnsRecord(d, a)
        BY <1>0, <4>1 DEF RecordHasOneOwner
      <4>3. OwnsRecord(d, a)'
        BY <1>0, <1>2, <2>go, <4>1, <4>2 DEF OwnsRecord, TypeOK, RemoveRecord, Using, ListenerGoes
      <4> QED
        BY <4>3
    <3>7. SocketsAreRegistered'
      <4> SUFFICES ASSUME NEW a \in Addrs, NEW d \in Conns
                   PROVE  (socks[a] = d <=> RegisteredAs(d, a))'
        BY DEF SocketsAreRegistered
      <4>1. socks[a] = d <=> RegisteredAs(d, a)
        BY <1>0 DEF SocketsAreRegistered
      <4> QED
        BY <1>0, <1>2, <2>go, <4>1 DEF RegisteredAs, TypeOK, RemoveRecord, Using,
          ListenerGoes, ThreadsInOrder
    <3>8. AllLive' /\ WorkInHand' /\ MemorySafeUntilTeardown'
      BY <1>0, <1>2, <2>go DEF AllLive, WorkInHand, MemorySafeUntilTeardown,
        Teardown, RemoveRecord, ListenerGoes, Using
    <3> QED
      BY <3>1, <3>2, <3>3, <3>4, <3>5, <3>6, <3>7, <3>8 DEF IInv, Consistent
  <2> QED
    BY <2>ok, <2>go
<1>3. CASE RemoveSocket(c)
  <2>ok. CASE ~("socks" \in live /\ KeysReadable(addrOf[c], {}) /\ socks[addrOf[c]] # NoFd)
    <3>1. Stop("undefined")
      BY <1>3, <2>ok DEF RemoveSocket, Using
    <3>2. mpc \in Teardown
      BY <1>0, <1>3, <2>ok DEF RemoveSocket, AllLive, KeysReadable, BlocksAreOwned,
        ThreadsInOrder, SocketsAreRegistered, RegisteredAs, Owns, Conns, NoFd
    <3> QED
      BY <1>s, <3>1, <3>2 DEF Outcomes
  <2>go. CASE "socks" \in live /\ KeysReadable(addrOf[c], {}) /\ socks[addrOf[c]] # NoFd
    <3>1. TypeOK'
      <4>1. socks[addrOf[c]] \in Conns
        BY <1>0, <1>3, <2>go DEF TypeOK, KeysReadable
      <4> QED
        BY <1>0, <1>3, <2>go, <4>1 DEF TypeOK, Conns, RemoveSocket, Using, ListenerGoes,
          ListenerStates, NoFd
    <3>2. ThreadsInOrder'
      BY <1>0, <1>3, <2>go DEF ThreadsInOrder, TypeOK, RemoveSocket,
        ListenerGoes, Using
    <3>3. AcceptInOrder'
      BY <1>0, <1>3, <2>go DEF AcceptInOrder, Owns, Conns, TypeOK, RemoveSocket,
        ListenerGoes, Using
    <3>4. BlocksAreOwned'
      BY <1>0, <1>3, <2>go DEF BlocksAreOwned, Owns, Conns, TypeOK,
        RemoveSocket, ListenerGoes, Using
    <3>5. LockHeldByWorker'
      BY <1>0, <1>3, <2>go DEF LockHeldByWorker, Main, Handler, Listener,
        NoThread, TypeOK, RemoveSocket, ListenerGoes, Using
    <3>6. RecordHasOneOwner'
      <4> SUFFICES ASSUME NEW a \in Addrs, conns'[a] # {}
                   PROVE  \E d \in Conns : OwnsRecord(d, a)'
        BY DEF RecordHasOneOwner
      <4>1. PICK d \in Conns : OwnsRecord(d, a)
        BY <1>0, <1>3, <2>go DEF RecordHasOneOwner, RemoveSocket, Using
      <4>2. OwnsRecord(d, a)'
        BY <1>0, <1>3, <2>go, <4>1 DEF OwnsRecord, TypeOK, RemoveSocket, Using, ListenerGoes, BlocksAreOwned, Owns, ThreadsInOrder
      <4> QED
        BY <4>2
    <3>7. SocketsAreRegistered'
      <4>0. /\ lpc[c] = "socket" /\ lpc' = [lpc EXCEPT ![c] = "free"]
            /\ socks' = [socks EXCEPT ![addrOf[c]] = NoFd]
            /\ UNCHANGED <<mpc, opened, addrOf>>
        BY <1>3, <2>go DEF RemoveSocket, Using, ListenerGoes
      <4>1. Owns(c) /\ addrOf[c] \in Addrs /\ ~(mpc = "listen" /\ c = opened)
        BY <1>0, <4>0 DEF ThreadsInOrder, AcceptInOrder, Owns
      <4> SUFFICES ASSUME NEW a \in Addrs, NEW d \in Conns
                   PROVE  (socks[a] = d <=> RegisteredAs(d, a))'
        BY DEF SocketsAreRegistered
      <4>2. socks[a] = d <=> RegisteredAs(d, a)
        BY <1>0 DEF SocketsAreRegistered
      <4>3. CASE d = c
        BY <1>0, <4>0, <4>1, <4>2, <4>3 DEF RegisteredAs, TypeOK, NoFd, Conns
      <4>4. CASE d # c
        <5>1. RegisteredAs(d, a)' <=> RegisteredAs(d, a)
          BY <1>0, <4>0, <4>4 DEF RegisteredAs, TypeOK
        <5>2. a = addrOf[c] => ~RegisteredAs(d, a)
          BY <1>0, <4>1, <4>4
            DEF RegisteredAs, BlocksAreOwned, ThreadsInOrder, AcceptInOrder, Owns
        <5> QED
          BY <1>0, <4>0, <4>2, <5>1, <5>2 DEF TypeOK, NoFd, Conns
      <4> QED
        BY <4>3, <4>4
    <3>8. AllLive' /\ WorkInHand' /\ MemorySafeUntilTeardown'
      BY <1>0, <1>3, <2>go DEF AllLive, WorkInHand, MemorySafeUntilTeardown,
        Teardown, RemoveSocket, ListenerGoes, Using
    <3> QED
      BY <3>1, <3>2, <3>3, <3>4, <3>5, <3>6, <3>7, <3>8 DEF IInv, Consistent
  <2> QED
    BY <2>ok, <2>go
<1>4. CASE FreeAddr(c)
  <2>ok. CASE ~(addrOf[c] \in heap)
    <3>1. Stop("undefined")
      BY <1>4, <2>ok DEF FreeAddr, Using
    <3>2. mpc \in Teardown
      BY <1>0, <1>4, <2>ok DEF FreeAddr, BlocksAreOwned, ThreadsInOrder, Owns
    <3> QED
      BY <1>s, <3>1, <3>2 DEF Outcomes
  <2>go. CASE addrOf[c] \in heap
    <3>1. TypeOK'
      BY <1>0, <1>4, <2>go DEF TypeOK, Conns, NoFd, Threads, Outcomes,
        MainStates, Teardown, HandlerStates, ListenerStates, FreeAddr,
        ListenerGoes, Using
    <3>2. ThreadsInOrder'
      BY <1>0, <1>4, <2>go DEF ThreadsInOrder, TypeOK, FreeAddr, ListenerGoes,
        Using
    <3>3. AcceptInOrder'
      BY <1>0, <1>4, <2>go DEF AcceptInOrder, Owns, Conns, TypeOK, FreeAddr,
        ListenerGoes, Using
    <3>4. BlocksAreOwned'
      <4>1. \A d \in Conns : d # c /\ Owns(d) => addrOf[d] # addrOf[c]
        BY <1>0, <1>4, <2>go DEF BlocksAreOwned, ThreadsInOrder, FreeAddr, Owns
      <4>2. /\ lpc' = [lpc EXCEPT ![c] = "done"] /\ heap' = heap \ {addrOf[c]}
            /\ \A d \in Conns : Owns(d)' => Owns(d) /\ d # c
        BY <1>0, <1>4, <2>go DEF FreeAddr, Using, ListenerGoes, Owns, TypeOK
      <4>3. mpc \in {"accept", "waiting", "spawn"} => caddr # addrOf[c]
        BY <1>0, <1>4, <2>go DEF BlocksAreOwned, ThreadsInOrder, FreeAddr, Owns
      <4> QED
        BY <1>0, <1>4, <2>go, <4>1, <4>2, <4>3 DEF BlocksAreOwned, FreeAddr, Using
    <3>5. LockHeldByWorker'
      BY <1>0, <1>4, <2>go DEF LockHeldByWorker, Main, Handler, Listener,
        NoThread, TypeOK, FreeAddr, ListenerGoes, Using
    <3>6. RecordHasOneOwner'
      <4> SUFFICES ASSUME NEW a \in Addrs, conns'[a] # {}
                   PROVE  \E d \in Conns : OwnsRecord(d, a)'
        BY DEF RecordHasOneOwner
      <4>1. PICK d \in Conns : OwnsRecord(d, a)
        BY <1>0, <1>4, <2>go DEF RecordHasOneOwner, FreeAddr, Using
      <4>2. OwnsRecord(d, a)'
        BY <1>0, <1>4, <2>go, <4>1, AddrAssumption DEF OwnsRecord, TypeOK, FreeAddr, Using, ListenerGoes, BlocksAreOwned, Owns, ThreadsInOrder
      <4> QED
        BY <4>2
    <3>7. SocketsAreRegistered'
      <4> SUFFICES ASSUME NEW a \in Addrs, NEW d \in Conns
                   PROVE  (socks[a] = d <=> RegisteredAs(d, a))'
        BY DEF SocketsAreRegistered
      <4>1. socks[a] = d <=> RegisteredAs(d, a)
        BY <1>0 DEF SocketsAreRegistered
      <4> QED
        BY <1>0, <1>4, <2>go, <4>1 DEF RegisteredAs, TypeOK, FreeAddr, Using,
          ListenerGoes, ThreadsInOrder
    <3>8. AllLive' /\ WorkInHand' /\ MemorySafeUntilTeardown'
      BY <1>0, <1>4, <2>go DEF AllLive, WorkInHand, MemorySafeUntilTeardown,
        Teardown, FreeAddr, ListenerGoes, Using
    <3> QED
      BY <3>1, <3>2, <3>3, <3>4, <3>5, <3>6, <3>7, <3>8 DEF IInv, Consistent
  <2> QED
    BY <2>ok, <2>go
<1> QED BY <1>1, <1>2, <1>3, <1>4

-----------------------------------------------------------------------------
\* The peer of a connection, and the segments it sends.
LEMMA PeerKeeps ==
  ASSUME IInv, NEW c \in Conns,
         \/ Recv(c) \/ PeerReads(c) \/ PeerCloses(c)
  PROVE  IInv'
<1> USE DEF shared, mainVars, threads, tables, net, local
<1>0. /\ TypeOK /\ ThreadsInOrder /\ AcceptInOrder /\ BlocksAreOwned /\ AllLive
      /\ WorkInHand /\ LockHeldByWorker /\ RecordHasOneOwner
      /\ SocketsAreRegistered /\ MemorySafeUntilTeardown
  BY DEF IInv, Consistent
<1>1. CASE Recv(c)
  <2>1. TypeOK'
    <3>1. budget[c] - 1 \in 0 .. MaxSegments
      BY <1>0, <1>1, TrafficAssumption DEF TypeOK, Recv
    <3>2. scan' \in [Conns -> Seq({"data", "option"})]
      BY <1>0, <1>1, TrafficAssumption DEF TypeOK, Recv
    <3> QED
      BY <1>0, <1>1, <3>1, <3>2 DEF TypeOK, Conns, Recv, HandlerGoes,
        HandlerStates
  <2>2. ThreadsInOrder'
    BY <1>0, <1>1 DEF ThreadsInOrder, TypeOK, Recv, HandlerGoes
  <2>3. AcceptInOrder'
    BY <1>0, <1>1 DEF AcceptInOrder, Owns, Conns, TypeOK, Recv, HandlerGoes
  <2>4. BlocksAreOwned'
    BY <1>0, <1>1 DEF BlocksAreOwned, Owns, Conns, TypeOK, Recv, HandlerGoes
  <2>5. WorkInHand'
    <3>1. scan'[c] # <<>>
      BY <1>0, <1>1, TrafficAssumption DEF TypeOK, Recv
    <3> QED
      BY <1>0, <1>1, <3>1 DEF TypeOK, Conns, WorkInHand, Recv, HandlerGoes
  <2>6. LockHeldByWorker'
    BY <1>0, <1>1 DEF LockHeldByWorker, Main, Handler, Listener, NoThread,
      TypeOK, Recv, HandlerGoes
  <2>7. /\ AllLive' /\ RecordHasOneOwner'
       /\ SocketsAreRegistered' /\ MemorySafeUntilTeardown'
    BY <1>0, <1>1 DEF AllLive, RecordHasOneOwner, SocketsAreRegistered,
      MemorySafeUntilTeardown, Teardown, OwnsRecord, RegisteredAs, Conns,
      NoFd, Recv, HandlerGoes
  <2> QED
    BY <2>1, <2>2, <2>3, <2>4, <2>5, <2>6, <2>7 DEF IInv, Consistent
<1>2. CASE PeerReads(c)
  <2>1. TypeOK'
    <3>1. 0 \in 0 .. Window
      BY TrafficAssumption
    <3> QED
      BY <1>0, <1>2, <3>1 DEF TypeOK, Conns, PeerReads
  <2>2. /\ ThreadsInOrder' /\ AcceptInOrder' /\ BlocksAreOwned' /\ AllLive' /\ WorkInHand'
       /\ LockHeldByWorker' /\ RecordHasOneOwner' /\ SocketsAreRegistered' /\ MemorySafeUntilTeardown'
    BY <1>0, <1>2 DEF ThreadsInOrder, AcceptInOrder, BlocksAreOwned, AllLive,
      WorkInHand, LockHeldByWorker, RecordHasOneOwner, SocketsAreRegistered,
      MemorySafeUntilTeardown, Owns, Conns, Teardown, Main, Handler, Listener,
      NoThread, OwnsRecord, RegisteredAs, NoFd, PeerReads
  <2> QED
    BY <2>1, <2>2 DEF IInv, Consistent
<1>3. CASE PeerCloses(c)
  <2>1. TypeOK'
    BY <1>0, <1>3 DEF TypeOK, Conns, NoFd, Threads, Outcomes, MainStates,
      Teardown, HandlerStates, ListenerStates, PeerCloses
  <2>2. /\ ThreadsInOrder' /\ AcceptInOrder' /\ BlocksAreOwned' /\ AllLive' /\ WorkInHand'
       /\ LockHeldByWorker' /\ RecordHasOneOwner' /\ SocketsAreRegistered' /\ MemorySafeUntilTeardown'
    BY <1>0, <1>3 DEF ThreadsInOrder, AcceptInOrder, BlocksAreOwned, AllLive,
      WorkInHand, LockHeldByWorker, RecordHasOneOwner, SocketsAreRegistered,
      MemorySafeUntilTeardown, Owns, Conns, Teardown, Main, Handler, Listener,
      NoThread, OwnsRecord, RegisteredAs, NoFd, PeerCloses
  <2> QED
    BY <2>1, <2>2 DEF IInv, Consistent
<1> QED BY <1>1, <1>2, <1>3

-----------------------------------------------------------------------------
\* The steps that end the process.
LEMMA StopsKeep ==
  ASSUME IInv,
         \/ ListenFails \/ Return \/ OutOfMemory
         \/ \E c \in Conns : Killed(c) \/ FetchFails(c) \/ CommandCrashes(c)
  PROVE  IInv'
<1>1. \E how \in Outcomes \ {"undefined"} : Stop(how)
  BY DEF ListenFails, Return, OutOfMemory, Killed, FetchFails, CommandCrashes, Outcomes
<1> QED
  BY <1>1, StopKeeps

LEMMA StutterKeeps ==
  ASSUME IInv, UNCHANGED vars
  PROVE  IInv'
<1> USE DEF vars, shared, mainVars, threads, tables, net, local
<1>1. TypeOK'
  BY DEF IInv, TypeOK
<1>2. /\ ThreadsInOrder' /\ AcceptInOrder' /\ BlocksAreOwned' /\ AllLive'
      /\ WorkInHand' /\ LockHeldByWorker'
  BY DEF IInv, Consistent, ThreadsInOrder, AcceptInOrder, BlocksAreOwned, Owns,
    AllLive, WorkInHand, LockHeldByWorker
<1>3. RecordHasOneOwner' /\ SocketsAreRegistered' /\ MemorySafeUntilTeardown'
  BY DEF IInv, Consistent, RecordHasOneOwner, OwnsRecord, SocketsAreRegistered,
    RegisteredAs, MemorySafeUntilTeardown
<1> QED
  BY <1>1, <1>2, <1>3 DEF IInv, Consistent

LEMMA InitIInv == Init => IInv
<1> SUFFICES ASSUME Init
             PROVE  IInv
  OBVIOUS
<1> USE DEF Init
<1>1. TypeOK
  <2>1. /\ <<>> \in Seq({"data", "option"}) /\ <<>> \in Seq({"fetch", "exit"})
        /\ 0 \in 0 .. Window /\ MaxSegments \in 0 .. MaxSegments
        /\ 0 \in 0 .. FdLimit
    BY LimitAssumption, TrafficAssumption, EmptySeq
  <2> QED
    BY <2>1 DEF TypeOK, Outcomes, MainStates, HandlerStates, ListenerStates
<1>2. /\ ThreadsInOrder /\ AcceptInOrder /\ BlocksAreOwned /\ AllLive
      /\ WorkInHand /\ RecordHasOneOwner /\ MemorySafeUntilTeardown
  BY DEF ThreadsInOrder, AcceptInOrder, BlocksAreOwned, Owns, AllLive,
    WorkInHand, RecordHasOneOwner, MemorySafeUntilTeardown
<1>3. SocketsAreRegistered
  BY DEF SocketsAreRegistered, RegisteredAs, Conns, NoFd
<1>4. LockHeldByWorker
  BY DEF LockHeldByWorker, NoThread, Main, Handler, Listener
<1> QED
  BY <1>1, <1>2, <1>3, <1>4 DEF IInv, Consistent

LEMMA NextKeeps == IInv /\ [Next]_vars => IInv'
<1> SUFFICES ASSUME IInv, [Next]_vars
             PROVE  IInv'
  OBVIOUS
<1>1. CASE MainStep \/ MainChance
  BY <1>1, MainKeeps, StopsKeep DEF MainStep, MainChance
<1>2. CASE OutOfMemory
  BY <1>2, StopsKeep
<1>3. ASSUME NEW c \in Conns, HandlerStep(c)
      PROVE  IInv'
  BY <1>3, HandlerKeeps, StopsKeep DEF HandlerStep
<1>4. ASSUME NEW c \in Conns, ListenerStep(c)
      PROVE  IInv'
  BY <1>4, ListenerKeeps DEF ListenerStep
<1>5. ASSUME NEW c \in Conns, PeerStep(c)
      PROVE  IInv'
  BY <1>5, PeerKeeps DEF PeerStep
<1>6. CASE Over \/ UNCHANGED vars
  BY <1>6, StutterKeeps DEF Over
<1> QED
  BY <1>1, <1>2, <1>3, <1>4, <1>5, <1>6 DEF Next

\* The invariant of the server, for every number of descriptors, blocks and
\* peers: TypeOK and all of Consistent hold in every reachable state.
THEOREM Invariant == Spec => []IInv
  BY InitIInv, NextKeeps, PTL DEF Spec

\* Every variable keeps its type.
THEOREM TypeCorrect == Spec => []TypeOK
<1>1. IInv => TypeOK
  BY DEF IInv
<1> QED
  BY <1>1, Invariant, PTL

\* Undefined behaviour (a freed block, a missing entry, a destroyed object) is
\* confined to the teardown, for any number of connections.
THEOREM MemorySafe == Spec => []MemorySafeUntilTeardown
<1>1. IInv => MemorySafeUntilTeardown
  BY DEF IInv, Consistent
<1> QED
  BY <1>1, Invariant, PTL

\* Reuse of a block never mixes the bytes of two connections.
THEOREM OneOwner == Spec => []RecordHasOneOwner
<1>1. IInv => RecordHasOneOwner
  BY DEF IInv, Consistent
<1> QED
  BY <1>1, Invariant, PTL

\* current_sockets lists exactly the registered connections.
THEOREM RegisteredExactly == Spec => []SocketsAreRegistered
<1>1. IInv => SocketsAreRegistered
  BY DEF IInv, Consistent
<1> QED
  BY <1>1, Invariant, PTL

\* connection_lock is held by exactly the thread that works under it.
THEOREM LockDiscipline == Spec => []LockHeldByWorker
<1>1. IInv => LockHeldByWorker
  BY DEF IInv, Consistent
<1> QED
  BY <1>1, Invariant, PTL

-----------------------------------------------------------------------------
(* TelnetServer implements SessionRegistry. *)


\* What the registry sees of a state in which the invariant holds.
LEMMA RecordsSeen ==
  ASSUME IInv, NEW c \in Conns
  PROVE  c \in Buffered <=> addrOf[c] \in Addrs /\ conns[addrOf[c]] = {c}
<1>1. ASSUME NEW a \in Addrs, c \in conns[a]
      PROVE  addrOf[c] = a /\ conns[a] = {c}
  BY <1>1 DEF IInv, Consistent, RecordHasOneOwner, OwnsRecord
<1> QED
  BY <1>1 DEF Buffered

LEMMA SocketsSeen ==
  ASSUME IInv, NEW c \in Conns
  PROVE  c \in Registered <=> addrOf[c] \in Addrs /\ RegisteredAs(c, addrOf[c])
  BY DEF IInv, Consistent, SocketsAreRegistered, RegisteredAs, Registered

\* The thread steps that change none of what the registry sees.
LEMMA Stuttering ==
  ASSUME UNCHANGED <<proc, conns, socks>>, Stage' = Stage
  PROVE  UNCHANGED Abstract!vars
  BY DEF Abstract!vars, Buffered, Registered, Running

LEMMA StageKept ==
  ASSUME NEW c \in Conns, TypeOK,
         \A d \in Conns : d # c => hpc'[d] = hpc[d] /\ lpc'[d] = lpc[d],
         StageOf(c)' = StageOf(c)
  PROVE  Stage' = Stage
<1>1. \A d \in Conns : StageOf(d)' = StageOf(d)
  BY DEF StageOf
<1> QED
  BY <1>1 DEF Stage

LEMMA StageMoved ==
  ASSUME NEW c \in Conns, TypeOK,
         \A d \in Conns : d # c => hpc'[d] = hpc[d] /\ lpc'[d] = lpc[d]
  PROVE  Stage' = [Stage EXCEPT ![c] = StageOf(c)']
<1>1. \A d \in Conns : d # c => StageOf(d)' = StageOf(d)
  BY DEF StageOf
<1> QED
  BY <1>1 DEF Stage

\* The accept loop: only the new handler and the new descriptor are seen.
LEMMA MainSimulates ==
  ASSUME IInv, MainStep \/ MainChance
  PROVE  Abstract!Next \/ UNCHANGED Abstract!vars
<1> USE DEF shared, mainVars, threads, tables, net, local
<1>1. CASE Spawn
  <2>0. opened \in Conns /\ hpc[opened] = "none" /\ TypeOK
    BY <1>1 DEF IInv, Consistent, AcceptInOrder, Spawn
  <2>1. PICK c \in Conns : c = opened
    BY <2>0
  <2>2. /\ \A d \in Conns : d # c => hpc'[d] = hpc[d] /\ lpc'[d] = lpc[d]
        /\ hpc'[c] = "start" /\ lpc'[c] = "none"
        /\ UNCHANGED <<proc, conns, socks>>
    BY <1>1, <2>0, <2>1 DEF Spawn, TypeOK, IInv, Consistent, ThreadsInOrder
  <2>3. StageOf(c) = "unborn" /\ StageOf(c)' = "open"
    <3>1. hpc[c] = "none"
      BY <2>0, <2>1
    <3>2. StageOf(c) = "unborn"
      BY <2>0, <3>1 DEF StageOf, TypeOK, IInv, Consistent, ThreadsInOrder
    <3>3. StageOf(c)' = "open"
      BY <2>2 DEF StageOf
    <3> QED
      BY <3>2, <3>3
  <2>4. Stage' = [Stage EXCEPT ![c] = "open"]
    BY <2>0, <2>2, <2>3, StageMoved
  <2>5. Abstract!Open(c)
    BY <1>1, <2>2, <2>3, <2>4
      DEF Abstract!Open, Stage, Buffered, Registered, Running, Spawn
  <2> QED
    BY <2>5 DEF Abstract!Next
<1>2. CASE PutSocket
  <2>0. /\ opened \in Conns /\ Owns(opened) /\ lpc[opened] = "none"
        /\ addrOf[opened] = caddr /\ mpc = "put" /\ caddr \in Addrs /\ TypeOK
        /\ caddr \in heap
    BY <1>2 DEF IInv, Consistent, AcceptInOrder, BlocksAreOwned, TypeOK, PutSocket
  <2>1. KeysReadable(caddr, SockKeys)
    BY <2>0, BlocksOfSockets DEF KeysReadable
  <2>2. /\ socks' = [socks EXCEPT ![caddr] = opened]
        /\ UNCHANGED <<proc, conns, hpc, lpc>>
    BY <1>2, <2>1 DEF PutSocket, Using
  <2>3. socks[caddr] \notin Conns
    <3>1. \A d \in Conns : ~RegisteredAs(d, caddr)
      BY <2>0 DEF RegisteredAs, IInv, Consistent, BlocksAreOwned, ThreadsInOrder, Owns
    <3> QED
      BY <2>0, <3>1 DEF IInv, Consistent, SocketsAreRegistered
  <2>4. Registered' = Registered \cup {opened}
    BY <2>0, <2>2, <2>3 DEF Registered, TypeOK
  <2>5. opened \notin Registered
    BY <2>0, SocketsSeen DEF RegisteredAs
  <2>6. Stage' = Stage /\ Buffered' = Buffered
    BY <2>2 DEF Stage, StageOf, Buffered
  <2>7. Stage[opened] \in {"open", "left"}
    BY <2>0 DEF Stage, StageOf, Owns
  <2>8. Abstract!Register(opened)
    BY <1>2, <2>2, <2>4, <2>5, <2>6, <2>7 DEF Abstract!Register, Running, PutSocket
  <2> QED
    BY <2>0, <2>8 DEF Abstract!Next
<1>3. CASE Listen
  <2>0. opened \in Conns /\ hpc[opened] # "none" /\ lpc[opened] = "none" /\ TypeOK
    BY <1>3 DEF IInv, Consistent, AcceptInOrder, Owns, Listen
  <2>1. PICK c \in Conns : c = opened
    BY <2>0
  <2>2. /\ \A d \in Conns : d # c => hpc'[d] = hpc[d] /\ lpc'[d] = lpc[d]
        /\ hpc'[c] = hpc[c] /\ lpc'[c] = "join"
        /\ UNCHANGED <<proc, conns, socks>>
    BY <1>3, <2>0, <2>1 DEF Listen, TypeOK
  <2>3. StageOf(c)' = StageOf(c)
    BY <2>0, <2>1, <2>2 DEF StageOf
  <2> QED
    BY <2>0, <2>2, <2>3, StageKept, Stuttering
<1>4. CASE ListenFails \/ Return
  BY <1>4 DEF ListenFails, Return, Stop, Abstract!Next, Abstract!Halt, Running,
    Stage, StageOf, Buffered, Registered
<1>5. CASE \/ Alloc \/ AllocFails \/ CallAccept \/ AcceptFull \/ RegisterLock
           \/ DestroyLock \/ DestroyConns \/ DestroySocks
           \/ Accept \/ AcceptFails \/ SpawnFails
  <2>1. UNCHANGED <<proc, conns, socks, hpc, lpc>>
    BY <1>5 DEF Alloc, AllocFails, CallAccept, AcceptFull, RegisterLock, Take,
      DestroyLock, DestroyConns, DestroySocks, Accept, AcceptFails, LeaveLoop,
      SpawnFails
  <2>2. Stage' = Stage
    BY <2>1 DEF Stage, StageOf
  <2> QED
    BY <2>1, <2>2, Stuttering
<1> QED
  BY <1>1, <1>2, <1>3, <1>4, <1>5 DEF MainStep, MainChance

\* A handler: it feeds its own record, and it leaves.
LEMMA HandlerSimulates ==
  ASSUME IInv, NEW c \in Conns, HandlerStep(c)
  PROVE  Abstract!Next \/ UNCHANGED Abstract!vars
<1> USE DEF shared, mainVars, threads, tables, net, local
<1>0. TypeOK /\ ThreadsInOrder
  BY DEF IInv, Consistent
<1>1. CASE AppendData(c)
  <2>0. /\ hpc[c] = "append" /\ lpc[c] \in {"none", "join"} /\ addrOf[c] \in Addrs
        /\ Running
    BY <1>0, <1>1 DEF ThreadsInOrder, AppendData
  <2>1. CASE ~("conns" \in live /\ KeysReadable(addrOf[c], ConnKeys))
    BY <1>1, <2>1 DEF AppendData, Using, Stop, Abstract!Next, Abstract!Halt,
      Running, Stage, StageOf, Buffered, Registered
  <2>2. CASE "conns" \in live /\ KeysReadable(addrOf[c], ConnKeys)
    <3>1. /\ conns' = [conns EXCEPT ![addrOf[c]] = @ \cup {c}]
          /\ hpc' = [hpc EXCEPT ![c] = "exec"]
          /\ UNCHANGED <<proc, lpc, socks>>
      BY <1>1, <2>2 DEF AppendData, Using, HandlerGoes
    <3>2. StageOf(c) = "open" /\ StageOf(c)' = "open"
      BY <1>0, <2>0, <3>1 DEF StageOf, TypeOK
    <3>3. Stage' = Stage
      BY <1>0, <3>1, <3>2, StageKept
    <3>4. Buffered' = Buffered \cup {c}
      BY <1>0, <2>0, <3>1 DEF Buffered, TypeOK
    <3>5. Abstract!Feed(c)
      BY <2>0, <3>1, <3>2, <3>3, <3>4
        DEF Abstract!Feed, Stage, Registered, Running
    <3> QED
      BY <3>5 DEF Abstract!Next
  <2> QED
    BY <2>1, <2>2
<1>2. ASSUME Start(c) \/ Leave(c), hpc'[c] = "ended"
      PROVE  Abstract!Next
  <2>1. /\ \A d \in Conns : d # c => hpc'[d] = hpc[d] /\ lpc'[d] = lpc[d]
        /\ hpc[c] \in {"start", "leave"} /\ lpc'[c] = lpc[c]
        /\ lpc[c] \in {"none", "join"} /\ UNCHANGED <<proc, conns, socks>> /\ Running
    BY <1>0, <1>2 DEF Start, Leave, HandlerGoes, ThreadsInOrder, TypeOK
  <2>2. StageOf(c) = "open" /\ StageOf(c)' = "left"
    BY <1>2, <2>1 DEF StageOf
  <2>3. Stage' = [Stage EXCEPT ![c] = "left"]
    BY <1>0, <2>1, <2>2, StageMoved
  <2>4. Abstract!Leave(c)
    BY <2>1, <2>2, <2>3 DEF Abstract!Leave, Stage, Buffered, Registered, Running
  <2> QED
    BY <2>4 DEF Abstract!Next
<1>3. ASSUME Start(c), hpc'[c] # "ended"
      PROVE  hpc[c] # "none" /\ hpc[c] # "ended" /\ hpc'[c] # "none"
  BY <1>0, <1>3 DEF Start, HandlerGoes, TypeOK
<1>4. ASSUME \/ RecvEnds(c) \/ Refuse(c) \/ GiveUp(c) \/ DataLock(c) \/ OpenFetch(c)
             \/ Fetched(c) \/ Reply(c) \/ Exit(c) \/ DataUnlock(c)
             \/ Start(c) /\ hpc'[c] # "ended",
             proc' = proc
      PROVE  UNCHANGED Abstract!vars
  <2>1. /\ UNCHANGED <<conns, socks, lpc>>
        /\ \E to \in HandlerStates \ {"none", "ended"} :
             hpc' = [hpc EXCEPT ![c] = to]
    <3>1. CASE Exit(c)
      BY <1>0, <1>4, <3>1 DEF Exit, TypeOK, HandlerStates
    <3>2. CASE DataLock(c)
      BY <1>4, <3>2 DEF DataLock, Using, Stop, Running, HandlerGoes, HandlerStates
    <3>3. CASE Start(c) /\ hpc'[c] # "ended"
      BY <1>0, <3>3 DEF Start, HandlerGoes, HandlerStates, TypeOK
    <3> QED
      BY <1>4, <3>1, <3>2, <3>3 DEF RecvEnds, Refuse, GiveUp, OpenFetch, Fetched,
        Reply, DataUnlock, PieceDone, HandlerGoes, HandlerStates
  <2>2. hpc[c] \notin {"none", "ended"}
    BY <1>0, <1>4 DEF RecvEnds, Refuse, GiveUp, DataLock, OpenFetch, Fetched,
      Reply, Exit, DataUnlock, Start
  <2>3. /\ hpc'[c] \notin {"none", "ended"}
        /\ \A d \in Conns : d # c => hpc'[d] = hpc[d] /\ lpc'[d] = lpc[d]
        /\ lpc'[c] = lpc[c]
    BY <1>0, <2>1 DEF TypeOK
  <2>4. StageOf(c)' = StageOf(c)
    BY <2>2, <2>3 DEF StageOf
  <2> QED
    BY <1>0, <1>4, <2>1, <2>3, <2>4, StageKept, Stuttering
<1>5. ASSUME \/ Killed(c) \/ FetchFails(c) \/ CommandCrashes(c) \/ DataLock(c),
             proc' # proc
      PROVE  Abstract!Next
  <2>1. Running /\ \E how \in Outcomes \ {"running"} : Stop(how)
    BY <1>5 DEF Killed, FetchFails, CommandCrashes, DataLock, Using, Outcomes
  <2> QED
    BY <2>1 DEF Stop, Abstract!Next, Abstract!Halt, Running, Stage, StageOf,
      Buffered, Registered
<1>6. ASSUME \/ RecvEnds(c) \/ Refuse(c) \/ GiveUp(c) \/ OpenFetch(c) \/ Fetched(c)
             \/ Reply(c) \/ Exit(c) \/ DataUnlock(c) \/ Start(c)
      PROVE  proc' = proc
  BY <1>6 DEF RecvEnds, Refuse, GiveUp, OpenFetch, Fetched, Reply, Exit,
    DataUnlock, Start
<1>7. ASSUME Killed(c) \/ FetchFails(c) \/ CommandCrashes(c)
      PROVE  proc' # proc
  BY <1>7 DEF Killed, FetchFails, CommandCrashes, Stop, Running
<1>8. ASSUME Leave(c)
      PROVE  hpc'[c] = "ended"
  BY <1>0, <1>8 DEF Leave, HandlerGoes, TypeOK
<1> QED
  BY <1>1, <1>2, <1>4, <1>5, <1>6, <1>7, <1>8 DEF HandlerStep

\* A listener: it drops the record, then the descriptor, of its own session.
LEMMA ListenerSimulates ==
  ASSUME IInv, NEW c \in Conns, ListenerStep(c)
  PROVE  Abstract!Next \/ UNCHANGED Abstract!vars
<1> USE DEF shared, mainVars, threads, tables, net, local
<1>0. TypeOK /\ ThreadsInOrder /\ BlocksAreOwned
  BY DEF IInv, Consistent
<1>1. hpc[c] = "ended" /\ addrOf[c] \in Addrs /\ Running
  BY <1>0 DEF ThreadsInOrder, ListenerStep, ListenerLock, RemoveRecord,
    RemoveSocket, FreeAddr
<1>2. CASE Stop("undefined")
  BY <1>1, <1>2 DEF Stop, Abstract!Next, Abstract!Halt, Running, Stage, StageOf,
    Buffered, Registered
<1>3. CASE RemoveRecord(c) /\ ~Stop("undefined")
  <2>1. /\ lpc[c] = "record" /\ lpc' = [lpc EXCEPT ![c] = "socket"]
        /\ conns' = [conns EXCEPT ![addrOf[c]] = {}]
        /\ UNCHANGED <<proc, hpc, socks>>
    BY <1>3 DEF RemoveRecord, Using, ListenerGoes
  <2>2. StageOf(c) = "left" /\ StageOf(c)' = "left"
    BY <1>0, <1>1, <2>1 DEF StageOf, TypeOK
  <2>3. Stage' = Stage
    <3>1. \A d \in Conns : d # c => hpc'[d] = hpc[d] /\ lpc'[d] = lpc[d]
      BY <1>0, <2>1 DEF TypeOK
    <3> QED
      BY <1>0, <2>2, <3>1, StageKept
  <2>4. \A d \in Conns \ {c} : addrOf[d] # addrOf[c] \/ d \notin conns[addrOf[c]]
    BY <1>0, <1>1, <2>1, AddrAssumption DEF IInv, Consistent, RecordHasOneOwner,
      OwnsRecord, BlocksAreOwned, ThreadsInOrder, Owns
  <2>5. Buffered' = Buffered \ {c}
    <3>1. \A a \in Addrs : c \in conns[a] => a = addrOf[c]
      BY DEF IInv, Consistent, RecordHasOneOwner, OwnsRecord
    <3>2. \A d \in Conns, a \in Addrs : d \in conns[a] => a = addrOf[d]
      BY DEF IInv, Consistent, RecordHasOneOwner, OwnsRecord
    <3>3. \A a \in Addrs : conns'[a] = IF a = addrOf[c] THEN {} ELSE conns[a]
      BY <1>0, <2>1 DEF TypeOK
    <3> QED
      BY <1>1, <2>4, <3>1, <3>2, <3>3 DEF Buffered
  <2>6. c \in Registered
    BY <1>1, <2>1, SocketsSeen DEF RegisteredAs
  <2>7. Abstract!DropRecord(c)
    BY <1>1, <2>1, <2>2, <2>3, <2>5, <2>6
      DEF Abstract!DropRecord, Stage, Registered, Running
  <2> QED
    BY <2>7 DEF Abstract!Next
<1>4. CASE RemoveSocket(c) /\ ~Stop("undefined")
  <2>1. /\ lpc[c] = "socket" /\ lpc' = [lpc EXCEPT ![c] = "free"]
        /\ socks' = [socks EXCEPT ![addrOf[c]] = NoFd]
        /\ UNCHANGED <<proc, hpc, conns>>
    BY <1>4 DEF RemoveSocket, Using, ListenerGoes
  <2>2. StageOf(c) = "left" /\ StageOf(c)' = "gone"
    BY <1>0, <1>1, <2>1 DEF StageOf, TypeOK
  <2>3. Stage' = [Stage EXCEPT ![c] = "gone"]
    <3>1. \A d \in Conns : d # c => hpc'[d] = hpc[d] /\ lpc'[d] = lpc[d]
      BY <1>0, <2>1 DEF TypeOK
    <3> QED
      BY <1>0, <2>2, <3>1, StageMoved
  <2>4. socks[addrOf[c]] = c
    BY <1>1, <2>1 DEF IInv, Consistent, SocketsAreRegistered, RegisteredAs
  <2>5. \A a \in Addrs : socks[a] = c => a = addrOf[c]
    BY DEF IInv, Consistent, SocketsAreRegistered, RegisteredAs
  <2>6. Registered' = Registered \ {c} /\ c \in Registered
    BY <1>0, <1>1, <2>1, <2>4, <2>5 DEF Registered, TypeOK, NoFd, Conns
  <2>7. c \notin Buffered
    BY <1>1, <2>1, RecordsSeen DEF IInv, Consistent, RecordHasOneOwner, OwnsRecord
  <2>8. Abstract!DropSocket(c)
    BY <1>1, <2>1, <2>2, <2>3, <2>6, <2>7
      DEF Abstract!DropSocket, Stage, Buffered, Running
  <2> QED
    BY <2>8 DEF Abstract!Next
<1>5. CASE (ListenerLock(c) \/ FreeAddr(c)) /\ ~Stop("undefined")
  <2>1. /\ UNCHANGED <<proc, conns, socks, hpc>>
        /\ \/ lpc[c] = "join" /\ lpc' = [lpc EXCEPT ![c] = "record"]
           \/ lpc[c] = "free" /\ lpc' = [lpc EXCEPT ![c] = "done"]
    BY <1>5 DEF ListenerLock, FreeAddr, Using, ListenerGoes
  <2>2. StageOf(c)' = StageOf(c)
    BY <1>0, <1>1, <2>1 DEF StageOf, TypeOK
  <2>3. \A d \in Conns : d # c => hpc'[d] = hpc[d] /\ lpc'[d] = lpc[d]
    BY <1>0, <2>1 DEF TypeOK
  <2> QED
    BY <1>0, <2>1, <2>2, <2>3, StageKept, Stuttering
<1> QED
  BY <1>2, <1>3, <1>4, <1>5 DEF ListenerStep

LEMMA PeerSimulates ==
  ASSUME IInv, NEW c \in Conns, PeerStep(c)
  PROVE  UNCHANGED Abstract!vars
<1> USE DEF shared, mainVars, threads, tables, net, local
<1>0. TypeOK /\ ThreadsInOrder
  BY DEF IInv, Consistent
<1>1. UNCHANGED <<proc, conns, socks, lpc>>
  BY DEF PeerStep, Recv, PeerReads, PeerCloses
<1>2. \/ hpc' = hpc
      \/ hpc[c] = "recv" /\ hpc' = [hpc EXCEPT ![c] = "scan"]
  <2>1. CASE Recv(c)
    BY <2>1 DEF Recv, HandlerGoes
  <2>2. CASE PeerReads(c) \/ PeerCloses(c)
    BY <2>2 DEF PeerReads, PeerCloses
  <2> QED
    BY <2>1, <2>2 DEF PeerStep
<1>3. /\ \A d \in Conns : d # c => hpc'[d] = hpc[d] /\ lpc'[d] = lpc[d]
      /\ StageOf(c)' = StageOf(c)
  BY <1>0, <1>1, <1>2 DEF TypeOK, StageOf
<1> QED
  BY <1>0, <1>1, <1>3, StageKept, Stuttering

LEMMA StepSimulates ==
  IInv /\ [Next]_vars => [Abstract!Next]_(Abstract!vars)
<1> SUFFICES ASSUME IInv, [Next]_vars
             PROVE  Abstract!Next \/ UNCHANGED Abstract!vars
  OBVIOUS
<1>1. CASE OutOfMemory
  BY <1>1 DEF OutOfMemory, Stop, mainVars, threads, tables, net, local,
    Abstract!Next, Abstract!Halt, Running, Stage, StageOf, Buffered, Registered
<1>2. CASE Over \/ UNCHANGED vars
  BY <1>2 DEF Over, vars, shared, mainVars, threads, tables, net, local,
    Abstract!vars, Running, Stage, StageOf, Buffered, Registered
<1> QED
  BY <1>1, <1>2, MainSimulates, HandlerSimulates, ListenerSimulates,
    PeerSimulates DEF Next

\* The tables keyed by reusable blocks keep the promise of SessionRegistry.
THEOREM Refinement == Spec => Implements
<1>1. Init => Abstract!Init
  BY DEF Init, Abstract!Init, Stage, StageOf, Buffered, Registered, Running,
    NoFd, Conns
<1> QED
  BY <1>1, StepSimulates, Invariant, PTL DEF Spec, Implements, Abstract!Spec

-----------------------------------------------------------------------------
\* A failing send of a reply cannot kill the process.
THEOREM RepliesAreSafe == Spec => ReplyNeverKills
<1>1. IInv /\ [Next]_vars =>
        [proc' = "sigpipe" => \A c \in Conns : hpc[c] # "reply"]_vars
  <2> SUFFICES ASSUME IInv, Next, proc' = "sigpipe", NEW c \in Conns
               PROVE  hpc[c] # "reply" \/ UNCHANGED vars
    OBVIOUS
  <2>1. CASE \E d \in Conns : Killed(d)
    BY <2>1 DEF Killed, IInv, Consistent, WorkInHand
  <2>2. CASE Over
    BY <2>2 DEF Over
  <2>3. CASE MainStep \/ MainChance \/ OutOfMemory
    BY <2>3 DEF MainStep, MainChance, OutOfMemory, Alloc, AllocFails, CallAccept,
      Accept, AcceptFails, AcceptFull, LeaveLoop, Spawn, SpawnFails, RegisterLock,
      PutSocket, Listen, ListenFails, DestroyLock, DestroyConns, DestroySocks,
      Return, Stop, Using, Running, shared
  <2>4. ASSUME NEW d \in Conns,
               HandlerStep(d) \/ ListenerStep(d) \/ PeerStep(d), ~Killed(d)
        PROVE  FALSE
    BY <2>4 DEF HandlerStep, ListenerStep, PeerStep, Start, RecvEnds, Refuse,
      GiveUp, DataLock, AppendData, OpenFetch, FetchFails, CommandCrashes, Fetched, Reply, Exit,
      DataUnlock, Leave, ListenerLock, RemoveRecord, RemoveSocket, FreeAddr,
      Recv, PeerReads, PeerCloses, Stop, Using, Running, shared
  <2> QED
    BY <2>1, <2>2, <2>3, <2>4 DEF Next
<1> QED
  BY <1>1, Invariant, PTL DEF Spec, ReplyNeverKills

-----------------------------------------------------------------------------
\* The entry a listener removes is that of its own connection.
LEMMA EntryIsOwn ==
  ASSUME IInv, NEW d \in Conns, lpc[d] = "socket"
  PROVE  socks[addrOf[d]] = d
<1>1. addrOf[d] \in Addrs
  BY DEF IInv, Consistent, ThreadsInOrder, TypeOK
<1>2. RegisteredAs(d, addrOf[d])
  BY DEF RegisteredAs
<1> QED
  BY <1>1, <1>2 DEF IInv, Consistent, SocketsAreRegistered

\* A step that shuts a socket down is one of that connection's threads.
LEMMA ShutsItsOwn ==
  ASSUME IInv, Next, NEW c \in Conns, c \in shut' \ shut
  PROVE  hpc[c] \in {"exec", "leave"} \/ (lpc[c] = "socket" /\ lpc'[c] = "free")
<1>1. CASE MainStep \/ MainChance \/ OutOfMemory \/ Over
  BY <1>1 DEF MainStep, MainChance, OutOfMemory, Over, Alloc, AllocFails, CallAccept,
    Accept, AcceptFails, AcceptFull, LeaveLoop, Spawn, SpawnFails, RegisterLock,
    PutSocket, Listen, ListenFails, DestroyLock, DestroyConns, DestroySocks,
    Return, Stop, Using, net, vars
<1>2. ASSUME NEW d \in Conns, Exit(d) \/ Leave(d)
      PROVE  hpc[c] \in {"exec", "leave"}
  BY <1>2 DEF Exit, Leave
<1>3. ASSUME NEW d \in Conns, HandlerStep(d), ~Exit(d), ~Leave(d)
      PROVE  FALSE
  BY <1>3 DEF HandlerStep, Start, RecvEnds, Refuse, GiveUp, Killed, DataLock,
    AppendData, OpenFetch, FetchFails, CommandCrashes, Fetched, Reply, DataUnlock,
    Stop, Using, net
<1>4. ASSUME NEW d \in Conns, RemoveSocket(d)
      PROVE  lpc[c] = "socket" /\ lpc'[c] = "free"
  <2>1. lpc[d] = "socket" /\ socks[addrOf[d]] = d
    BY <1>4, EntryIsOwn DEF RemoveSocket
  <2>2. shut' = shut \cup {socks[addrOf[d]]} /\ lpc' = [lpc EXCEPT ![d] = "free"]
    BY <1>4 DEF RemoveSocket, Using, Stop, net, ListenerGoes
  <2> QED
    BY <2>1, <2>2 DEF IInv, TypeOK
<1>5. ASSUME NEW d \in Conns, ListenerStep(d) \/ PeerStep(d), ~RemoveSocket(d)
      PROVE  FALSE
  BY <1>5 DEF ListenerStep, PeerStep, ListenerLock, RemoveRecord, FreeAddr, Recv,
    PeerReads, PeerCloses, Stop, Using, net
<1> QED
  BY <1>1, <1>2, <1>3, <1>4, <1>5 DEF Next

\* No thread ever shuts down the socket of a connection that is not its own,
\* although it finds the descriptor through a key that is reused.
THEOREM OwnThreadsShut == Spec => ShutByOwnThreads
<1>1. IInv /\ [Next]_vars =>
        [\A c \in shut' \ shut :
           \/ hpc[c] \in {"exec", "leave"}
           \/ lpc[c] = "socket" /\ lpc'[c] = "free"]_vars
  <2> SUFFICES ASSUME IInv, Next, NEW c \in shut' \ shut
               PROVE  \/ hpc[c] \in {"exec", "leave"}
                      \/ lpc[c] = "socket" /\ lpc'[c] = "free"
    OBVIOUS
  <2>1. IInv'
    BY NextKeeps
  <2>2. c \in Conns
    BY <2>1 DEF IInv, TypeOK
  <2> QED
    BY <2>2, ShutsItsOwn
<1> QED
  BY <1>1, Invariant, PTL DEF Spec, ShutByOwnThreads

-----------------------------------------------------------------------------
(* Work that runs out. *)

\* What the threads of others, the accept loop and peers do to a handler at work.
LEMMA OthersLeaveWork ==
  ASSUME IInv, Next, NEW c \in Conns, AtWork(c), ~HandlerStep(c)
  PROVE  hpc'[c] = hpc[c] /\ scan'[c] = scan[c] /\ todo'[c] = todo[c]
<1> USE DEF shared, mainVars, threads, tables, net, local
<1>0. TypeOK
  BY DEF IInv
<1>1. CASE MainStep \/ MainChance \/ OutOfMemory \/ Over
  <2>1. CASE Spawn
    <3>1. opened \in Conns /\ opened # c /\ hpc' = [hpc EXCEPT ![opened] = "start"]
      BY <2>1 DEF Spawn, IInv, Consistent, AcceptInOrder, AtWork
    <3> QED
      BY <1>0, <2>1, <3>1 DEF Spawn, TypeOK
  <2>2. CASE ~Spawn
    BY <1>1, <2>2 DEF MainStep, MainChance, OutOfMemory, Over, Alloc, AllocFails,
      CallAccept, Accept, AcceptFails, AcceptFull, LeaveLoop, SpawnFails, RegisterLock,
      PutSocket, Listen, ListenFails, DestroyLock, DestroyConns, DestroySocks,
      Return, Stop, Using, vars
  <2> QED
    BY <2>1, <2>2
<1>2. ASSUME NEW d \in Conns, d # c, HandlerStep(d)
      PROVE  hpc'[c] = hpc[c] /\ scan'[c] = scan[c] /\ todo'[c] = todo[c]
  <2>1. CASE DataLock(d) \/ AppendData(d)
    BY <1>0, <1>2, <2>1 DEF DataLock, AppendData, Using, Stop, HandlerGoes, TypeOK
  <2>2. CASE Killed(d) \/ FetchFails(d) \/ CommandCrashes(d)
    BY <2>2 DEF Killed, FetchFails, CommandCrashes, Stop
  <2>3. CASE \/ Start(d) \/ RecvEnds(d) \/ Refuse(d) \/ GiveUp(d) \/ OpenFetch(d)
             \/ Fetched(d) \/ Leave(d)
    BY <1>0, <1>2, <2>3 DEF Start, RecvEnds, Refuse, GiveUp, OpenFetch, Fetched,
      Leave, PieceDone, HandlerGoes, TypeOK
  <2>4. CASE Reply(d) \/ Exit(d) \/ DataUnlock(d)
    BY <1>0, <1>2, <2>4 DEF Reply, Exit, DataUnlock, CommandDone, PieceDone,
      HandlerGoes, TypeOK
  <2> QED
    BY <1>2, <2>1, <2>2, <2>3, <2>4 DEF HandlerStep
<1>3. ASSUME NEW d \in Conns, ListenerStep(d)
      PROVE  hpc'[c] = hpc[c] /\ scan'[c] = scan[c] /\ todo'[c] = todo[c]
  BY <1>3 DEF ListenerStep, ListenerLock, RemoveRecord, RemoveSocket, FreeAddr, Stop, Using
<1>4. ASSUME NEW d \in Conns, PeerStep(d)
      PROVE  hpc'[c] = hpc[c] /\ scan'[c] = scan[c] /\ todo'[c] = todo[c]
  BY <1>0, <1>4 DEF PeerStep, Recv, PeerReads, PeerCloses, HandlerGoes, AtWork, TypeOK
<1> QED
  BY <1>1, <1>2, <1>3, <1>4 DEF Next

\* What a handler at work does to its own work.
LEMMA HandlerWorks ==
  ASSUME IInv, IInv', NEW c \in Conns, AtWork(c), HandlerStep(c), Running'
  PROVE  Below(Effort(c)', Effort(c))
<1> USE DEF shared, mainVars, threads, tables, net, local
<1>0. TypeOK /\ TypeOK'
  BY DEF IInv
<1>1. /\ scan[c] \in Seq({"data", "option"}) /\ scan[c] # <<>> /\ todo[c] \in Seq({"fetch", "exit"})
      /\ scan'[c] \in Seq({"data", "option"}) /\ todo'[c] \in Seq({"fetch", "exit"})
      /\ hpc[c] \in {"fetch", "reply"} => todo[c] # <<>>
  BY <1>0 DEF TypeOK, IInv, Consistent, WorkInHand, AtWork
<1>2. /\ Len(scan[c]) \in Nat \ {0} /\ Len(todo[c]) \in Nat
      /\ Len(scan'[c]) \in Nat /\ Len(todo'[c]) \in Nat
      /\ Len(Tail(scan[c])) = Len(scan[c]) - 1
      /\ todo[c] # <<>> => Len(Tail(todo[c])) = Len(todo[c]) - 1 /\ Len(todo[c]) # 0
  BY <1>1, HeadTailProperties, EmptySeq
<1> DEFINE stretch(h) == CASE h = "scan" -> 2 [] h = "append" -> 1 [] OTHER -> 0
           turn(h) == CASE h = "exec" -> 2 [] h = "fetch" -> 1 [] OTHER -> 0
<1>3. \/ Len(scan'[c]) < Len(scan[c])
      \/ /\ Len(scan'[c]) = Len(scan[c])
         /\ \/ stretch(hpc'[c]) < stretch(hpc[c])
            \/ /\ stretch(hpc'[c]) = stretch(hpc[c])
               /\ \/ Len(todo'[c]) < Len(todo[c])
                  \/ Len(todo'[c]) = Len(todo[c]) /\ turn(hpc'[c]) < turn(hpc[c])
  <2>1. CASE Refuse(c) \/ GiveUp(c) \/ DataUnlock(c)
    <3>1. scan'[c] = <<>> \/ scan'[c] = Tail(scan[c])
      BY <1>0, <2>1 DEF Refuse, GiveUp, DataUnlock, PieceDone, TypeOK
    <3>2. Len(scan'[c]) = 0 \/ Len(scan'[c]) = Len(scan[c]) - 1
      <4>1. CASE scan'[c] = <<>>
        BY <4>1
      <4>2. CASE scan'[c] = Tail(scan[c])
        BY <1>2, <4>2
      <4> QED
        BY <3>1, <4>1, <4>2
    <3> QED
      BY <1>2, <3>2
  <2>2. CASE DataLock(c)
    <3>1. hpc[c] = "scan" /\ hpc'[c] = "append" /\ scan' = scan
      BY <1>0, <2>2 DEF DataLock, Using, Stop, Running, HandlerGoes, TypeOK
    <3> QED
      BY <3>1
  <2>3. CASE AppendData(c)
    <3>1. hpc[c] = "append" /\ hpc'[c] = "exec" /\ scan' = scan
      BY <1>0, <2>3 DEF AppendData, Using, Stop, Running, HandlerGoes, TypeOK
    <3> QED
      BY <3>1
  <2>4. CASE OpenFetch(c)
    <3>1. hpc[c] = "exec" /\ hpc'[c] = "fetch" /\ scan' = scan /\ todo' = todo
      BY <1>0, <2>4 DEF OpenFetch, HandlerGoes, TypeOK
    <3> QED
      BY <3>1
  <2>5. CASE Fetched(c)
    <3>1. hpc[c] = "fetch" /\ hpc'[c] = "reply" /\ scan' = scan /\ todo' = todo
      BY <1>0, <2>5 DEF Fetched, HandlerGoes, TypeOK
    <3> QED
      BY <3>1
  <2>6. CASE Reply(c) \/ Exit(c)
    <3>1. /\ hpc[c] \in {"reply", "exec"} /\ hpc'[c] = "exec" /\ scan' = scan
          /\ todo'[c] = Tail(todo[c]) /\ todo[c] # <<>>
      BY <1>0, <1>1, <2>6 DEF Reply, Exit, CommandDone, HandlerGoes, TypeOK
    <3> QED
      BY <1>2, <3>1
  <2>7. ~(Killed(c) \/ FetchFails(c) \/ CommandCrashes(c))
    BY DEF Killed, FetchFails, CommandCrashes, Stop, Running
  <2>8. ~(Start(c) \/ RecvEnds(c) \/ Leave(c))
    BY DEF Start, RecvEnds, Leave, AtWork
  <2> QED
    BY <2>1, <2>2, <2>3, <2>4, <2>5, <2>6, <2>7, <2>8 DEF HandlerStep
<1>4. /\ stretch(hpc[c]) \in Nat /\ stretch(hpc'[c]) \in Nat
      /\ turn(hpc[c]) \in Nat /\ turn(hpc'[c]) \in Nat
  OBVIOUS
<1> HIDE DEF stretch, turn
<1>5. Below(<<Len(scan'[c]), stretch(hpc'[c]), Len(todo'[c]), turn(hpc'[c])>>,
            <<Len(scan[c]), stretch(hpc[c]), Len(todo[c]), turn(hpc[c])>>)
  BY <1>2, <1>3, <1>4, BelowFour
<1> QED
  BY <1>5 DEF Effort, stretch, turn

\* For every number of connections, pieces and commands: a handler's steps take it
\* through its segment, and no other thread puts it back, so that it comes back to
\* recv or leaves if it can go on each time (celnet.c 109-186, telnet.c 94-110).
THEOREM HandlersGetThrough == Spec => WorkRunsOut
<1>1. IInv /\ [Next]_vars =>
        [\A c \in Conns : AtWork(c) =>
           IF HandlerStep(c) /\ Running' THEN Below(Effort(c)', Effort(c))
           ELSE Effort(c)' = Effort(c)]_vars
  <2> SUFFICES ASSUME IInv, Next, NEW c \in Conns, AtWork(c)
               PROVE  IF HandlerStep(c) /\ Running' THEN Below(Effort(c)', Effort(c))
                      ELSE Effort(c)' = Effort(c)
    OBVIOUS
  <2>1. CASE HandlerStep(c) /\ Running'
    <3>1. IInv'
      BY NextKeeps
    <3> QED
      BY <2>1, <3>1, HandlerWorks
  <2>2. CASE ~HandlerStep(c)
    BY <2>2, OthersLeaveWork DEF Effort
  <2>3. CASE HandlerStep(c) /\ ~Running'
    <3>1. Running
      BY <2>3 DEF HandlerStep, Start, RecvEnds, Refuse, GiveUp, Killed, DataLock, AppendData,
        OpenFetch, FetchFails, CommandCrashes, Fetched, Reply, Exit, DataUnlock, Leave
    <3>2. UNCHANGED <<hpc, scan, todo>>
      BY <2>3, <3>1 DEF HandlerStep, Start, RecvEnds, Refuse, GiveUp, Killed, DataLock, AppendData,
        OpenFetch, FetchFails, CommandCrashes, Fetched, Reply, Exit, DataUnlock, Leave,
        Using, Stop, Running, shared, threads, local
    <3>3. Effort(c)' = Effort(c)
      BY <3>2 DEF Effort
    <3> QED
      BY <2>3, <3>3
  <2> QED
    BY <2>1, <2>2, <2>3
<1> QED
  BY <1>1, Invariant, PTL DEF Spec, WorkRunsOut
=============================================================================
