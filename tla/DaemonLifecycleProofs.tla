----------------------- MODULE DaemonLifecycleProofs -----------------------
(***************************************************************************)
(* Proofs of what module DaemonLifecycle says of the address, the clients  *)
(* and the idle shutdown, for any number of daemons and renderers and for  *)
(* all values of the bounds.                                               *)
(*                                                                         *)
(* The runs' invariants are not inductive: that a daemon which serves has  *)
(* the address rests on who holds its lock in every stage of starting and  *)
(* stopping, that one daemon has the clients rests on no other stage       *)
(* having connections, and that the idle shutdown cuts nobody off rests on *)
(* a server that is stopping refusing both connections and commands.       *)
(***************************************************************************)
EXTENDS DaemonLifecycle, TLAPS

\* The stages in which a daemon holds the lock of the address.
Locking == Bound \cup {"bind", "closing", "unlock"}

\* Stages exclude each other by the lock, the socket is the lock holder's from
\* Bind until RemoveSocket, and only a daemon that serves has connections.
LockInv ==
  \A d \in Daemons :
    /\ pc[d] \in Locking => addrLock = d
    /\ pc[d] \in Bound => socket = d
    /\ conns[d] # {} => pc[d] = "serving"
    /\ stopping[d] => pc[d] \in {"serving", "closing", "unlock", "shutdown"}

DaemonInv ==
  /\ TypeOK
  /\ LockInv
  /\ IdleStopCutsNobody

\* Nothing is locked and nobody is connected at the start.
LEMMA InitDaemonInv == Init => DaemonInv
<1> SUFFICES ASSUME Init
             PROVE  DaemonInv
  OBVIOUS
<1> USE DaemonAssumption
<1>1. TypeOK
  BY DEF Init, TypeOK, Starting, Bound, Gone
<1>2. LockInv
  BY DEF Init, LockInv, Locking, Bound
<1>3. IdleStopCutsNobody
  BY DEF Init, IdleStopCutsNobody
<1> QED
  BY <1>1, <1>2, <1>3 DEF DaemonInv

\* Every step keeps the types, and a lock with a process that may hold it.
LEMMA StepTypeOK == DaemonInv /\ [Next]_vars => TypeOK'
<1> SUFFICES ASSUME DaemonInv, [Next]_vars
             PROVE  TypeOK'
  OBVIOUS
<1> USE DaemonAssumption DEF DaemonInv
<1>1. ASSUME NEW d \in Daemons, LockAddress(d)
      PROVE  TypeOK'
  BY <1>1 DEF LockAddress, Goto, server, probe, TypeOK, Bound, Gone, Starting
<1>2. ASSUME NEW d \in Daemons, Bind(d)
      PROVE  TypeOK'
  BY <1>2 DEF Bind, Goto, server, probe, TypeOK, Bound, Gone, Starting
<1>3. ASSUME NEW d \in Daemons, WriteToken(d)
      PROVE  TypeOK'
  BY <1>3 DEF WriteToken, Goto, server, probe, TypeOK, Bound, Gone, Starting
<1>4. ASSUME NEW d \in Daemons, Publish(d)
      PROVE  TypeOK'
  BY <1>4 DEF Publish, Goto, server, probe, TypeOK, Bound, Gone, Starting
<1>5. ASSUME NEW d \in Daemons, TakeCommand(d)
      PROVE  TypeOK'
  BY <1>5 DEF TakeCommand, files, probe, TypeOK, Bound, Gone, Starting
<1>6. ASSUME NEW d \in Daemons, FinishCommand(d)
      PROVE  TypeOK'
  <2> PICK w \in {work[d], TRUE} : work' = [work EXCEPT ![d] = w]
    BY <1>6 DEF FinishCommand
  <2>1. work[d] \in BOOLEAN
    BY DEF TypeOK
  <2>2. work' \in [Daemons -> BOOLEAN]
    BY <2>1 DEF TypeOK
  <2> QED
    BY <1>6, <2>2 DEF FinishCommand, files, probe, TypeOK, Starting, Bound, Gone
<1>7. ASSUME NEW d \in Daemons, Lapse(d)
      PROVE  TypeOK'
  BY <1>7 DEF Lapse, files, probe, TypeOK, Bound, Gone, Starting
<1>8. ASSUME NEW d \in Daemons, StopIfIdle(d)
      PROVE  TypeOK'
  BY <1>8 DEF StopIfIdle, files, probe, TypeOK, Bound, Gone, Starting
<1>9. ASSUME NEW d \in Daemons, CancelIdle(d)
      PROVE  TypeOK'
  BY <1>9 DEF CancelIdle, files, probe, TypeOK, Bound, Gone, Starting
<1>10. ASSUME NEW d \in Daemons, CloseConnections(d)
      PROVE  TypeOK'
  BY <1>10 DEF CloseConnections, Goto, files, probe, TypeOK, Bound, Gone,
     Starting
<1>11. ASSUME NEW d \in Daemons, RemoveSocket(d)
      PROVE  TypeOK'
  BY <1>11 DEF RemoveSocket, Goto, server, probe, TypeOK, Bound, Gone,
     Starting
<1>12. ASSUME NEW d \in Daemons, UnlockAddress(d)
      PROVE  TypeOK'
  BY <1>12 DEF UnlockAddress, Goto, server, probe, TypeOK, Bound, Gone,
     Starting
<1>13. ASSUME NEW d \in Daemons, Shutdown(d)
      PROVE  TypeOK'
  BY <1>13 DEF Shutdown, Exit, Goto, probe, TypeOK, Bound, Gone, Starting
<1>14. ASSUME NEW d \in Daemons, StartWork(d)
      PROVE  TypeOK'
  BY <1>14 DEF StartWork, files, probe, TypeOK, Bound, Gone, Starting
<1>15. ASSUME NEW d \in Daemons, FinishWork(d)
      PROVE  TypeOK'
  BY <1>15 DEF FinishWork, files, probe, TypeOK, Bound, Gone, Starting
<1>16. ASSUME NEW d \in Daemons, BootstrapFails(d)
      PROVE  TypeOK'
  BY <1>16 DEF BootstrapFails, Spend, Goto, files, server, probe, TypeOK,
     Bound, Gone, Starting
<1>17. ASSUME NEW d \in Daemons, StartFails(d)
      PROVE  TypeOK'
  BY <1>17 DEF StartFails, Spend, Goto, files, probe, TypeOK, Bound, Gone,
     Starting
<1>18. ASSUME NEW d \in Daemons, Signal(d)
      PROVE  TypeOK'
  BY <1>18 DEF Signal, Spend, files, probe, TypeOK, Bound, Gone, Starting
<1>19. ASSUME NEW d \in Daemons, Crash(d)
      PROVE  TypeOK'
  BY <1>19 DEF Crash, Spend, Exit, Goto, probe, TypeOK, Bound, Gone, Starting
<1>20. ASSUME NEW d \in Daemons, ServeByHand(d)
      PROVE  TypeOK'
  BY <1>20 DEF ServeByHand, Spawned, Goto, Spend, files, server, probe,
     TypeOK, Bound, Gone, Starting
<1>21. ASSUME NEW l \in Launchers, ReadEndpoint(l)
      PROVE  TypeOK'
  BY <1>21 DEF ReadEndpoint, Step, AfterProbe, files, server, TypeOK, Bound,
     Gone, Starting
<1>22. ASSUME NEW l \in Launchers, ReadToken(l)
      PROVE  TypeOK'
  BY <1>22 DEF ReadToken, Step, AfterProbe, Forget, files, server, TypeOK,
     Bound, Gone, Starting
<1>23. ASSUME NEW l \in Launchers, Dial(l)
      PROVE  TypeOK'
  BY <1>23 DEF Dial, Step, AfterProbe, Forget, files, TypeOK, Bound, Gone,
     Starting
<1>24. ASSUME NEW l \in Launchers, Authenticate(l)
      PROVE  TypeOK'
  <2>1. CASE Step(l, "connected") /\ ReleaseStart(l) /\ UNCHANGED <<conns, lapsed>>
              /\ phase' = [phase EXCEPT ![l] = "first"]
    BY <1>24, <2>1 DEF Authenticate, Step, ReleaseStart, Forget, TypeOK
  <2>2. CASE Step(l, AfterProbe(l)) /\ DeleteConnection(l)
              /\ UNCHANGED <<startLock, phase>>
    BY <1>24, <2>2 DEF Authenticate, Step, AfterProbe, DeleteConnection, Forget, TypeOK
  <2> QED
    BY <1>24, <2>1, <2>2 DEF Authenticate
<1>25. ASSUME NEW l \in Launchers, TryStartLock(l)
      PROVE  TypeOK'
  BY <1>25 DEF TryStartLock, Step, server, TypeOK, Bound, Gone, Starting
<1>26. ASSUME NEW l \in Launchers, RetireLegacy(l)
      PROVE  TypeOK'
  BY <1>26 DEF RetireLegacy, Step, ReleaseStart, TypeOK, Bound, Gone,
     Starting
<1>27. ASSUME NEW l \in Launchers, LegacyGone(l)
      PROVE  TypeOK'
  BY <1>27 DEF LegacyGone, Step, files, server, probe, TypeOK, Bound, Gone,
     Starting
<1>28. ASSUME NEW l \in Launchers, SpawnDaemon(l)
      PROVE  TypeOK'
  BY <1>28 DEF SpawnDaemon, Spawned, Goto, Step, files, server, TypeOK,
     Bound, Gone, Starting
<1>29. ASSUME NEW l \in Launchers, NextProbe(l)
      PROVE  TypeOK'
  BY <1>29 DEF NextProbe, Step, files, server, probe, TypeOK, Bound, Gone,
     Starting
<1>30. ASSUME NEW l \in Launchers, Launch(l)
      PROVE  TypeOK'
  BY <1>30 DEF Launch, Spend, Step, files, server, probe, TypeOK, Bound,
     Gone, Starting
<1>31. ASSUME NEW l \in Launchers, GiveUp(l)
      PROVE  TypeOK'
  BY <1>31 DEF GiveUp, Step, ReleaseStart, server, TypeOK, Bound, Gone,
     Starting
<1>32. ASSUME NEW l \in Launchers, ProbeTimesOut(l)
      PROVE  TypeOK'
  BY <1>32 DEF ProbeTimesOut, Spend, Step, AfterProbe, Forget,
     DeleteConnection, files, TypeOK, Bound, Gone, Starting
<1>33. ASSUME NEW l \in Launchers, Disconnect(l)
      PROVE  TypeOK'
  BY <1>33 DEF Disconnect, Step, DeleteConnection, files, probe, TypeOK,
     Bound, Gone, Starting
<1>34. ASSUME NEW l \in Launchers, NEW d \in Daemons, Submit(l, d)
      PROVE  TypeOK'
  BY <1>34 DEF Submit, Spend, files, probe, TypeOK, Bound, Gone, Starting
<1>35. ASSUME NEW l \in Launchers, NEW d \in Daemons, AskToStop(l, d)
      PROVE  TypeOK'
  BY <1>35 DEF AskToStop, DeleteConnection, files, probe, TypeOK, Bound,
     Gone, Starting
<1>36. CASE UNCHANGED vars
  BY <1>36 DEF vars, files, server, probe, TypeOK, Bound, Gone, Starting
<1> QED
  BY <1>1, <1>2, <1>3, <1>4, <1>5, <1>6, <1>7, <1>8, <1>9, <1>10, <1>11,
     <1>12, <1>13, <1>14, <1>15, <1>16, <1>17, <1>18, <1>19, <1>20, <1>21,
     <1>22, <1>23, <1>24, <1>25, <1>26, <1>27, <1>28, <1>29, <1>30, <1>31,
     <1>32, <1>33, <1>34, <1>35, <1>36
     DEF Next, Start, Serve, Stop, ConnectOrStart

\* Every step keeps the lock, the socket and the connections with the stage that
\* a daemon is in.
LEMMA StepLockInv == DaemonInv /\ [Next]_vars => LockInv'
<1> SUFFICES ASSUME DaemonInv, [Next]_vars
             PROVE  LockInv'
  OBVIOUS
<1> USE DaemonAssumption DEF DaemonInv
<1>1. ASSUME NEW d \in Daemons, LockAddress(d)
      PROVE  LockInv'
  BY <1>1 DEF LockAddress, Goto, server, probe, TypeOK, LockInv, Locking,
     Bound, Gone, Starting
<1>2. ASSUME NEW d \in Daemons, Bind(d)
      PROVE  LockInv'
  BY <1>2 DEF Bind, Listening, Goto, server, probe, TypeOK, LockInv, Locking,
     Bound, Gone, Starting
<1>3. ASSUME NEW d \in Daemons, WriteToken(d)
      PROVE  LockInv'
  BY <1>3 DEF WriteToken, Goto, server, probe, TypeOK, LockInv, Locking,
     Bound, Gone, Starting
<1>4. ASSUME NEW d \in Daemons, Publish(d)
      PROVE  LockInv'
  BY <1>4 DEF Publish, Goto, server, probe, TypeOK, LockInv, Locking, Bound,
     Gone, Starting
<1>5. ASSUME NEW d \in Daemons, StopIfIdle(d)
      PROVE  LockInv'
  BY <1>5 DEF StopIfIdle, files, probe, TypeOK, LockInv, Locking, Bound,
     Gone, Starting
<1>6. ASSUME NEW d \in Daemons, CloseConnections(d)
      PROVE  LockInv'
  BY <1>6 DEF CloseConnections, Goto, files, probe, TypeOK, LockInv, Locking,
     Bound, Gone, Starting
<1>7. ASSUME NEW d \in Daemons, RemoveSocket(d)
      PROVE  LockInv'
  BY <1>7 DEF RemoveSocket, Goto, server, probe, TypeOK, LockInv, Locking,
     Bound, Gone, Starting
<1>8. ASSUME NEW d \in Daemons, UnlockAddress(d)
      PROVE  LockInv'
  BY <1>8 DEF UnlockAddress, Goto, server, probe, TypeOK, LockInv, Locking,
     Bound, Gone, Starting
<1>9. ASSUME NEW d \in Daemons, Shutdown(d)
      PROVE  LockInv'
  BY <1>9 DEF Shutdown, Exit, Goto, probe, TypeOK, LockInv, Locking, Bound,
     Gone, Starting
<1>10. ASSUME NEW d \in Daemons, BootstrapFails(d)
      PROVE  LockInv'
  BY <1>10 DEF BootstrapFails, Goto, files, server, probe, TypeOK, LockInv,
     Locking, Bound, Gone, Starting
<1>11. ASSUME NEW d \in Daemons, StartFails(d)
      PROVE  LockInv'
  BY <1>11 DEF StartFails, Goto, files, probe, TypeOK, LockInv, Locking,
     Bound, Gone, Starting
<1>12. ASSUME NEW d \in Daemons, Crash(d)
      PROVE  LockInv'
  BY <1>12 DEF Crash, Exit, Goto, probe, TypeOK, LockInv, Locking, Bound,
     Gone, Starting
<1>13. ASSUME NEW d \in Daemons, ServeByHand(d)
      PROVE  LockInv'
  BY <1>13 DEF ServeByHand, Spawned, Goto, files, server, probe, TypeOK,
     LockInv, Locking, Bound, Gone, Starting
<1>14. ASSUME NEW l \in Launchers, Dial(l)
      PROVE  LockInv'
  BY <1>14 DEF Dial, Listening, files, TypeOK, LockInv, Locking, Bound, Gone,
     Starting
<1>15. ASSUME NEW l \in Launchers, Authenticate(l)
      PROVE  LockInv'
  BY <1>15 DEF Authenticate, DeleteConnection, TypeOK, LockInv, Locking,
     Bound, Gone, Starting
<1>16. ASSUME NEW l \in Launchers, SpawnDaemon(l)
      PROVE  LockInv'
  <2>1. PICK d \in Daemons : Spawned(d)
    BY <1>16 DEF SpawnDaemon
  <2>2. pc[d] = "unborn" /\ pc' = [pc EXCEPT ![d] = "booting"]
    BY <2>1 DEF Spawned, Goto
  <2>3. UNCHANGED <<addrLock, socket, conns, stopping>>
    BY <1>16 DEF SpawnDaemon, files, server
  <2> QED
    BY <2>2, <2>3 DEF TypeOK, LockInv, Locking, Bound
<1>17. ASSUME NEW l \in Launchers, ProbeTimesOut(l)
      PROVE  LockInv'
  BY <1>17 DEF ProbeTimesOut, DeleteConnection, files, TypeOK, LockInv,
     Locking, Bound, Gone, Starting
<1>18. ASSUME NEW l \in Launchers, Disconnect(l)
      PROVE  LockInv'
  BY <1>18 DEF Disconnect, DeleteConnection, files, probe, TypeOK, LockInv,
     Locking, Bound, Gone, Starting
<1>19. ASSUME NEW l \in Launchers, NEW d \in Daemons, AskToStop(l, d)
      PROVE  LockInv'
  BY <1>19 DEF AskToStop, DeleteConnection, files, probe, TypeOK, LockInv,
     Locking, Bound, Gone, Starting
<1>20. ASSUME UNCHANGED <<addrLock, socket, pc, conns, stopping>>
      PROVE  LockInv'
  BY <1>20 DEF LockInv
<1>21. ASSUME NEW d \in Daemons,
               TakeCommand(d) \/ FinishCommand(d) \/ Lapse(d) \/
               CancelIdle(d) \/ StartWork(d) \/ FinishWork(d) \/ Signal(d)
      PROVE  LockInv'
  BY <1>20, <1>21 DEF TakeCommand, files, probe, FinishCommand, Lapse,
     CancelIdle, StartWork, FinishWork, Signal
<1>22. ASSUME NEW l \in Launchers,
               ReadEndpoint(l) \/ ReadToken(l) \/ TryStartLock(l) \/
               RetireLegacy(l) \/ LegacyGone(l) \/ NextProbe(l) \/
               Launch(l) \/ GiveUp(l)
      PROVE  LockInv'
  BY <1>20, <1>22 DEF ReadEndpoint, files, server, ReadToken, TryStartLock,
     RetireLegacy, LegacyGone, probe, NextProbe, Launch, GiveUp
<1>23. ASSUME NEW l \in Launchers, NEW d \in Daemons,
               Submit(l, d)
      PROVE  LockInv'
  BY <1>20, <1>23 DEF Submit, files, probe
<1>24. CASE UNCHANGED vars
  BY <1>24 DEF vars, files, server, probe, TypeOK, LockInv, Locking, Bound,
     Gone, Starting
<1> QED
  BY <1>1, <1>2, <1>3, <1>4, <1>5, <1>6, <1>7, <1>8, <1>9, <1>10, <1>11,
     <1>12, <1>13, <1>14, <1>15, <1>16, <1>17, <1>18, <1>19, <1>20, <1>21,
     <1>22, <1>23, <1>24
     DEF Next, Start, Serve, Stop, ConnectOrStart

\* Every step keeps clients and commands away from a server that is stopping.
LEMMA StepIdleStopCutsNobody == DaemonInv /\ [Next]_vars => IdleStopCutsNobody'
<1> SUFFICES ASSUME DaemonInv, [Next]_vars
             PROVE  IdleStopCutsNobody'
  OBVIOUS
<1> USE DaemonAssumption DEF DaemonInv
<1>1. ASSUME NEW d \in Daemons, LockAddress(d)
      PROVE  IdleStopCutsNobody'
  BY <1>1 DEF LockAddress, Goto, server, probe, TypeOK, LockInv,
     IdleStopCutsNobody
<1>2. ASSUME NEW d \in Daemons, Bind(d)
      PROVE  IdleStopCutsNobody'
  BY <1>2 DEF Bind, Listening, Goto, server, probe, TypeOK, LockInv,
     IdleStopCutsNobody
<1>3. ASSUME NEW d \in Daemons, WriteToken(d)
      PROVE  IdleStopCutsNobody'
  BY <1>3 DEF WriteToken, Goto, server, probe, TypeOK, LockInv,
     IdleStopCutsNobody
<1>4. ASSUME NEW d \in Daemons, Publish(d)
      PROVE  IdleStopCutsNobody'
  BY <1>4 DEF Publish, Goto, server, probe, TypeOK, LockInv,
     IdleStopCutsNobody
<1>5. ASSUME NEW d \in Daemons, TakeCommand(d)
      PROVE  IdleStopCutsNobody'
  BY <1>5 DEF TakeCommand, files, probe, TypeOK, LockInv, IdleStopCutsNobody
<1>6. ASSUME NEW d \in Daemons, FinishCommand(d)
      PROVE  IdleStopCutsNobody'
  BY <1>6 DEF FinishCommand, files, probe, TypeOK, LockInv,
     IdleStopCutsNobody
<1>7. ASSUME NEW d \in Daemons, StopIfIdle(d)
      PROVE  IdleStopCutsNobody'
  BY <1>7 DEF StopIfIdle, files, probe, TypeOK, LockInv, IdleStopCutsNobody
<1>8. ASSUME NEW d \in Daemons, CloseConnections(d)
      PROVE  IdleStopCutsNobody'
  BY <1>8 DEF CloseConnections, Goto, files, probe, TypeOK, LockInv,
     IdleStopCutsNobody
<1>9. ASSUME NEW d \in Daemons, RemoveSocket(d)
      PROVE  IdleStopCutsNobody'
  BY <1>9 DEF RemoveSocket, Goto, server, probe, TypeOK, LockInv,
     IdleStopCutsNobody
<1>10. ASSUME NEW d \in Daemons, UnlockAddress(d)
      PROVE  IdleStopCutsNobody'
  BY <1>10 DEF UnlockAddress, Goto, server, probe, TypeOK, LockInv,
     IdleStopCutsNobody
<1>11. ASSUME NEW d \in Daemons, Shutdown(d)
      PROVE  IdleStopCutsNobody'
  BY <1>11 DEF Shutdown, Exit, Goto, probe, TypeOK, LockInv,
     IdleStopCutsNobody
<1>12. ASSUME NEW d \in Daemons, BootstrapFails(d)
      PROVE  IdleStopCutsNobody'
  BY <1>12 DEF BootstrapFails, Goto, files, server, probe, TypeOK, LockInv,
     IdleStopCutsNobody
<1>13. ASSUME NEW d \in Daemons, StartFails(d)
      PROVE  IdleStopCutsNobody'
  BY <1>13 DEF StartFails, Goto, files, probe, TypeOK, LockInv,
     IdleStopCutsNobody
<1>14. ASSUME NEW d \in Daemons, Crash(d)
      PROVE  IdleStopCutsNobody'
  BY <1>14 DEF Crash, Exit, Goto, probe, TypeOK, LockInv, IdleStopCutsNobody
<1>15. ASSUME NEW d \in Daemons, ServeByHand(d)
      PROVE  IdleStopCutsNobody'
  BY <1>15 DEF ServeByHand, Spawned, Goto, files, server, probe, TypeOK,
     LockInv, IdleStopCutsNobody
<1>16. ASSUME NEW l \in Launchers, Dial(l)
      PROVE  IdleStopCutsNobody'
  BY <1>16 DEF Dial, Listening, Accepts, files, TypeOK, LockInv,
     IdleStopCutsNobody
<1>17. ASSUME NEW l \in Launchers, Authenticate(l)
      PROVE  IdleStopCutsNobody'
  BY <1>17 DEF Authenticate, DeleteConnection, TypeOK, LockInv,
     IdleStopCutsNobody
<1>18. ASSUME NEW l \in Launchers, SpawnDaemon(l)
      PROVE  IdleStopCutsNobody'
  <2>1. PICK d \in Daemons : Spawned(d)
    BY <1>18 DEF SpawnDaemon
  <2>2. pc[d] = "unborn" /\ pc' = [pc EXCEPT ![d] = "booting"]
    BY <2>1 DEF Spawned, Goto
  <2>3. UNCHANGED <<stopping, conns, job>>
    BY <1>18 DEF SpawnDaemon, server
  <2> QED
    BY <2>2, <2>3 DEF TypeOK, IdleStopCutsNobody
<1>19. ASSUME NEW l \in Launchers, ProbeTimesOut(l)
      PROVE  IdleStopCutsNobody'
  BY <1>19 DEF ProbeTimesOut, DeleteConnection, files, TypeOK, LockInv,
     IdleStopCutsNobody
<1>20. ASSUME NEW l \in Launchers, Disconnect(l)
      PROVE  IdleStopCutsNobody'
  BY <1>20 DEF Disconnect, DeleteConnection, files, probe, TypeOK, LockInv,
     IdleStopCutsNobody
<1>21. ASSUME NEW l \in Launchers, NEW d \in Daemons, Submit(l, d)
      PROVE  IdleStopCutsNobody'
  BY <1>21 DEF Submit, files, probe, TypeOK, LockInv, IdleStopCutsNobody
<1>22. ASSUME NEW l \in Launchers, NEW d \in Daemons, AskToStop(l, d)
      PROVE  IdleStopCutsNobody'
  BY <1>22 DEF AskToStop, DeleteConnection, files, probe, TypeOK, LockInv,
     IdleStopCutsNobody
<1>23. ASSUME UNCHANGED <<pc, conns, stopping, job>>
      PROVE  IdleStopCutsNobody'
  BY <1>23 DEF IdleStopCutsNobody
<1>24. ASSUME NEW d \in Daemons,
               Lapse(d) \/ CancelIdle(d) \/ StartWork(d) \/ FinishWork(d)
               \/ Signal(d)
      PROVE  IdleStopCutsNobody'
  BY <1>23, <1>24 DEF Lapse, files, probe, CancelIdle, StartWork, FinishWork,
     Signal
<1>25. ASSUME NEW l \in Launchers,
               ReadEndpoint(l) \/ ReadToken(l) \/ TryStartLock(l) \/
               RetireLegacy(l) \/ LegacyGone(l) \/ NextProbe(l) \/
               Launch(l) \/ GiveUp(l)
      PROVE  IdleStopCutsNobody'
  BY <1>23, <1>25 DEF ReadEndpoint, files, server, ReadToken, TryStartLock,
     RetireLegacy, LegacyGone, probe, NextProbe, Launch, GiveUp
<1>26. CASE UNCHANGED vars
  BY <1>26 DEF vars, files, server, probe, TypeOK, LockInv,
     IdleStopCutsNobody
<1> QED
  BY <1>1, <1>2, <1>3, <1>4, <1>5, <1>6, <1>7, <1>8, <1>9, <1>10, <1>11,
     <1>12, <1>13, <1>14, <1>15, <1>16, <1>17, <1>18, <1>19, <1>20, <1>21,
     <1>22, <1>23, <1>24, <1>25, <1>26
     DEF Next, Start, Serve, Stop, ConnectOrStart

\* The inductive invariant holds however renderers and daemons start, stop and crash
\* (daemon/client.go, daemon/runtime.go).
THEOREM DaemonInvariant == Spec => []DaemonInv
<1>1. DaemonInv /\ [Next]_vars => DaemonInv'
  BY StepTypeOK, StepLockInv, StepIdleStopCutsNobody DEF DaemonInv
<1> QED
  BY <1>1, InitDaemonInv, PTL DEF Spec

\* One daemon at a time has the address and its socket (Listen and
\* removingListener.Close), however many processes start, stop and crash.
THEOREM DaemonAddressIsOwned == Spec => []AddressIsOwned
<1>1. DaemonInv => AddressIsOwned
  BY DEF DaemonInv, LockInv, Locking, AddressIsOwned
<1> QED
  BY <1>1, DaemonInvariant, PTL

\* All clients of a workspace are served by one daemon (Serve and Server.Close
\* under the lock of the address).
THEOREM DaemonOneServes == Spec => []OneDaemonServes
<1>1. DaemonInv => OneDaemonServes
  BY DEF DaemonInv, LockInv, Locking, Bound, OneDaemonServes
<1> QED
  BY <1>1, DaemonInvariant, PTL

\* The idle shutdown that watchIdle has decided meets no client and no command.
THEOREM DaemonIdleStopCutsNobody == Spec => []IdleStopCutsNobody
<1>1. DaemonInv => IdleStopCutsNobody
  BY DEF DaemonInv
<1> QED
  BY <1>1, DaemonInvariant, PTL

=============================================================================
