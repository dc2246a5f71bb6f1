-------------------------- MODULE DaemonLifecycle --------------------------
(***************************************************************************)
(* The daemon of one workspace: how renderers find it or start it, how it  *)
(* takes the address and publishes itself, and how it stops.               *)
(*                                                                         *)
(* Everything the processes share is in files: the start lock of the       *)
(* launchers, the lock and the socket at the address, the token, and the   *)
(* endpoint, which outlives the daemon. A token or an endpoint file is the *)
(* name of the daemon that wrote it: its epoch. The address is the same    *)
(* for all of them.                                                        *)
(*                                                                         *)
(* A launcher is one renderer; ConnectOrStart is a loop of probes, and a   *)
(* probe reads the endpoint, reads the token, dials and authenticates, in  *)
(* this order. Deadlines may pass at any time. The recovery fence, which a *)
(* daemon takes in its bootstrap, is module RecoveryFence.                 *)
(*                                                                         *)
(* Sources: internal/daemon/client.go, internal/daemon/runtime.go and the  *)
(* connections of internal/desktopipc/server.go; the lock and the socket   *)
(* of internal/desktopipc/listener_unix.go.                                *)
(***************************************************************************)
EXTENDS Naturals, FiniteSets

CONSTANTS
  Daemons,     \* daemon processes, by number; each of them runs once
  Legacy,      \* those of an older protocol
  Launchers,   \* renderers
  Nobody,      \* no process
  MaxDaemons,  \* bound: daemons that run in a behaviour
  MaxLaunches, \* bound: calls of ConnectOrStart
  MaxCommands, \* bound: sequenced commands of the renderers
  MaxFaults    \* bound: crashes, failed starts and slow probes

ASSUME DaemonAssumption ==
  /\ Daemons \subseteq Nat /\ Legacy \subseteq Daemons
  /\ Nobody \notin Daemons \cup Launchers
  /\ MaxDaemons \in Nat \ {0} /\ MaxLaunches \in Nat
  /\ MaxCommands \in Nat /\ MaxFaults \in Nat

VARIABLES
  \* ---- files
  startLock, \* the launcher that holds start.lock
  addrLock,  \* the daemon that holds the lock of the address
  socket,    \* the daemon whose socket is at the address, or was
  token,     \* the daemon whose token is in the token file
  endpoint,  \* the daemon that the endpoint file describes
  \* ---- daemons
  pc,        \* where the process is
  cause,     \* why its context was cancelled
  stopping,  \* Server.stopping
  conns,     \* Server.connections
  lapsed,    \* whether idleTimeout has passed since idleSince
  job,       \* the sequenced command: none, queued or running
  work,      \* HasActiveWork
  \* ---- launchers
  at,        \* where the launcher is
  phase,     \* which of the probes of ConnectOrStart this is
  seen,      \* the endpoint that the probe has read
  proof,     \* the token that the probe has read
  \* ---- bounds
  left       \* what remains of the bounds

files == <<startLock, addrLock, socket, token, endpoint>>
server == <<cause, stopping, conns, lapsed, job, work>>
probe == <<phase, seen, proof>>
vars == <<files, pc, server, at, probe, left>>

Starting == {"booting", "bind", "token", "publish"}
Bound == {"token", "publish", "serving"}
Gone == {"unborn", "ended", "crashed"}

\* The socket at the address belongs to a process that is there.
Listening(there) == \E d \in Daemons : socket = d /\ pc[d] \in there

Spend(what) == left[what] > 0 /\ left' = [left EXCEPT ![what] = @ - 1]

-----------------------------------------------------------------------------
(* The start of a daemon.                                                  *)

Goto(d, to) == pc' = [pc EXCEPT ![d] = to]

\* BootstrapDesktopAtWorkspace could not open the database or a service.
BootstrapFails(d) ==
  /\ pc[d] = "booting"
  /\ Spend("faults")
  /\ Goto(d, "ended")
  /\ UNCHANGED <<files, server, at, probe>>

\* After the bootstrap, Listen and its lock: one that finds it taken gives up.
LockAddress(d) ==
  /\ pc[d] = "booting"
  /\ IF addrLock = Nobody
       THEN addrLock' = d /\ Goto(d, "bind")
       ELSE UNCHANGED addrLock /\ Goto(d, "ended")
  /\ UNCHANGED <<startLock, socket, token, endpoint, server, at, probe, left>>

\* Listen, its socket: one that nobody answers at is removed.
Bind(d) ==
  /\ pc[d] = "bind"
  /\ IF Listening(Bound)
       THEN /\ addrLock' = Nobody /\ Goto(d, "ended")
            /\ UNCHANGED socket
       ELSE /\ socket' = d /\ Goto(d, "token")
            /\ UNCHANGED addrLock
  /\ UNCHANGED <<startLock, token, endpoint, server, at, probe, left>>

WriteToken(d) ==
  /\ pc[d] = "token"
  /\ token' = d
  /\ Goto(d, "publish")
  /\ UNCHANGED <<startLock, addrLock, socket, endpoint, server, at, probe, left>>

\* The endpoint is published; Serve starts to accept.
Publish(d) ==
  /\ pc[d] = "publish"
  /\ endpoint' = d
  /\ Goto(d, "serving")
  /\ UNCHANGED <<startLock, addrLock, socket, token, server, at, probe, left>>

\* The token or the endpoint cannot be written; the listener is closed.
StartFails(d) ==
  /\ pc[d] \in {"token", "publish"}
  /\ Spend("faults")
  /\ cause' = [cause EXCEPT ![d] = IF pc[d] = "token" THEN "tokenless" ELSE "failed"]
  /\ Goto(d, "closing")
  /\ UNCHANGED <<files, stopping, conns, lapsed, job, work, at, probe>>

-----------------------------------------------------------------------------
(* A daemon that serves.                                                   *)

\* The entry of a connection is forgotten to be deleted.
LeaveEntry(l) ==
  /\ lapsed' = [d \in Daemons |-> lapsed[d] /\ l \notin conns[d]]
  /\ UNCHANGED conns

\* The end of serveConnection: the grace period starts again.
DeleteConnection(l) ==
  /\ conns' = [d \in Daemons |-> conns[d] \ {l}]
  /\ lapsed' = [d \in Daemons |-> lapsed[d] /\ l \notin conns[d]]

\* A renderer sends a command, which waits for the sequencer.
Submit(l, d) ==
  /\ at[l] = "connected" /\ l \in conns[d]
  /\ job[d] = "none"
  /\ Spend("commands")
  /\ job' = [job EXCEPT ![d] = "queued"]
  /\ UNCHANGED <<files, pc, cause, stopping, conns, lapsed, work, at, probe>>

\* runCommandSequencer, under commandMu: not in a server that is stopping.
TakeCommand(d) ==
  /\ job[d] = "queued"
  /\ job' = [job EXCEPT ![d] = IF stopping[d] THEN "none" ELSE "running"]
  /\ UNCHANGED <<files, pc, cause, stopping, conns, lapsed, work, at, probe, left>>

\* The command returns; it may have started work that goes on.
FinishCommand(d) ==
  /\ job[d] = "running"
  /\ job' = [job EXCEPT ![d] = "none"]
  /\ \E w \in {work[d], TRUE} : work' = [work EXCEPT ![d] = w]
  /\ UNCHANGED <<files, pc, cause, stopping, conns, lapsed, at, probe, left>>

\* A queued prompt, a resumed run or a wake starts work without a command.
StartWork(d) ==
  /\ pc[d] = "serving" /\ cause[d] = "none" /\ ~work[d]
  /\ work' = [work EXCEPT ![d] = TRUE]
  /\ UNCHANGED <<files, pc, cause, stopping, conns, lapsed, job, at, probe, left>>

\* A run, a scan or a process ends on its own.
FinishWork(d) ==
  /\ work[d]
  /\ work' = [work EXCEPT ![d] = FALSE]
  /\ UNCHANGED <<files, pc, cause, stopping, conns, lapsed, job, at, probe, left>>

\* idleTimeout passes since the last connection ended.
Lapse(d) ==
  /\ pc[d] = "serving" /\ conns[d] = {} /\ ~lapsed[d]
  /\ lapsed' = [lapsed EXCEPT ![d] = TRUE]
  /\ UNCHANGED <<files, pc, cause, stopping, conns, job, work, at, probe, left>>

\* A tick of watchIdle. A command that is queued or runs has a connection.
StopIfIdle(d) ==
  /\ pc[d] = "serving" /\ ~stopping[d]
  /\ conns[d] = {} /\ lapsed[d] /\ job[d] = "none" /\ ~work[d]
  /\ stopping' = [stopping EXCEPT ![d] = TRUE]
  /\ UNCHANGED <<files, pc, cause, conns, lapsed, job, work, at, probe, left>>

\* onDaemonStop, outside the locks.
CancelIdle(d) ==
  /\ pc[d] = "serving" /\ stopping[d] /\ cause[d] = "none"
  /\ cause' = [cause EXCEPT ![d] = "idle"]
  /\ UNCHANGED <<files, pc, stopping, conns, lapsed, job, work, at, probe, left>>

\* FrameDaemonStop: refused if there is work, unless that is included. The
\* context is cancelled, and the server is not stopping before it is closed.
AskToStop(l, d) ==
  /\ at[l] = "connected" /\ l \in conns[d] /\ pc[d] = "serving"
  /\ cause[d] = "none"
  /\ cause' = [cause EXCEPT ![d] = "asked"]
  /\ at' = [at EXCEPT ![l] = "idle"]
  /\ DeleteConnection(l)
  /\ UNCHANGED <<files, pc, stopping, job, work, probe, left>>

\* SIGINT or SIGTERM cancels the same context.
Signal(d) ==
  /\ pc[d] = "serving" /\ cause[d] = "none"
  /\ Spend("faults")
  /\ cause' = [cause EXCEPT ![d] = "signal"]
  /\ UNCHANGED <<files, pc, stopping, conns, lapsed, job, work, at, probe>>

Serve(d) ==
  \/ TakeCommand(d) \/ FinishCommand(d) \/ Lapse(d) \/ StopIfIdle(d) \/ CancelIdle(d)

-----------------------------------------------------------------------------
(* The end of a daemon.                                                    *)

\* The listener is closed, and the connections go on.
CloseListenerOnly(d) ==
  /\ pc[d] = "serving" /\ cause[d] # "none"
  /\ stopping' = [stopping EXCEPT ![d] = TRUE]
  /\ Goto(d, "closing")
  /\ UNCHANGED <<files, cause, conns, lapsed, job, work, at, probe, left>>

\* The lock of the address is released first of all.
UnlockFirst(d) ==
  /\ pc[d] = "serving" /\ cause[d] # "none"
  /\ stopping' = [stopping EXCEPT ![d] = TRUE]
  /\ conns' = [conns EXCEPT ![d] = {}]
  /\ addrLock' = Nobody
  /\ Goto(d, "closing")
  /\ UNCHANGED <<startLock, socket, token, endpoint, cause, lapsed, job, work, at, probe, left>>

\* Server.Close, its connections.
CloseConnections(d) ==
  /\ pc[d] = "serving" /\ cause[d] # "none"
  /\ stopping' = [stopping EXCEPT ![d] = TRUE]
  /\ conns' = [conns EXCEPT ![d] = {}]
  /\ Goto(d, "closing")
  /\ UNCHANGED <<files, cause, lapsed, job, work, at, probe, left>>

\* The listener's Close: the path is removed, whoever bound it ...
RemoveSocket(d) ==
  /\ pc[d] = "closing"
  /\ socket' = Nobody
  /\ Goto(d, "unlock")
  /\ UNCHANGED <<startLock, addrLock, token, endpoint, server, at, probe, left>>

\* ... and the lock is released after it.
UnlockAddress(d) ==
  /\ pc[d] = "unlock"
  /\ addrLock' = IF addrLock = d THEN Nobody ELSE addrLock
  /\ Goto(d, "shutdown")
  /\ UNCHANGED <<startLock, socket, token, endpoint, server, at, probe, left>>

\* The memory of a process ends with it.
Exit(d, how) ==
  /\ Goto(d, how)
  /\ cause' = [cause EXCEPT ![d] = "none"] /\ stopping' = [stopping EXCEPT ![d] = FALSE]
  /\ conns' = [conns EXCEPT ![d] = {}] /\ lapsed' = [lapsed EXCEPT ![d] = FALSE]
  /\ job' = [job EXCEPT ![d] = "none"] /\ work' = [work EXCEPT ![d] = FALSE]

\* Service.Shutdown ends the work, in up to ten seconds; after it the token
\* file is removed by its path, whoever wrote it.
Shutdown(d) ==
  /\ pc[d] = "shutdown"
  /\ token' = IF cause[d] = "tokenless" THEN token ELSE Nobody
  /\ Exit(d, "ended")
  /\ UNCHANGED <<startLock, addrLock, socket, endpoint, at, probe, left>>

\* The process dies: its locks go with it, its files stay.
Crash(d) ==
  /\ pc[d] \notin Gone
  /\ Spend("faults")
  /\ Exit(d, "crashed")
  /\ addrLock' = IF addrLock = d THEN Nobody ELSE addrLock
  /\ UNCHANGED <<startLock, socket, token, endpoint, at, probe>>

Stop(d) ==
  \/ CloseConnections(d) \/ RemoveSocket(d) \/ UnlockAddress(d)
  \/ Shutdown(d)

Start(d) ==
  \/ LockAddress(d) \/ Bind(d) \/ WriteToken(d) \/ Publish(d)

-----------------------------------------------------------------------------
(* ConnectOrStart.                                                         *)

Step(l, to) == at' = [at EXCEPT ![l] = to]

\* Where a failed probe leads: to the lock, to the start, to the next probe.
AfterProbe(l) ==
  CASE phase[l] = "first" -> "lock"
    [] phase[l] = "locked" -> "retire"
    [] OTHER -> "wait"

Forget(l) == seen' = [seen EXCEPT ![l] = Nobody] /\ proof' = [proof EXCEPT ![l] = Nobody]

\* A renderer starts, or the supervisor of one that lost its daemon tries again.
Launch(l) ==
  /\ at[l] = "idle"
  /\ Spend("launches")
  /\ Step(l, "endpoint")
  /\ UNCHANGED <<files, pc, server, probe>>

\* ReadEndpointFile refuses the metadata of an older protocol.
ReadEndpoint(l) ==
  /\ at[l] = "endpoint"
  /\ IF endpoint \in Daemons \ Legacy
       THEN seen' = [seen EXCEPT ![l] = endpoint] /\ Step(l, "token")
       ELSE UNCHANGED seen /\ Step(l, AfterProbe(l))
  /\ UNCHANGED <<files, pc, server, phase, proof, left>>

ReadToken(l) ==
  /\ at[l] = "token"
  /\ IF token # Nobody
       THEN proof' = [proof EXCEPT ![l] = token] /\ Step(l, "dial") /\ UNCHANGED seen
       ELSE Step(l, AfterProbe(l)) /\ Forget(l)
  /\ UNCHANGED <<files, pc, server, phase, left>>

\* Serve registers a connection whatever happens.
AcceptAlways(d) == TRUE

\* Serve registers a connection unless the server is stopping.
Accepts(d) == ~stopping[d]

\* A socket that is bound and not served yet keeps the dialler waiting.
Dial(l) ==
  /\ at[l] = "dial"
  /\ ~Listening({"token", "publish"})
  /\ IF Listening({"serving"}) /\ Accepts(socket)
       THEN /\ conns' = [conns EXCEPT ![socket] = @ \cup {l}]
            /\ Step(l, "auth")
            /\ UNCHANGED <<seen, proof>>
       ELSE /\ Step(l, AfterProbe(l)) /\ Forget(l)
            /\ UNCHANGED conns
  /\ UNCHANGED <<files, pc, cause, stopping, lapsed, job, work, phase, left>>

\* The probe's two seconds pass while it waits.
ProbeTimesOut(l) ==
  /\ at[l] \in {"dial", "auth"}
  /\ Spend("faults")
  /\ Step(l, AfterProbe(l)) /\ Forget(l)
  /\ DeleteConnection(l)
  /\ UNCHANGED <<files, pc, cause, stopping, job, work, phase>>

\* The start lock, if this launcher holds it.
ReleaseStart(l) == startLock' = IF startLock = l THEN Nobody ELSE startLock

\* The challenge names the epoch, and the proof is checked with the token.
Authenticate(l) ==
  /\ at[l] = "auth"
  /\ IF l \in conns[seen[l]] /\ proof[l] = seen[l]
       THEN /\ Step(l, "connected")
            /\ ReleaseStart(l)
            /\ phase' = [phase EXCEPT ![l] = "first"]
            /\ UNCHANGED <<conns, lapsed>>
       ELSE /\ Step(l, AfterProbe(l))
            /\ DeleteConnection(l)
            /\ UNCHANGED <<startLock, phase>>
  /\ Forget(l)
  /\ UNCHANGED <<addrLock, socket, token, endpoint, pc, cause, stopping, job, work, left>>

\* The launcher that gets the lock probes again under it.
TryStartLock(l) ==
  /\ at[l] = "lock"
  /\ IF startLock = Nobody
       THEN /\ startLock' = l
            /\ phase' = [phase EXCEPT ![l] = "locked"]
            /\ Step(l, "endpoint")
       ELSE UNCHANGED <<startLock, phase>> /\ Step(l, "wait")
  /\ UNCHANGED <<addrLock, socket, token, endpoint, pc, server, seen, proof, left>>

\* retireLegacyDaemon: an older daemon that can be reached is asked to stop.
Retirable(d) == d \in Legacy /\ token = d /\ socket = d /\ pc[d] = "serving" /\ Accepts(d)

RetireLegacy(l) ==
  /\ at[l] = "retire"
  /\ IF endpoint \in Daemons /\ Retirable(endpoint)
       THEN IF work[endpoint]
              THEN /\ Step(l, "idle") /\ ReleaseStart(l)
                   /\ phase' = [phase EXCEPT ![l] = "first"]
                   /\ UNCHANGED cause
              ELSE /\ Step(l, "gone")
                   /\ cause' = [cause EXCEPT ![endpoint] = IF @ = "none" THEN "asked" ELSE @]
                   /\ UNCHANGED <<startLock, phase>>
       ELSE Step(l, "spawn") /\ UNCHANGED <<startLock, cause, phase>>
  /\ UNCHANGED <<addrLock, socket, token, endpoint, pc, stopping, conns, lapsed, job, work, seen, proof, left>>

\* It has stopped when its token is gone.
LegacyGone(l) ==
  /\ at[l] = "gone" /\ token = Nobody
  /\ Step(l, "spawn")
  /\ UNCHANGED <<files, pc, server, probe, left>>

\* The processes are spawned in the order of their ids.
Spawned(d) ==
  /\ d \notin Legacy /\ pc[d] = "unborn"
  /\ \A e \in Daemons \ Legacy : e < d => pc[e] # "unborn"
  /\ Cardinality({e \in Daemons : pc[e] # "unborn"}) < MaxDaemons
  /\ Goto(d, "booting")

SpawnDaemon(l) ==
  /\ at[l] = "spawn"
  /\ \E d \in Daemons : Spawned(d)
  /\ Step(l, "endpoint")
  /\ phase' = [phase EXCEPT ![l] = "spawned"]
  /\ UNCHANGED <<files, server, seen, proof, left>>

\* waitForDaemonProbe: the next round of the loop.
NextProbe(l) ==
  /\ at[l] = "wait"
  /\ Step(l, "endpoint")
  /\ UNCHANGED <<files, pc, server, probe, left>>

\* The deadline passes, or the daemon cannot be spawned: the call fails, and
\* what it has started goes on.
GiveUp(l) ==
  /\ at[l] \in {"wait", "gone", "spawn"}
  /\ Step(l, "idle")
  /\ ReleaseStart(l)
  /\ phase' = [phase EXCEPT ![l] = "first"]
  /\ UNCHANGED <<addrLock, socket, token, endpoint, pc, server, seen, proof, left>>

\* The renderer closes its connection, or dies with it.
Disconnect(l) ==
  /\ at[l] = "connected"
  /\ Step(l, "idle")
  /\ DeleteConnection(l)
  /\ UNCHANGED <<files, pc, cause, stopping, job, work, probe, left>>

\* `azem daemon serve` starts a daemon without the start lock.
ServeByHand(d) ==
  /\ Spawned(d)
  /\ Spend("faults")
  /\ UNCHANGED <<files, server, at, probe>>

-----------------------------------------------------------------------------

\* Nothing runs, or a daemon of the older version does.
Init ==
  /\ startLock = Nobody
  /\ \E g \in Legacy \cup {Nobody} :
       /\ addrLock = g /\ socket = g /\ token = g /\ endpoint = g
       /\ pc = [d \in Daemons |-> IF d = g THEN "serving" ELSE "unborn"]
       /\ work \in {w \in [Daemons -> BOOLEAN] : \A d \in Daemons \ {g} : ~w[d]}
  /\ cause = [d \in Daemons |-> "none"]
  /\ stopping = [d \in Daemons |-> FALSE]
  /\ conns = [d \in Daemons |-> {}]
  /\ lapsed = [d \in Daemons |-> FALSE]
  /\ job = [d \in Daemons |-> "none"]
  /\ at = [l \in Launchers |-> "idle"]
  /\ phase = [l \in Launchers |-> "first"]
  /\ seen = [l \in Launchers |-> Nobody] /\ proof = [l \in Launchers |-> Nobody]
  /\ left = [launches |-> MaxLaunches, commands |-> MaxCommands, faults |-> MaxFaults]

ConnectOrStart(l) ==
  \/ ReadEndpoint(l) \/ ReadToken(l) \/ Dial(l) \/ Authenticate(l)
  \/ TryStartLock(l) \/ RetireLegacy(l) \/ LegacyGone(l) \/ SpawnDaemon(l) \/ NextProbe(l)

Next ==
  \/ \E d \in Daemons :
       \/ Start(d) \/ Serve(d) \/ Stop(d)
       \/ StartWork(d) \/ FinishWork(d)
       \/ BootstrapFails(d) \/ StartFails(d) \/ Signal(d) \/ Crash(d) \/ ServeByHand(d)
  \/ \E l \in Launchers :
       \/ ConnectOrStart(l) \/ Launch(l) \/ GiveUp(l) \/ ProbeTimesOut(l) \/ Disconnect(l)
  \/ \E l \in Launchers, d \in Daemons : Submit(l, d) \/ AskToStop(l, d)

Spec == Init /\ [][Next]_vars

\* The goroutines of a daemon go on; the renderers owe nothing.
FairSpec == Spec /\ \A d \in Daemons : WF_vars(Start(d) \/ Serve(d) \/ Stop(d))

-----------------------------------------------------------------------------
(* Properties.                                                             *)

\* The types of the state; a lock is held by a process that is between taking
\* and releasing it.
TypeOK ==
  /\ startLock \in Launchers \cup {Nobody}
  /\ \A l \in Launchers : startLock = l => phase[l] # "first"
  /\ \A d \in Daemons : addrLock = d => pc[d] \in Bound \cup {"bind", "closing", "unlock"}
  /\ {addrLock, socket, token, endpoint} \subseteq Daemons \cup {Nobody}
  /\ pc \in [Daemons -> Starting \cup Gone \cup
                        {"serving", "closing", "unlock", "shutdown"}]
  /\ cause \in [Daemons -> {"none", "idle", "asked", "signal", "failed", "tokenless"}]
  /\ stopping \in [Daemons -> BOOLEAN] /\ lapsed \in [Daemons -> BOOLEAN]
  /\ conns \in [Daemons -> SUBSET Launchers]
  /\ job \in [Daemons -> {"none", "queued", "running"}] /\ work \in [Daemons -> BOOLEAN]
  /\ at \in [Launchers -> {"idle", "endpoint", "token", "dial", "auth", "connected", "lock",
                           "retire", "gone", "spawn", "wait"}]
  /\ phase \in [Launchers -> {"first", "locked", "spawned"}]
  /\ seen \in [Launchers -> Daemons \cup {Nobody}] /\ proof \in [Launchers -> Daemons \cup {Nobody}]
  /\ left \in [{"launches", "commands", "faults"} -> Nat]

\* Whoever starts daemons, and whatever crashes: one daemon at a time has the
\* address, and the socket at it is its own, so that nobody who stops or
\* starts takes the socket of another away (Listen, removingListener.Close).
AddressIsOwned ==
  \A d \in Daemons : pc[d] \in Bound => addrLock = d /\ socket = d

\* Renderers converge: the clients of a workspace are all served by one
\* daemon, also while one stops and the next starts.
OneDaemonServes ==
  \A d, e \in Daemons : conns[d] # {} /\ conns[e] # {} => d = e

\* The idle shutdown cuts nobody off: once it is decided there is no client
\* and no command, and none gets in before the listener is closed.
IdleStopCutsNobody ==
  \A d \in Daemons :
    stopping[d] /\ pc[d] = "serving" => conns[d] = {} /\ job[d] = "none"

Attended(d) == \E l \in Launchers : at[l] \in {"auth", "connected"} /\ l \in conns[d]

\* A workspace that nobody uses ends up without a daemon, whoever connects and
\* leaves, fails to authenticate or dies: from every state on, some time each
\* daemon is gone or has a client or work (watchIdle, Runtime.Close).
UnusedWorkspaceEmpties ==
  []<>(\A d \in Daemons : pc[d] \in Gone \/ Attended(d) \/ work[d])
=============================================================================
