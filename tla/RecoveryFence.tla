--------------------------- MODULE RecoveryFence ---------------------------
(***************************************************************************)
(* The process-lifetime recovery fence: the file azem.db.runtime.lock that *)
(* every daemon sharing one azem.db takes during bootstrap.                *)
(*                                                                         *)
(* The file carries two things: an advisory lock (exclusive while crash    *)
(* recovery runs, shared while a process is live) and a marker written in  *)
(* its body ("recovering", "ready" or "clean"; "" when missing or torn).   *)
(* A process that takes the lock exclusively on a marker other than        *)
(* "clean" must recover the durable runs that dead processes left behind;  *)
(* a process that finds the lock shared and the marker "ready" joins       *)
(* without recovering.                                                     *)
(*                                                                         *)
(* Sources: internal/store/sqlite/recovery_fence{,_unix,_windows}.go, and  *)
(* the callers in internal/app (bootstrap.go, app.go) and internal/daemon  *)
(* (client.go, the catalog reader).                                        *)
(***************************************************************************)
EXTENDS Naturals, FiniteSets

CONSTANTS
  Procs,             \* daemons that run the bootstrap over one database
  Readers            \* renderer processes that only read the catalog

ASSUME FenceAssumption == Procs \cap Readers = {}

Handles == Procs \cup Readers

VARIABLES
  atomic,       \* the platform: TRUE if flock converts EX <-> SH in place
                \* (unix), FALSE if the lock is dropped and taken again
                \* (LockFileEx, Windows)
  lock,         \* the advisory lock each open handle holds
  marker,       \* the state word in the body of the lock file
  pc,           \* where each process is in the protocol
  unrecovered   \* history: processes that left durable runs nobody recovered

fenceVars == <<atomic, lock, marker, pc, unrecovered>>

Markers == {"", "recovering", "ready", "clean"}

PCs == { "down",        \* no process, or its fence is closed
         "try",         \* about to call tryStartRecovery
         "owner",       \* exclusive, marker not yet read
         "recovering",  \* exclusive, acquired with shouldRecover = true
         "publish",     \* exclusive, found "clean": FinishRecovery at once
         "relock",      \* Windows FinishRecovery, between unlock and shared
         "wait",        \* polling for the shared lock
         "check",       \* shared, marker not yet read
         "running",     \* shared: the live runtime
         "reseal",      \* Windows CloseClean, between unlock and exclusive
         "sealing" }    \* exclusive, about to write "clean"

ExclusivePCs == {"owner", "recovering", "publish", "sealing"}

SharedPCs == {"check", "running"}

FenceInit ==
  /\ atomic \in BOOLEAN
  /\ lock = [h \in Handles |-> "none"]
  /\ marker = ""
  /\ pc = [p \in Procs |-> "down"]
  /\ unrecovered = {}

-----------------------------------------------------------------------------
(* The operating system's lock table. *)

ExclusiveFree(h) == \A g \in Handles \ {h} : lock[g] = "none"

SharedFree(h) == \A g \in Handles \ {h} : lock[g] # "ex"

Goto(p, l, label) ==
  /\ lock' = [lock EXCEPT ![p] = l]
  /\ pc' = [pc EXCEPT ![p] = label]
  /\ UNCHANGED atomic

-----------------------------------------------------------------------------
(* acquireRecoveryFence *)

\* The lock file is opened; the acquisition loop begins.
Start(p) ==
  /\ pc[p] = "down"
  /\ Goto(p, "none", "try")
  /\ UNCHANGED <<marker, unrecovered>>

\* tryStartRecovery: one non-blocking attempt at the exclusive lock.
TryStartRecovery(p) ==
  /\ pc[p] = "try"
  /\ \/ /\ ExclusiveFree(p)
        /\ Goto(p, "ex", "owner")
     \/ /\ ~ExclusiveFree(p)
        /\ Goto(p, "none", "wait")
  /\ UNCHANGED <<marker, unrecovered>>

\* The owner reads the marker, decides whether to recover, and marks the
\* database dirty. Nobody else can read or write the marker meanwhile.
Claim(p) ==
  /\ pc[p] = "owner"
  /\ marker' = "recovering"
  /\ Goto(p, "ex", IF marker # "clean" THEN "recovering" ELSE "publish")
  /\ UNCHANGED unrecovered

\* Mutant: the exclusive lock is released and the shared one never taken.
FinishDropsLock(p) ==
  /\ pc[p] \in {"recovering", "publish"}
  /\ marker' = "ready"
  /\ unrecovered' = IF pc[p] = "recovering" THEN {} ELSE unrecovered
  /\ Goto(p, "none", "running")

\* FinishRecovery: publish "ready", then downgrade. Recovery itself (the
\* bootstrap between acquisition and here) has settled every dead run.
FinishRecovery(p) ==
  /\ pc[p] \in {"recovering", "publish"}
  /\ marker' = "ready"
  /\ unrecovered' = IF pc[p] = "recovering" THEN {} ELSE unrecovered
  /\ IF atomic THEN Goto(p, "sh", "running")
                         ELSE Goto(p, "none", "relock")

\* Windows: the second half of FinishRecovery waits for the shared lock.
Relock(p) ==
  /\ pc[p] = "relock"
  /\ SharedFree(p)
  /\ Goto(p, "sh", "running")
  /\ UNCHANGED <<marker, unrecovered>>

\* waitForLock(LOCK_SH) succeeds.
WaitShared(p) ==
  /\ pc[p] = "wait"
  /\ SharedFree(p)
  /\ Goto(p, "sh", "check")
  /\ UNCHANGED <<marker, unrecovered>>

\* waitForLock is cancelled through its context: the handle is closed.
WaitCancelled(p) ==
  /\ pc[p] = "wait"
  /\ Goto(p, "none", "down")
  /\ UNCHANGED <<marker, unrecovered>>

\* Mutant: any marker other than "clean" is taken for a finished recovery.
CheckAcceptsPartial(p) ==
  /\ pc[p] = "check"
  /\ IF marker # "clean" THEN Goto(p, "sh", "running")
                         ELSE Goto(p, "none", "try")
  /\ UNCHANGED <<marker, unrecovered>>

\* Mutant: a finished recovery is not recognised, the waiter competes again.
CheckMissesReady(p) ==
  /\ pc[p] = "check"
  /\ Goto(p, "none", "try")
  /\ UNCHANGED <<marker, unrecovered>>

\* waitForCompletedRecovery: join on "ready", otherwise compete again.
CheckCompletedRecovery(p) ==
  /\ pc[p] = "check"
  /\ IF marker = "ready" THEN Goto(p, "sh", "running")
                         ELSE Goto(p, "none", "try")
  /\ UNCHANGED <<marker, unrecovered>>

-----------------------------------------------------------------------------
(* Leaving the fence *)

\* CloseClean on the shared lock: whoever can upgrade is the last closer.
CloseClean(p) ==
  /\ pc[p] = "running"
  /\ \/ atomic /\ ExclusiveFree(p) /\ Goto(p, "ex", "sealing")
     \/ atomic /\ ~ExclusiveFree(p) /\ Goto(p, "none", "down")
     \/ ~atomic /\ Goto(p, "none", "reseal")
  /\ UNCHANGED <<marker, unrecovered>>

\* Windows: the second half of CloseClean tries the exclusive lock.
TryReseal(p) ==
  /\ pc[p] = "reseal"
  /\ \/ ExclusiveFree(p) /\ Goto(p, "ex", "sealing")
     \/ ~ExclusiveFree(p) /\ Goto(p, "none", "down")
  /\ UNCHANGED <<marker, unrecovered>>

\* The last closer writes "clean" and closes the file.
Seal(p) ==
  /\ pc[p] = "sealing"
  /\ marker' = "clean"
  /\ Goto(p, "none", "down")
  /\ UNCHANGED unrecovered

\* closeRuntimeFence after a shutdown error, or a bootstrap that fails while
\* it recovers: Close leaves the marker as it is.
CloseDirty(p) ==
  /\ pc[p] \in {"recovering", "running"}
  /\ unrecovered' = IF pc[p] = "running" THEN unrecovered \cup {p}
                                         ELSE unrecovered
  /\ Goto(p, "none", "down")
  /\ UNCHANGED marker

\* A crash: the operating system drops the lock. The marker survives, torn
\* to "" when writeState was between Truncate and WriteAt.
Crash(p) ==
  /\ pc[p] # "down"
  /\ \/ UNCHANGED marker
     \/ pc[p] \in ExclusivePCs /\ marker' = ""
  /\ unrecovered' = IF pc[p] = "running" THEN unrecovered \cup {p}
                                         ELSE unrecovered
  /\ Goto(p, "none", "down")

-----------------------------------------------------------------------------
(* AcquireCatalogReadFence: a renderer takes only the shared side. *)

ReaderAcquire(r) ==
  /\ lock[r] = "none"
  /\ SharedFree(r)
  /\ lock' = [lock EXCEPT ![r] = "sh"]
  /\ UNCHANGED <<atomic, marker, pc, unrecovered>>

ReaderClose(r) ==
  /\ lock[r] = "sh"
  /\ lock' = [lock EXCEPT ![r] = "none"]
  /\ UNCHANGED <<atomic, marker, pc, unrecovered>>

-----------------------------------------------------------------------------
\* The steps a live process takes by itself, without outside cause.
Acquire(p) ==
  \/ TryStartRecovery(p)
  \/ Claim(p)
  \/ FinishRecovery(p)
  \/ Relock(p)
  \/ WaitShared(p)
  \/ CheckCompletedRecovery(p)

Leave(p) ==
  \/ CloseClean(p)
  \/ TryReseal(p)
  \/ Seal(p)
  \/ CloseDirty(p)
  \/ WaitCancelled(p)
  \/ Crash(p)

FenceNext ==
  \/ \E p \in Procs : Start(p) \/ Acquire(p) \/ Leave(p)
  \/ \E r \in Readers : ReaderAcquire(r) \/ ReaderClose(r)

FenceSpec == FenceInit /\ [][FenceNext]_fenceVars

\* A process that is not cancelled and does not crash keeps polling: the
\* acquisition loop is a goroutine of its own with a 25 ms timer.
FairFenceSpec == FenceSpec /\ \A p \in Procs : WF_fenceVars(Acquire(p))

-----------------------------------------------------------------------------
\* Every variable keeps its type.
FenceTypeOK ==
  /\ atomic \in BOOLEAN
  /\ lock \in [Handles -> {"none", "sh", "ex"}]
  /\ marker \in Markers
  /\ pc \in [Procs -> PCs]
  /\ unrecovered \subseteq Procs

\* RUNTIME-002: while one process recovers durable runs, no other process is
\* live, so recovery never touches a run that its owner still executes.
RecoveryExclusive ==
  \A p, q \in Procs : ~(pc[p] = "recovering" /\ pc[q] = "running")

\* A live process always stands on a published boundary: it never joined on a
\* partial recovery, and no closer wrote "clean" under it. (With a lock that
\* converts in place: the gaps of the Windows fence break it.)
LiveImpliesReady ==
  atomic => \A p \in Procs : pc[p] = "running" => marker = "ready"

\* The lock each process holds is the one its place in the protocol implies,
\* and an exclusive lock excludes every other handle.
LockDiscipline ==
  /\ \A p \in Procs :
       lock[p] = CASE pc[p] \in ExclusivePCs -> "ex"
                   [] pc[p] \in SharedPCs -> "sh"
                   [] OTHER -> "none"
  /\ \A g, h \in Handles : g # h /\ lock[g] = "ex" => lock[h] = "none"

\* docs/recovery.md: only the last clean closer publishes "clean", so a crash
\* always leaves a recovery-required marker until somebody recovers it.
CrashLeavesRecoveryMarker ==
  unrecovered # {} => marker # "clean"

\* From some point on no process starts, crashes or is told to leave.
FenceSettled == <>[][\A p \in Procs : ~Start(p) /\ ~Leave(p)]_fenceVars

\* docs/recovery.md: every later process waits for the boundary and then holds
\* a shared lock. If some process stays live, whoever is starting gets in,
\* whatever the other waiters and the readers do. (With a lock that converts
\* in place: on Windows a crash in the gap leaves "recovering" behind.)
LaterProcessJoins ==
  (atomic /\ FenceSettled /\ <>[](\E q \in Procs : pc[q] = "running")) =>
    \A p \in Procs : (pc[p] \in {"try", "wait", "check"}) ~> (pc[p] \in {"running", "down"})
=============================================================================
