# A TLA+ model of azem

azem is a coding agent: renderers (a GPUI desktop app and a TUI) talk to a daemon per
workspace; the daemons of all workspaces share one SQLite database and one directory of
payload files, in which they keep sessions, durable runs, leases and prompt queues. This
directory models the parts of it whose correctness depends on the order of events: which
process may recover what a dead one left, which worker may execute an effect, which prompt
is executed when, how events reach a renderer, how children and approvals of a run end, how
daemons start and stop, and how files and rows are kept together.

- [System and inventory](#system-and-inventory)
- [Modules](#modules)
- [Runs](#runs)
- [Where the code and its documents disagree](#where-the-code-and-its-documents-disagree)
- [Proofs](#proofs)
- [Fairness](#fairness)
- [Plan](#plan)
- [What is not modelled](#what-is-not-modelled)

## System and inventory

| Component | State | Operations | Interacts with | What makes it correct |
|---|---|---|---|---|
| Recovery fence (`internal/store/sqlite/recovery_fence*.go`) | lock file: advisory lock and marker word | acquire, finish recovery, close clean or dirty, catalog read | every process's bootstrap and shutdown; the lock table of the OS | recovery never runs beside a live process; a live process stands on a finished recovery; a crash is recovered by the next first process |
| Durable execution backend (`internal/store/sqlite/durable_*.go`) | per execution: lease, token, version, checkpoint, attempts, receipts | start, claim, resume, renew, checkpoint, suspend, finish, release; start, finish, mark and reconcile attempts | workers in several processes through immediate transactions; the wall clock | an effect is executed for one lease only and is not repeated without an explicit retry; nothing finishes over an uncertain effect |
| Prompt queue (`internal/app/prompt_queue.go`, `internal/session/prompt_queue.go`) | per session: revisioned row of items; per daemon: wake token, coordinator | enqueue, update, remove, reorder, retry, pause, resume, guide; reconcile, scan, claim, start, consume, reset, fail | clients, the turn slot, the run store, other daemons | a prompt is executed once or withdrawn, never lost; a failed run holds its queue; a dispatchable prompt is dispatched |
| Event broker (`internal/app/event_broker.go`) | bounded queue with coalesced deltas | publish, next, close | run threads, the bridge's pump | lifecycle events keep their order and their place among deltas; what is dropped is announced |
| IPC event delivery (`internal/desktopipc`, `internal/desktopclient`) | wire sequence, replay ring, connection queue, client queue, cursor, snapshot boundary | publish, subscribe, replay, snapshot, reconnect, select | broker, renderers | a renderer is given every lossless event, or a snapshot taken after it, and never an older state after a newer one |
| Subagent runtime (`internal/app/subagent_*.go`, `internal/agent/subagents.go`) | entries in memory, rows, slots, waiting calls, wake turns | spawn, admit, execute, detach, kill, terminalize, wake, recover | turn execution, recovery, store | slots are returned; a terminal child stays terminal; what was spawned ends; an end is announced once |
| Turn execution and approvals (`internal/app/app.go`, `provider_*.go`, `actions_runtime.go`) | the slot for the main run; durable and live approvals, modes, grants | prepare, ask, decide, resolve, drain, resume, cancel | queue, broker, clients' sequenced commands, recovery notices | nothing runs undecided; a decision is final, reaches its call and survives a restart; commands return |
| Daemon lifecycle (`internal/daemon`, `internal/desktopipc`) | start lock, address lock, socket, token, endpoint, connections | connect or start, retire, serve, idle stop, requested stop, shut down | fence, renderers | one daemon per workspace; no idle stop under a client or its work; an unused workspace empties |
| Blob store (`internal/blobstore`, `internal/session`, `internal/agent`, `internal/store/sqlite`, `internal/maintenance`) | payload files by digest, digests in rows, the writer lock | install, write, tidy, commit, roll back, clean up, replace, fork, collect | every document writer, SQLite, `azem gc` | a referenced payload exists; failed operations leave nothing behind |
| Startup recovery (`internal/recovery/service.go`) | durable runs, leases, tool records | interrupt, expire, requeue, resume | fence, durable backend, approvals, children | only runs of dead processes are touched |
| Terminal replay (`internal/desktopipc/terminal_replay.go`) | ring of output chunks | append, replay | event hub | no chunk twice, gaps announced |
| Background processes (`internal/background`) | process slots, output rings | start, stop, restart | tools, shutdown | limits hold, nothing outlives shutdown |
| Scheduler and claims, adapter deployments, scans, PR monitor, auth broker, collaboration, hooks, MCP, providers, renderers, configuration, evaluation | see `PROJECT.json` | | | |

The hard behaviours are: processes that crash between two writes to the database, to the
lock file or to the file system; workers whose lease ran out and that do not know it;
requests delivered late or twice; several threads of a daemon, and several daemons, saving
one row; copies taken under a lock and written back after it was released; wake-ups that are
consumed by a round that does nothing; snapshots that race the events they summarise;
bounded queues towards slow clients; and files that two processes remove and create by the
same path. The `hazards` of `PROJECT.json` list those that
a property is about, with the line at which each bites; the section on disagreements names
the others that were met.

## Modules

| Module | Models |
|---|---|
| `RecoveryFence` | the fence on unix and on Windows, catalog readers, crashes with a torn marker |
| `OperationLedger` | abstract: what the durable backend promises about effects |
| `DurableExecution` | the backend's record of one execution and all calls that change it |
| `StoreProofs` | proofs of the fence and of the backend, and that the backend refines `OperationLedger` |
| `PromptQueue`, `MCPromptQueue` | queues, coordinator, turn slot, the end of runs, client mutations |
| `PromptQueueProofs` | what the saves of many threads leave of a row and of a prompt |
| `EventBroker`, `MCEventBroker` | the bounded, coalescing queue of runtime events and its consumers |
| `EventBrokerProofs` | what reaches the consumer, for any limits and any number of publications |
| `EventDelivery` | hub, connection, client queue, supervising client: the path of an event to a renderer |
| `EventDeliveryProofs` | the order on the path of an event, for queues of any size |
| `SubagentRuntime`, `MCSubagentRuntime` | the children of a run, their threads, slots, rows and wake turns |
| `SubagentRuntimeProofs` | slots, ends and wake turns, for any children, limit and scenario |
| `Approvals`, `MCApprovals` | the approvals of a main run, the commands that decide them, restarts |
| `ApprovalsProofs` | the copies of a decision agree with its record |
| `DaemonLifecycle` | launchers and daemons of one workspace and the files they share |
| `DaemonLifecycleProofs` | who holds the address at each place of a daemon |
| `BlobStore`, `MCBlobStore` | payload files against the rows that refer to them, and collections |
| `BlobStoreProofs` | whose files an operation, its rollback and a collection may touch |

The `MC` modules only name instances of the constants.

### RecoveryFence

`lock` is the advisory lock that each handle holds, `marker` the word in the file, `pc` the
place of each process in `acquireRecoveryFence`, `FinishRecovery`, `CloseClean` and `Close`.
Every system call on the lock and every marker write is a step of its own, so all
interleavings of processes are explored. A crash may happen anywhere and, while the marker
is being rewritten (`Truncate`, then `WriteAt`), may leave it empty. `atomic`, chosen once
in the initial state, tells unix, where `flock` converts a lock in place, from Windows,
where the code unlocks and locks again. `unrecovered` is a history variable: the processes
that died or closed without recovery of what they left. The lock table itself is the
operating system's and is marked external in the map.

### DurableExecution and OperationLedger

One execution: every backend call is one immediate SQLite transaction and so one action.
Any lease reference ever granted may be used in any call at any time: that is what late,
repeated and reordered requests from workers without a lease amount to. A refused or
replayed request changes nothing and is a stuttering step. The database clock may move in
both directions. `granted` and `authorised` are history variables: the leases handed out
and the decisions, told to a worker, to execute an effect.

`OperationLedger` has no leases, tokens, versions or clocks. Each operation has a current
attempt; a new one begins only if there was none or the last was explicitly given up for a
retry; a settled operation stays settled; an execution closes only when nothing is
uncertain. `DurableExecution` maps to it by the last attempt of each operation.

### PromptQueue

A row is a revision, a state and a sequence of items; `SavePromptQueueCAS` is the only way
to change one. A thread that loads and then saves keeps the revision it loaded; the save
succeeds only when the revision is unchanged, and then what it decided on is still true,
which is why the model does not copy rows into threads. The coordinator's steps are the
reads, saves and lock acquisitions of `reconcilePromptQueues` and
`dispatchNextQueuedPrompt`; the loops that retry a save four times are modelled with their
counter. `slot` is `activeRun` with what holds it; `ending` is `emitTerminal` (which holds
`s.mu` while it pauses the queue) or the suspension of a run (which does not). `runs` are
the durable runs and user blocks that carry an item's id, the evidence reconciliation looks
for. The holders of the slot that a client starts, turns, branch switches, compactions and
resumed runs, are one action. A graceful shutdown is a cancelled run followed by a crash.
Item ids are fresh, and creation times distinct.

### EventBroker

`broker` is the struct of `event_broker.go` with its slice, head, `pending` positions and
`degraded` marks; `Publish`, `Next` and `Close` run under its mutex, so each is one action,
except that `Next` unlocks before it waits: `consumer` says where it is. The text of an entry
is the sequence of the publications in it, which is how loss, duplication and reordering are
seen, and a size is a number of fragments. A coalescing window may end at any time, older
windows first. Deltas belong to a main run or to the child run of a subagent; an agent's
states are snapshots of the parent run, and `completed` stands for all lifecycle events that
do not end a run. `log`, `delivered` and `dropped` are history variables; `Trail` is what the
consumer has received followed by what is queued for it, and the properties say which
publications its entries hold and in which order. A cancelled consumer is one that takes no
further step.

### EventDelivery

It continues where the broker ends: the hub numbers an event, keeps it for replay and offers
it to the connection. Two bounded queues follow each other, that of the connection (with its
pump, channel and batches) and that of the client's reader; each is cleared when it
overflows and leaves one resync marker. `pc` is where `supervise` and a session selection
are; `applyMu` admits one snapshot request, whose boundary is read before the snapshot is
built. A lost connection is answered by a replay from the cursor, a restarted daemon (a new
epoch, numbers from 1) by a snapshot. `seen` is a history variable: what the renderer was
given, and what it gave up for a cursor that a retry no longer knew to be stale
(`seen.forgone`). A snapshot is the number it covers. `NoGap` (the cursor never passes what was not
given), `NothingStranded` (what is owed is still on its way, or a resync is), `NoRewind` (no
snapshot or event older than what was shown) and `Converges` are the promise to a renderer.

### SubagentRuntime

Each child has an entry (`mem`), a row and five threads (`job`). The code's discipline, copy
under `r.mu`, save under `persistMu`, write back under `r.mu`, is three steps, so all the
interleavings in which a copy is stale are there. Slots, the pending list, waiting parents
and wake turns are as in the code; a nested child borrows its parent's slot. `Budgets` is a
set of scenarios, one of which is chosen initially: what is spawned and how many kills,
pauses, stops, failed saves and crashes there are. A crash loses `mem` and keeps `row`.
`pumpLocked` asks the pending children one after the other; `Starts` says which of them start
without recursion, since one that was refused has found the limit reached or a child running
and so weighs, for those behind it, as much as one that was started.

### Approvals

The calls of a turn need approvals; a client's commands, which the IPC server runs one at a
time (`cmd`), decide them, as do Full Access mode, the automatic review and a permission
hook. `durable` is the approval record, `live` and `heard` the entry on which a call waits,
`recovered` and `listed` what a restarted process found. A decision is recorded before it is
told. A crash keeps the durable state and the saved mode, resumes the run and lists what is
pending. `missed` is a history variable: the operations decided through such a notice after
the call of the resumed run had looked for a decision. A resumption may fail while it loads
(`LoadFails`) or after it claimed the slot (`ClaimFails`), and may find a run that cannot be
continued (`Discontinue`).

### DaemonLifecycle

Launchers probe (endpoint, token, dial, authenticate), take the start lock, retire a daemon
of an older version and spawn; daemons lock the address, bind, write token and endpoint,
serve, and stop when idle, asked or signalled. A file holds the name of the daemon that
wrote it. Deadlines of launchers may pass at any time. A daemon started by hand takes no
start lock. The fence that a daemon takes in its bootstrap is `RecoveryFence`; here it is
the start that may fail.

### BlobStore

`file` is what is at a digest's path (nothing, a corrupt file, the payload) and whether it
is older than the collector's minimum age; `catalog` is what committed rows refer to. A
writer's operation is the sequence of its system calls and transactions; the tables differ
in the order (lock, install, write), in what their reference check reads and in whether a
replaced payload is deleted, and one row of each kind is enough to tell them apart. SQLite's
transactions are immediate here, so the writer lock is held from begin to commit. A
collection reads its references once and then looks at files and removes them one by one,
outside any lock. `spilt` and `removed` are history variables: files that only a collection
will remove, and those that one did.

## Runs

| Run | Instance | Shows |
|---|---|---|
| `fence` | 3 processes, 1 reader, both platforms, fair | recovery is exclusive, on Windows too, although the lock is dropped at each conversion; where it converts in place, live implies a published boundary and a later process joins |
| `durable_execution` | 1 operation, 2 claims, 2 inputs, 3 tokens, 2 attempts | fencing, claims delivered again, final states; refinement of the ledger |
| `queue` | 1 daemon, 1 session, 2 items, 3 mutations, 1 client turn, 2 crashes, store errors, failed starts | no prompt lost, repeated or claimed from a paused queue |
| `queue_live` | 1 daemon, 2 sessions, 2 items, 4 mutations, 1 crash, failed starts, fair | dispatchable rows are dispatched, when clients use only the operations that wake the coordinator and runs complete |
| `event_broker` | 2 delta streams, 1 run, 1 subagent, 1 consumer, 5 publications, limits of 2 entries and 3 fragments, slice shifted after 1 | only deltas are dropped, the first loss of a run and every loss of a main run are announced, nothing crosses a barrier, no text goes to another stream, no wake-up is lost |
| `event_delivery` | 3 events, 2 epochs, 1 fault, 1 selection or refused mutation, replay and connection queue of 2, client queue of 2 or 3, fair | the cursor passes nothing, nothing is stranded or rewound, the renderer ends up with everything |
| `subagents` | 3 children (one nested, one unsafe), 1 slot, five scenarios, fair | slots are accounted for, the limit holds, terminal rows stay, one wake per end, what was spawned ends |
| `approvals` | 2 operations of one scope, 2 commands, 1 crash, fair | nothing runs undecided, decisions are heard as recorded, not asked for again, and effective unless a notice is answered too late for the resumed call; commands return |
| `daemon_lifecycle` | 2 renderers, 2 daemons (the first possibly of an older version), 1 command, 1 fault, fair | one owner of the address, one serving daemon, no client cut off by an idle stop, an unused workspace empties |
| `blob_store` | 2 writers, 7 rows of 6 kinds, 5 payloads, 3 writes, 1 failure or crash, 1 collection, a file of any state left from before | payloads that rows other than a prompt queue's refer to exist, what an open operation installed stays, failed operations leak nothing |

The other two runs are the disagreements of the next section. Each module states the types of
its variables as `TypeOK` (`FenceTypeOK` in `RecoveryFence`, which shares a proof module with
`DurableExecution`); they are proved for every module, so no run checks them.

Bounds. Three processes on the fence give an owner, a live process and a waiter, each of
which may crash; the proofs remove the bound for safety. Three tokens let a claim lose its
lease to a second and come back after a third; two attempts are a retry; one operation is
enough there because the proofs cover any number. In the queue runs two items are the least
that can be reordered and overtaken, three mutations cover two enqueued items and one
conflict or retry, and two crashes one crash during the recovery from another. `CASAttempts`
is the code's 4; a row that conflicts four times needs four client saves and is beyond the
bound of `queue`; it then stays dispatching until the daemon restarts.

In `event_broker` three entries overflow the queue, so five publications can drop, let the
consumer reload, drop again and end the run. `CompactAt` is 64 in the code and 1 here, so that
the slice is shifted and `pending` rebuilt. Every run has a session there. In
`event_delivery` three events overflow either queue and the replay ring; sizes are counted in
events. In `subagents` the scenarios divide the faults, since one instance with all of them
is too large. In `approvals` two commands are the least that race (two answers, an answer
and a mode). In `daemon_lifecycle` a second daemon may start while the first stops. In
`blob_store` three writes are what a payload needs to be installed, replaced and taken up
again by a second writer; the writers are interchangeable and declared symmetric (the run
has no liveness property). The runs that say `CHECK_DEADLOCK FALSE` end because the bounds
are used up, or because all that was asked for is done; what must not get stuck is stated by
`NoLostWakeUp`, `NothingStranded` and the liveness properties.

## Where the code and its documents disagree

Each of these is a run that TLC finds violated; the quotations are in `PROJECT.json`.

1. `fence_crash_under_survivor`: a process that crashes while another is live is forgotten
   when the survivor closes last and publishes "clean".
2. `blob_gc`: the collector's query does not read the tables of durable executions, attempts,
   receipts and bindings, nor the reference of a model history: `azem gc --apply` removes
   their payloads once they are a day old.

Other behaviours met while modelling. Those that a property had to exempt are marked with it.

- Fence: a renderer's catalog read lock makes a restarting daemon join on the marker of a
  dead one; two waiters behind a dead owner can refuse each other's exclusive conversion for
  as long as they stay in step; on Windows a crash in the gap of `FinishRecovery` leaves later
  processes waiting as long as the live one stays.
- Prompt queue: a failed run wakes nobody, so prompts of other sessions wait; a row claimed
  before a failing run paused the queue is started after; two daemons on one database
  reconcile and dispatch each other's rows, which executes a prompt twice (the runs have one
  daemon); queues are read one by one, so a younger prompt may be taken first.
  A prompt that is edited between scan and claim stays queued although nothing runs: the
  refused claim ends the round, whose wake token is spent, and an edit wakes nobody
  (`DispatchedWhenAvailable` is checked where no edit interferes and runs complete).
- Broker: the final resync is tied to run-terminal events, which the run of a subagent does
  not have, so only its first loss is announced; docs/provider-streaming.md:325 promises the
  final resync for any run (`DropsAnnounced` is, beyond the first loss, about main runs); a
  lifecycle event behind a resync may wait for the window of an agent snapshot before it; the
  final resync may exceed the limit by one entry (`BacklogBounded`).
- Delivery: the marker of an overflow keeps the number of the first loss, and is skipped when
  a snapshot passes that number although more was dropped after it (`NothingStranded`,
  `Converges`); a reconnect adopts the new epoch before its snapshot has arrived, so that a
  retry takes the old cursor for a new one and what it covers is given up (`NoGap`,
  `NothingStranded`; the attempt to prove them showed that a session selection afterwards
  makes such a cursor count again, which needs two faults and is beyond the bound of the
  run); a refused mutation reports a resync that nothing starts.
- Subagents: a kill between the executor's two steps leaves the child cancelling with its slot
  for ever (`EventuallyEnds`); a cancelling entry is overwritten by a copy taken before.
- Approvals: an answer to a recovery notice may poll, inside the sequencer and without a
  timeout, for the slot of the resumed run, which waits for an answer that only a later command
  could bring (`CommandReturns`). A notice that is answered after the resumed call found the
  approval pending and before it registers leaves the call waiting, and no second answer is
  accepted, although docs/recovery.md:176 lets an approval wait only until its durable
  decision (`AnswerTakesEffect` exempts this decision, until the run is started again). The
  drain of Full Access works on a snapshot; an expired approval cannot be asked for again.
- Daemons: one that stops removes the token file by its path after it gave up the address, and
  so may remove its successor's, which then serves unreachable until it is idle; work that
  starts by itself between the idle check and the cancellation is shut down; a launcher whose
  daemon exited waits until its deadline with the start lock held.
- Blobs: queue documents are installed before the writer lock is taken, and the loser of a
  revision race deletes the document that another writer found valid (`ReferencedExists` is
  about the other rows); a file that a collection has looked at may be deleted and created
  anew before it is removed, and an old file adopted after the references were read is
  removed although a row refers to it.

## Proofs

All proofs hold for every value of the constants, under the named assumptions of the
modules: sets that must differ do, bounds are natural numbers, a lease lasts, session ids are
the numbers from 1, item ids are finitely many, the parent of nested children is a child that
is not nested, digests of different kinds of payload differ
(`BlobAssumption`, which also says that there is a row). TLC evaluates all of them. No
property is inductive as the runs check it; for each module the invariant that is, and why it
is needed:

- `StoreProofs`, on the fence. `RecoveryExclusive` is not inductive: that two processes cannot be
  past the exclusive lock follows from what each place in the protocol implies about the
  lock. `FenceInv` (types and `LockDiscipline`) says just that, and each action preserves it
  by one lemma on what `Goto` does. `LiveImpliesReady` is about behaviours with `atomic` and
  needs in addition that a process between its shared lock and its check keeps the marker
  from being rewritten; `WriterIsAlone` is the fact used.
- `StoreProofs`, on the backend. `DurableInv` adds to the types: only the last attempt of an
  operation is uncertain or settled and all earlier ones are abandoned; a running attempt
  carries the token of the current lease; every decision to execute was for a token that
  has been handed out and for an attempt that exists. From it follow `RunningIsFenced`,
  `OneLeasePerEffect` and `TerminalIsCertain`. That a claim which lost its lease never gets it
  back (`ClaimNeverReturns`, an action property) rests on tokens that only grow. The
  refinement (`DurableImplementsLedger`) shows for each action that the mapped step is a step
  of the ledger or a stutter; the invariant is what makes "the last attempt" a faithful
  summary.
- `PromptQueueProofs`. `QueueInv`, for any number of daemons, says what a thread may rely on:
  a remembered revision is not larger than the row's, and while it equals it, what was decided
  on it is true (`DecisionInv`); evidence names recorded runs only (`EvidenceInv`); an id that
  was not used is nowhere, and an item is in one row (`FreshInv`, `OneRow`). The lemmas say
  what each operation on a sequence of items does to the state of each item, and `StepItems`
  that every step of the system is, for the items, one of ten things; after that no proof
  looks at positions. `NoPromptLost` and `ClaimRespectsPause` follow for any number of
  daemons. `AtMostOneTurn` and `OneFate` are false with two daemons (see above) and are proved
  for one: `DispatchOK` says that a dispatch under way has its row dispatching and no turn
  before it is recorded, and that the evidence in the coordinator's hands is complete, which
  is where the second daemon would come in between.
- `EventBrokerProofs`. None of the properties is inductive, since a publication joins the
  entry that `pending` names and that may be anywhere in the slice. `BrokerInv` has
  `PendingOK`: what `pending` names is queued, is the newest entry of its key, and only
  deferrable entries follow it; `SizeOK` and `LimitOK` on the byte count and the limits; and
  `TrailInv` on the trail, not on the slice: its entries hold publications of their event in
  order (`Honest`), are in order where the order matters (`Ordered`), and every publication is
  there, was dropped, or was replaced by a later snapshot of the same state (`Kept`, `Lost`,
  `Shown`). The lemmas then say what a step does to the trail: delivery, a shift of the slice
  and the end of a window leave it alone, a publication appends to it or joins an entry, and
  compaction takes deltas out of it and appends resyncs (`CompactTrail`, with the entries that
  stay counted off one by one). Sizes are the cardinality of a set of fragments, so that sums
  need no recursion. `Announced` has two parts, as the property has: every run was told of
  its first loss (`FirstTold`), and a main run of each, or it is marked (`ToldOrMarked`). The second
  distinguishes the log and the ends of runs known so far, because `Publish` checks the limits
  before it appends the final resync. All seven invariants
  of the run follow.
- `EventDeliveryProofs`. An event that was not given is owed. `DeliveryInv` has the types, how
  epochs, holders of `applyMu`, snapshot boundary and numbers relate (`EpochInv`, `LockInv`,
  `SnapshotInv`, `RangeInv`), and `PathInv`: everything on its way that was published after
  an owed event has that event, or a marker, in front of it. The order has to be carried
  through both queues, the channel, the batch, the replay and the hand of `supervise`.
  `CursorInv` then says that nothing at or below the cursor is owed. `NoGap`,
  `NothingStranded` and `NoRewind` follow.
- `SubagentRuntimeProofs`. `AdmissionBound` and `NoSecondWake` count, and what may change the
  counts is a thread that works on an old copy. `ChildOK` says of the entry, the five jobs and
  the row of one child that it is enqueued once in a process, that only an enqueued one has a
  slot, that an entry on which `terminalize` works is ending, and that once the row has an end
  nobody is about to save another. `QueueOK` and `Admitted` relate the pending list and the
  counter to the entries that have slots. All steps but two touch one child (`Moved`,
  `Quiet`). Those two, the enqueueing and the end of a child, finish with `pumpLocked`, whose
  lemmas have the state as arguments: what stays pending is the old list without what
  started, and of those that start at most one is beyond the limit, a nested child while no
  nested child runs (`RegularStarts`, `BeyondLimit`). `WakeOK` says that the two wakers never
  claim the same child and that a child whose turn was started is marked as delivered, or is
  about to be by the one that started it. Every step keeps the rows that have an end
  (`RowsKept`), which is `TerminalSticks`.
- `ApprovalsProofs`. A decision exists in up to five copies besides its record. `ApprovalInv`
  says that each agrees with it (`CopiesAgree`), that a command has the arguments its stage
  needs (`CommandOK`) and that a call which waits has something to wait for
  (`WaitsForAnswer`); `OutcomeWasDecided`, `HeardIsRecorded` and `NotAskedAgain` are part of
  the induction.
- `DaemonLifecycleProofs`. `LockInv` says for each place of a daemon whether it holds the
  address and whose socket is there, and that only a serving daemon has connections.
  `AddressIsOwned` and `OneDaemonServes` follow; `IdleStopCutsNobody` is inductive with it,
  since a stopping server refuses connections and commands.
- `BlobStoreProofs`. An operation on any table but the queue's holds the writer lock from its
  begin to its commit, and files are deleted under it only (`LockedFileInv`); a queue document
  is created by one operation at most (`QueueFileInv`); `PayloadInv` and `StageInv` say what
  rows and operations hold at each stage. The partial reference checks before a deletion are
  complete because a digest belongs to one kind of payload. `ReferencedExists`,
  `InstalledStays` and `OrphansExplained` are conjuncts of `BlobInv`.

Only model-checked: all liveness (`LaterProcessJoins`, `DispatchedWhenAvailable`, `Converges`,
`EventuallyEnds`, `AnswerTakesEffect`, `CommandReturns`, `UnusedWorkspaceEmpties`), which is
outside of what the proof system handles. Every safety property of the passing runs is a
theorem.

## Fairness

- `RecoveryFence`: weak fairness of each process's acquisition loop and of the conversion
  steps; nothing obliges a process to start, finish its recovery, close or crash, and no
  reader to let go. The loop polls without giving up (until its context ends, which is a step
  of its own), so this is what the scheduler provides.
- `PromptQueue`: weak fairness of the coordinator's steps, of the thread that ends a run once
  it began to, and of a turn between its reservation and its begin or release. Runs need not
  end and clients need not act. A store that always fails would be outside of this;
  `queue_live` has no store errors.
- `EventDelivery`: weak fairness of each goroutine: pump, replay writer, forwarder (two
  steps), snapshot handler, `supervise` and a selection under way. Nobody has to publish,
  select or stay connected; a lost connection is retried by `supervise` itself.
- `SubagentRuntime` and `Approvals`: weak fairness of the union of the steps that goroutines
  owe. Each goroutine takes finitely many steps between inputs, so serving the union serves
  each of them. Workers end because the engine's idle watchdog ends them; answers, kills,
  stops and crashes are owed by nobody.
- `DaemonLifecycle`: weak fairness of each daemon's start, serving loop and stop. Launchers
  owe nothing, so a renderer may stay for ever; `UnusedWorkspaceEmpties` is about those that
  leave.
- `BlobStore` and `EventBroker` state safety only.

## Plan

The proofs are complete for the properties that the runs state. What could be added is more of
the system: the process slots and output rings of `internal/background`, the byte ring of
terminal replay, and the resource claims of the scheduler, which are small enough for a module
each; and a composition of `EventBroker` with `EventDelivery`, which share the hub as a
boundary and are related here by their descriptions only.

## What is not modelled

Wire formats of providers, prompts and tools, renderers, configuration, import and export,
hooks, MCP and plugins, evaluation and memory: they are data handling, presentation or calls
to programs outside of the repository, and they make up most of its lines. The team scheduler
is a function that an external engine calls; the adapter registry is three maps under a
mutex; terminal replay is byte arithmetic on a ring whose discipline `EventDelivery` has;
background processes are process groups, timers and signals of the operating system.

Inside the modelled parts: payloads and their hashes, texts and attachments of prompts,
profiles, worktrees and peer messages of children, the projections shown to users, the named
pipe of Windows in `DaemonLifecycle`, the lag between observing a delta and publishing it,
reads of payloads, the collection of attachments and logs, power failures, and errors of the
database other than those the actions name.
