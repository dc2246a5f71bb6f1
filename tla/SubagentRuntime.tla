-------------------------- MODULE SubagentRuntime --------------------------
(***************************************************************************)
(* The children a run delegates to.                                        *)
(*                                                                         *)
(* A child has an entry in r.active and a row in the store. Five threads   *)
(* write both: the spawning tool call, the executor, a kill, the parent's  *)
(* wait, which may move the child to the background, and terminalize. Each *)
(* takes a copy of the entry under r.mu, saves the copy under the child's  *)
(* persistMu, and writes it back under r.mu. The scheduler admits children *)
(* up to a limit. A completion nobody waited for starts a wake turn when   *)
(* the session is idle. A restart of the process marks what was incomplete *)
(* as interrupted and the resumed parent queues it again.                  *)
(*                                                                         *)
(* Profiles, prompts, worktrees, peer messages and the projected texts are *)
(* left out; a pause of the executor stands for every wait whose summary   *)
(* it saves.                                                               *)
(*                                                                         *)
(* Source: internal/app/subagent_runtime.go, subagent_state.go,            *)
(* subagent_tools.go, internal/agent/subagents.go.                         *)
(***************************************************************************)
EXTENDS Naturals, Sequences, FiniteSets

CONSTANTS
  Children,       \* the children that may be spawned
  Nested,         \* the children spawned by another child ...
  Outer,          \* ... which is this one; the others are the main run's
  Unsafe,         \* children that write the shared workspace
  MaxConcurrency, \* cfg.MaxConcurrency; 0 is no limit
  Budgets         \* scenarios: cfg.AutoWake, the children that are spawned,
                  \* and how many stops of the run, kills, pauses (waits of
                  \* a worker), faults (failed saves and preparations) and
                  \* crashes there are

Scenarios == [autoWake : BOOLEAN, spawns : SUBSET Children, stops : Nat,
              cancels : Nat, pauses : Nat, faults : Nat, crashes : Nat]

ASSUME SubagentAssumption ==
  /\ Nested \subseteq Children /\ Unsafe \subseteq Children
  /\ Nested # {} => Outer \in Children \ Nested
  /\ MaxConcurrency \in Nat
  /\ Budgets \subseteq Scenarios

VARIABLES
  mem,      \* per child: its entry, whether it is in r.active, slot, flags
  row,      \* per child: its row in the store
  job,      \* per child and thread: where it is and the copy it holds
  wait,     \* per child: the parent's tool call that waits for it
  pending,  \* r.pending
  running,  \* r.running
  turn,     \* the session's run
  wake,     \* the two wakers: a terminalize and an end of a turn
  left,     \* what remains of the bounds
  log       \* history: the wake turns started for each child's end

vars == <<mem, row, job, wait, pending, running, turn, wake, left, log>>

-----------------------------------------------------------------------------
(* Runs. *)

Terminal == {"completed", "failed", "cancelled", "interrupted"}

Incomplete == {"initializing", "queued", "running", "cancelling"}

subagentTerminal(state) == state \in Terminal

NoRun == [state |-> "none", bg |-> FALSE, child |-> FALSE, delivered |-> FALSE]

\* fallback: the run is kept in r.terminalFallback. live: ctx is not cancelled.
NoEntry == [in |-> FALSE, fallback |-> FALSE, run |-> NoRun, slot |-> FALSE,
            ending |-> FALSE, live |-> TRUE]

Threads == {"spawn", "exec", "cancel", "detach", "end"}

Idle == [pc |-> "idle", run |-> NoRun, tag |-> "none"]

Wakers == {"child", "turn"}

Entry(run) == [NoEntry EXCEPT !.in = TRUE, !.run = run]

At(c, t) == job[c][t].pc

\* A thread that needs its copy no longer drops it.
Went(c, t, pc) ==
  [job EXCEPT ![c][t] = CASE pc = "saved" \/ (t = "end" /\ pc = "failed")
                               -> [@ EXCEPT !.pc = pc]
                          [] pc = "superseded" \/ (t # "end" /\ pc = "failed")
                               -> [@ EXCEPT !.pc = pc, !.run = NoRun]
                          [] OTHER -> [Idle EXCEPT !.pc = pc]]

\* A thread takes its copy and goes to save it.
Copied(c, t, run, tag) ==
  [job EXCEPT ![c][t] = [pc |-> "persist", run |-> run, tag |-> tag]]

-----------------------------------------------------------------------------
(* Admission: r.mu is held. *)

hasRunningChildForParentLocked(m, c) ==
  \E d \in Children : /\ m[d].in /\ m[d].slot /\ ~m[d].ending
                      /\ d \in Nested <=> c \in Nested

canStartNoReentry(m, n, c) == MaxConcurrency = 0 \/ n < MaxConcurrency

canStartLocked(m, n, c) ==
  \/ MaxConcurrency = 0
  \/ n < MaxConcurrency
  \/ c \in Nested /\ ~hasRunningChildForParentLocked(m, c)

Runnable(m, c) == m[c].in /\ ~m[c].ending /\ m[c].run.state = "queued"

\* The positions of pending that pumpLocked starts, from those that are not
\* stale: i is asked after the earlier ones. One of these that was refused is
\* as good as started, for it found the limit reached or a child running.
Starts(m, q, n) ==
  LET asked == {i \in DOMAIN q : Runnable(m, q[i])}
      before(i) == {j \in asked : j < i}
      started(i) == [c \in Children |->
                       IF \E j \in before(i) : q[j] = c
                       THEN [m[c] EXCEPT !.slot = TRUE] ELSE m[c]]
  IN {i \in asked : canStartLocked(started(i), n + Cardinality(before(i)), q[i])}

\* The positions that stay, and what is there, in the old order.
Stays(m, q, n) == {i \in DOMAIN q : Runnable(m, q[i])} \ Starts(m, q, n)

Remaining(m, q, n) ==
  LET stay == Stays(m, q, n)
      nth(k) == CHOOSE i \in stay : Cardinality(stay \cap 1..i) = k
  IN [k \in 1..Cardinality(stay) |-> q[nth(k)]]

\* Stale entries leave, startable ones start, the others stay.
pumpLocked(m, j, q, n) ==
  LET now == {q[i] : i \in Starts(m, q, n)}
  IN /\ mem' = [c \in Children |->
                  IF c \in now THEN [m[c] EXCEPT !.slot = TRUE] ELSE m[c]]
     /\ job' = [c \in Children |->
                  IF c \in now
                  THEN [j[c] EXCEPT !["exec"] = [Idle EXCEPT !.pc = "ready"]]
                  ELSE j[c]]
     /\ pending' = Remaining(m, q, n)
     /\ running' = n + Cardinality(Starts(m, q, n))

-----------------------------------------------------------------------------
(* Saves. persistMu keeps the saves of a child apart, so the check and the  *)
(* save are one step: what happens to the entry between the two could as    *)
(* well happen after the save, before the copy is written back.             *)

SupersededWhenGone(c, t) == t # "end" /\ ~mem[c].in

\* Whether the copy must not be saved any more.
Superseded(c, t) ==
  CASE t = "end"    -> FALSE
    [] t = "cancel" -> ~mem[c].in \/ mem[c].ending
    [] OTHER        -> \/ ~mem[c].in \/ mem[c].ending
                       \/ mem[c].run.state = "cancelling"
                       \/ subagentTerminal(mem[c].run.state)

persistActiveRun(c, t) ==
  /\ At(c, t) = "persist"
  /\ IF Superseded(c, t)
     THEN job' = Went(c, t, "superseded") /\ UNCHANGED row
     ELSE /\ row' = [row EXCEPT ![c] = job[c][t].run]
          /\ job' = Went(c, t, "saved")
  /\ UNCHANGED <<mem, wait, pending, running, turn, wake, left, log>>

SaveFails(c, t) ==
  /\ At(c, t) = "persist" /\ ~Superseded(c, t)
  /\ left.faults > 0
  /\ job' = Went(c, t, "failed")
  /\ left' = [left EXCEPT !.faults = @ - 1]
  /\ UNCHANGED <<mem, row, wait, pending, running, turn, wake, log>>

\* The copy is written back only if nothing ended the child meanwhile.
Current(c) ==
  /\ mem[c].in /\ ~mem[c].ending
  /\ mem[c].run.state # "cancelling" /\ ~subagentTerminal(mem[c].run.state)

WrittenBack(c, t) ==
  IF Current(c) THEN [mem EXCEPT ![c].run = job[c][t].run] ELSE mem

\* maybeAutoWake is about to be called.
Due(w) == [wake EXCEPT ![w].due = left.autoWake]

-----------------------------------------------------------------------------
(* terminalize. *)

\* Its first part, in the thread that calls it and leaves its own work.
terminalize(c, t, state, live) ==
  LET m == [mem EXCEPT ![c].live = @ /\ live]
      j == Went(c, t, IF t = "cancel" THEN "idle" ELSE "done")
      run == [mem[c].run EXCEPT !.state = state]
  IN IF mem[c].in /\ ~mem[c].ending
     THEN /\ mem' = [m EXCEPT ![c].ending = TRUE, ![c].run = run]
          /\ job' = [j EXCEPT ![c]["end"] =
                       [pc |-> "persist", run |-> run, tag |-> t]]
     ELSE mem' = m /\ job' = j

FreedNever(c) == running

\* r.running once the slot is given back.
Freed(c) == IF mem[c].slot THEN running - 1 ELSE running

\* Its last part: the child leaves r.active, its slot is free, the scheduler
\* runs, done is closed and a wake is due.
Terminalized(c) ==
  LET run == [job[c]["end"].run EXCEPT !.state = "failed"]
      m == [mem EXCEPT ![c] =
              IF At(c, "end") = "saved" THEN [NoEntry EXCEPT !.live = mem[c].live]
              ELSE [NoEntry EXCEPT !.live = mem[c].live, !.fallback = TRUE, !.run = run]]
  IN /\ At(c, "end") \in {"saved", "failed"}
     /\ pumpLocked(m, Went(c, "end", "done"), pending, Freed(c))
     /\ wake' = Due("child")
     /\ UNCHANGED <<row, wait, turn, left, log>>

-----------------------------------------------------------------------------
(* spawn and recoverInterrupted. *)

\* The run that has the tools for c.
CallerRuns(c) ==
  IF c \in Nested THEN At(Outer, "exec") = "working" /\ mem[Outer].live
  ELSE turn = "running"

Create(c) ==
  /\ row[c] = NoRun /\ At(c, "spawn") = "idle"
  /\ CallerRuns(c) /\ c \in left.spawns
  /\ \E bg \in IF c \in Unsafe THEN {FALSE} ELSE BOOLEAN :
       LET run == [NoRun EXCEPT !.state = "initializing", !.bg = bg]
       IN /\ row' = [row EXCEPT ![c] = run]
          /\ mem' = [mem EXCEPT ![c] = Entry(run)]
          /\ wait' = [wait EXCEPT ![c] = IF bg THEN "none" ELSE "spawning"]
  /\ job' = Went(c, "spawn", "created")
  /\ UNCHANGED <<pending, running, turn, wake, left, log>>

\* The entry is queued, whatever became of it since.
MarkQueued(c) ==
  LET run == [mem[c].run EXCEPT !.state = "queued"]
  IN /\ At(c, "spawn") = "created"
     /\ mem' = IF mem[c].in THEN [mem EXCEPT ![c].run = run] ELSE mem
     /\ job' = Copied(c, "spawn", run, "spawn")
     /\ UNCHANGED <<row, wait, pending, running, turn, wake, left, log>>

Recoverable(c) == row[c].state = "interrupted" /\ row[c].child /\ ~mem[c].in

recoverInterrupted(c) ==
  LET run == [row[c] EXCEPT !.state = "queued", !.bg = @ /\ c \notin Unsafe]
  IN /\ Recoverable(c) /\ At(c, "spawn") = "idle"
     /\ CallerRuns(c)
     /\ mem' = [mem EXCEPT ![c] = Entry(run)]
     /\ job' = Copied(c, "spawn", run, "recover")
     /\ UNCHANGED <<row, wait, pending, running, turn, wake, left, log>>

SpawnReturns(c) ==
  wait' = [wait EXCEPT ![c] = IF @ = "spawning" THEN "starting" ELSE @]

Enqueue(c) ==
  LET spawned == job[c]["spawn"].tag = "spawn"
      m == IF spawned /\ mem[c].in /\ ~mem[c].ending
           THEN [mem EXCEPT ![c].run = job[c]["spawn"].run] ELSE mem
      q == IF spawned /\ (~mem[c].in \/ mem[c].ending) THEN pending
           ELSE Append(pending, c)
  IN /\ At(c, "spawn") = "saved"
     /\ pumpLocked(m, Went(c, "spawn", "done"), q, running)
     /\ SpawnReturns(c)
     /\ UNCHANGED <<row, turn, wake, left, log>>

\* A hook prevents the start, or the queued child could not be saved: the
\* call ends the child before it returns.
SpawnFails(c) ==
  /\ job[c]["spawn"].tag = "spawn" /\ At(c, "spawn") \in {"saved", "failed"}
  /\ terminalize(c, "spawn", "failed", TRUE)
  /\ wait' = [wait EXCEPT ![c] = IF @ = "none" THEN @
                                 ELSE IF At(c, "spawn") = "saved" THEN "refusing"
                                 ELSE "failing"]
  /\ UNCHANGED <<row, pending, running, turn, wake, left, log>>

SpawnEnds(c) ==
  /\ wait[c] \in {"refusing", "failing"}
  /\ ~(mem[c].in /\ job[c]["end"].tag = "spawn")
  /\ wait' = [wait EXCEPT ![c] = IF @ = "refusing" THEN "none" ELSE "starting"]
  /\ UNCHANGED <<mem, row, job, pending, running, turn, wake, left, log>>

SpawnSuperseded(c) ==
  /\ At(c, "spawn") = "superseded"
  /\ job' = Went(c, "spawn", "done")
  /\ SpawnReturns(c)
  /\ UNCHANGED <<mem, row, pending, running, turn, wake, left, log>>

\* The parent's resume fails: the entry is dropped, the row stays.
RecoverFails(c) ==
  /\ At(c, "spawn") = "failed" /\ job[c]["spawn"].tag = "recover"
  /\ mem' = [mem EXCEPT ![c] = [NoEntry EXCEPT !.live = FALSE]]
  /\ job' = Went(c, "spawn", "done")
  /\ UNCHANGED <<row, wait, pending, running, turn, wake, left, log>>

-----------------------------------------------------------------------------
(* execute. *)

Start(c) ==
  /\ At(c, "exec") = "ready"
  /\ job' = Went(c, "exec", IF mem[c].in /\ ~mem[c].ending THEN "preparing"
                            ELSE "done")
  /\ UNCHANGED <<mem, row, wait, pending, running, turn, wake, left, log>>

\* The child's own run is ready: the entry is running, whatever it was.
Prepared(c) ==
  LET run == [mem[c].run EXCEPT !.state = "running", !.child = TRUE]
  IN /\ At(c, "exec") = "preparing"
     /\ IF mem[c].in /\ ~mem[c].ending
        THEN /\ mem' = [mem EXCEPT ![c].run = run]
             /\ job' = Copied(c, "exec", run, "begin")
        ELSE job' = Went(c, "exec", "done") /\ UNCHANGED mem
     /\ UNCHANGED <<row, wait, pending, running, turn, wake, left, log>>

\* A worktree, a provider or a tool is missing, or ctx is cancelled.
PrepareFails(c) ==
  /\ At(c, "exec") = "preparing"
  /\ IF mem[c].live THEN /\ left.faults > 0
                         /\ left' = [left EXCEPT !.faults = @ - 1]
     ELSE UNCHANGED left
  /\ terminalize(c, "exec", "failed", TRUE)
  /\ UNCHANGED <<row, wait, pending, running, turn, wake, log>>

\* What the worker's error makes of the child.
EndState(c) == IF mem[c].live THEN "failed" ELSE "cancelled"

ExecSaved(c) ==
  /\ At(c, "exec") = "saved"
  /\ mem' = WrittenBack(c, "exec")
  /\ job' = Went(c, "exec", "working")
  /\ UNCHANGED <<row, wait, pending, running, turn, wake, left, log>>

\* The first save is left to whoever superseded it; a pause ends the child.
ExecSuperseded(c) ==
  /\ At(c, "exec") = "superseded"
  /\ IF job[c]["exec"].tag = "begin"
     THEN job' = Went(c, "exec", "done") /\ UNCHANGED mem
     ELSE terminalize(c, "exec", EndState(c), TRUE)
  /\ UNCHANGED <<row, wait, pending, running, turn, wake, left, log>>

ExecFails(c) ==
  /\ At(c, "exec") = "failed"
  /\ IF job[c]["exec"].tag = "begin"
     THEN terminalize(c, "exec", "failed", FALSE)
     ELSE terminalize(c, "exec", EndState(c), TRUE)
  /\ UNCHANGED <<row, wait, pending, running, turn, wake, left, log>>

\* A tool call with which the run of child c spawns or awaits a child.
Calling(C) == \E c \in C : \/ At(c, "spawn") \notin {"idle", "done"}
                           \/ wait[c] # "none"

Delegates(c) == IF c = Outer THEN Nested ELSE {}

\* persistActiveState, for a wait of the worker.
Pause(c) ==
  /\ At(c, "exec") = "working" /\ ~Calling(Delegates(c))
  /\ left.pauses > 0
  /\ left' = [left EXCEPT !.pauses = @ - 1]
  /\ IF Current(c)
     THEN /\ job' = Copied(c, "exec", [mem[c].run EXCEPT !.state = "running"],
                           "pause")
          /\ UNCHANGED mem
     ELSE terminalize(c, "exec", EndState(c), TRUE)
  /\ UNCHANGED <<row, wait, pending, running, turn, wake, log>>

Finish(c) ==
  /\ At(c, "exec") = "working" /\ ~Calling(Delegates(c))
  /\ \E state \in IF mem[c].live THEN {"completed", "failed"} ELSE {"cancelled"} :
       terminalize(c, "exec", state, TRUE)
  /\ UNCHANGED <<row, wait, pending, running, turn, wake, left, log>>

-----------------------------------------------------------------------------
(* Cancel: a kill, an idle timeout, a stop with its children, a shutdown. *)

Cancel(c) ==
  LET run == [mem[c].run EXCEPT !.state = "cancelling"]
  IN /\ At(c, "cancel") = "idle" /\ left.cancels > 0
     /\ mem[c].in /\ mem[c].run.state \notin {"cancelling"} \cup Terminal
     /\ mem' = [mem EXCEPT ![c].run = run]
     /\ job' = Copied(c, "cancel", run, IF mem[c].slot THEN "slot" ELSE "queued")
     /\ left' = [left EXCEPT !.cancels = @ - 1]
     /\ UNCHANGED <<row, wait, pending, running, turn, wake, log>>

\* ctx is cancelled; a child that had no slot is ended here.
CancelSaved(c) ==
  /\ At(c, "cancel") = "saved"
  /\ IF job[c]["cancel"].tag = "queued"
     THEN terminalize(c, "cancel", "cancelled", FALSE)
     ELSE /\ mem' = [mem EXCEPT ![c].live = FALSE]
          /\ job' = Went(c, "cancel", "idle")
  /\ UNCHANGED <<row, wait, pending, running, turn, wake, left, log>>

CancelFails(c) ==
  /\ At(c, "cancel") = "failed"
  /\ terminalize(c, "cancel", "failed", TRUE)
  /\ UNCHANGED <<row, wait, pending, running, turn, wake, left, log>>

CancelSuperseded(c) ==
  /\ At(c, "cancel") = "superseded"
  /\ job' = Went(c, "cancel", "idle")
  /\ UNCHANGED <<mem, row, wait, pending, running, turn, wake, left, log>>

-----------------------------------------------------------------------------
(* The parent's wait: waitForForeground and continueInBackground. *)

snapshot(c) == IF mem[c].in \/ mem[c].fallback THEN mem[c].run ELSE row[c]

Delivered(C) == [c \in Children |->
                   IF c \in C THEN [row[c] EXCEPT !.delivered = TRUE] ELSE row[c]]

\* A terminal snapshot that is handed to the model marks the row.
Handed(c) ==
  row' = IF subagentTerminal(snapshot(c).state) THEN Delivered({c}) ELSE row

waitForForegroundStart(c) ==
  /\ wait[c] = "starting"
  /\ ~mem[c].in \/ mem[c].run.state \notin {"initializing", "queued"}
  /\ Handed(c)
  /\ wait' = [wait EXCEPT ![c] = IF subagentTerminal(snapshot(c).state)
                                 THEN "none" ELSE "waiting"]
  /\ UNCHANGED <<mem, job, pending, running, turn, wake, left, log>>

foregroundCompletion(c) ==
  /\ wait[c] \in {"waiting", "unbounded"} /\ ~mem[c].in
  /\ Handed(c)
  /\ wait' = [wait EXCEPT ![c] = "none"]
  /\ UNCHANGED <<mem, job, pending, running, turn, wake, left, log>>

CtxDone(c) == IF c \in Nested THEN ~mem[Outer].live ELSE turn = "stopping"

\* What the call does when the child did not move to the background.
Kept(c, tag) == [wait EXCEPT ![c] = IF tag = "ctx" THEN "none" ELSE "unbounded"]

\* tag is "window" (safeOnly) or "ctx". A child already in the background is
\* answered at once.
continueInBackground(c, tag) ==
  LET open == mem[c].in /\ ~mem[c].ending /\ ~subagentTerminal(mem[c].run.state)
      safe == tag = "ctx" \/ c \notin Unsafe
  IN /\ IF tag = "ctx" THEN CtxDone(c) /\ wait[c] \in {"starting", "waiting", "unbounded"}
        ELSE wait[c] = "waiting"
     /\ \/ /\ open /\ ~mem[c].run.bg /\ safe
           /\ job' = Copied(c, "detach", [mem[c].run EXCEPT !.bg = TRUE], tag)
           /\ wait' = [wait EXCEPT ![c] = "detaching"]
        \/ /\ open /\ mem[c].run.bg
           /\ wait' = [wait EXCEPT ![c] = "none"]
           /\ UNCHANGED job
        \/ /\ ~open \/ (~mem[c].run.bg /\ ~safe)
           /\ wait' = Kept(c, tag)
           /\ UNCHANGED job
     /\ UNCHANGED <<mem, row, pending, running, turn, wake, left, log>>

DetachSaved(c) ==
  /\ At(c, "detach") \in {"saved", "superseded"}
  /\ IF At(c, "detach") = "saved" /\ Current(c)
     THEN /\ wait' = [wait EXCEPT ![c] = "none"]
          /\ mem' = [mem EXCEPT ![c].run = job[c]["detach"].run]
     ELSE wait' = Kept(c, job[c]["detach"].tag) /\ UNCHANGED mem
  /\ job' = Went(c, "detach", "idle")
  /\ UNCHANGED <<row, pending, running, turn, wake, left, log>>

DetachFails(c) ==
  /\ At(c, "detach") = "failed"
  /\ wait' = [wait EXCEPT ![c] = "none"]
  /\ job' = Went(c, "detach", "idle")
  /\ UNCHANGED <<mem, row, pending, running, turn, wake, left, log>>

\* subagent.get_output.
GetOutput(c) ==
  /\ CallerRuns(c)
  /\ subagentTerminal(snapshot(c).state) /\ ~row[c].delivered
  /\ row' = Delivered({c})
  /\ UNCHANGED <<mem, job, wait, pending, running, turn, wake, left, log>>

-----------------------------------------------------------------------------
(* The session's run, which spawned the children that are not nested. *)

Direct == Children \ Nested

\* The guardrail lets the run finish once listUnfinishedChildren is empty.
TurnCompletes ==
  /\ turn = "running" /\ ~Calling(Direct)
  /\ \A c \in Direct : mem[c].in => subagentTerminal(mem[c].run.state)
  /\ turn' = "idle"
  /\ row' = Delivered({c \in Direct : subagentTerminal(row[c].state)})
  /\ wake' = Due("turn")
  /\ UNCHANGED <<mem, job, wait, pending, running, left, log>>

TurnStops ==
  /\ turn = "running" /\ left.stops > 0
  /\ turn' = "stopping"
  /\ left' = [left EXCEPT !.stops = @ - 1]
  /\ UNCHANGED <<mem, row, job, wait, pending, running, wake, log>>

\* The stopped run, or a wake turn, ends.
TurnEnds ==
  /\ turn = "waking" \/ (turn = "stopping" /\ ~Calling(Direct))
  /\ turn' = "idle"
  /\ wake' = Due("turn")
  /\ UNCHANGED <<mem, row, job, wait, pending, running, left, log>>

-----------------------------------------------------------------------------
(* maybeAutoWakeSession. *)

undeliveredBackgroundCompletions ==
  {c \in Children : /\ row[c].bg /\ ~row[c].delivered
                    /\ row[c].state \in Terminal \ {"cancelled"}}

NoneInFlight == {}

wakeInFlight == UNION {wake[w].runs : w \in Wakers}

WakeClaims(w) ==
  LET claimed == undeliveredBackgroundCompletions \ wakeInFlight
  IN /\ wake[w].due /\ wake[w].pc = "idle"
     /\ wake' = [wake EXCEPT ![w] =
                   [due |-> FALSE, runs |-> claimed,
                    pc |-> IF claimed = {} THEN "idle" ELSE "claimed"]]
     /\ UNCHANGED <<mem, row, job, wait, pending, running, turn, left, log>>

\* The turn is started for the claims that are still due.
StartSubagentAutoWake(w) ==
  LET current == wake[w].runs \cap undeliveredBackgroundCompletions
  IN /\ wake[w].pc = "claimed"
     /\ IF turn = "idle" /\ current # {}
        THEN /\ turn' = "waking"
             /\ wake' = [wake EXCEPT ![w].pc = "started"]
             /\ log' = [c \in Children |->
                          IF c \in current /\ row[c].state # "interrupted"
                          THEN log[c] + 1 ELSE log[c]]
        ELSE /\ wake' = [wake EXCEPT ![w].pc = "idle", ![w].runs = {}]
             /\ UNCHANGED <<turn, log>>
     /\ UNCHANGED <<mem, row, job, wait, pending, running, left>>

SetCompletionDelivered(w) ==
  /\ wake[w].pc = "started"
  /\ row' = Delivered(wake[w].runs \cap undeliveredBackgroundCompletions)
  /\ wake' = [wake EXCEPT ![w].pc = "idle", ![w].runs = {}]
  /\ UNCHANGED <<mem, job, wait, pending, running, turn, left, log>>

-----------------------------------------------------------------------------
(* The process ends at any moment; InterruptIncomplete runs at the start of *)
(* the next one. A run that was in progress is resumed.                     *)

NoWake == [w \in Wakers |-> [due |-> FALSE, pc |-> "idle", runs |-> {}]]

InterruptIncomplete ==
  [c \in Children |-> IF row[c].state \in Incomplete
                      THEN [row[c] EXCEPT !.state = "interrupted"] ELSE row[c]]

Crash ==
  /\ left.crashes > 0
  /\ left' = [left EXCEPT !.crashes = @ - 1]
  /\ row' = InterruptIncomplete
  /\ mem' = [c \in Children |-> NoEntry]
  /\ job' = [c \in Children |-> [t \in Threads |-> Idle]]
  /\ wait' = [c \in Children |-> "none"]
  /\ pending' = <<>> /\ running' = 0
  /\ turn' = IF turn = "running" THEN "running" ELSE "idle"
  /\ wake' = NoWake
  /\ log' = [c \in Children |-> 0]

-----------------------------------------------------------------------------
Init ==
  /\ mem = [c \in Children |-> NoEntry]
  /\ row = [c \in Children |-> NoRun]
  /\ job = [c \in Children |-> [t \in Threads |-> Idle]]
  /\ wait = [c \in Children |-> "none"]
  /\ pending = <<>> /\ running = 0
  /\ turn = "running"
  /\ wake = NoWake
  /\ left \in Budgets
  /\ log = [c \in Children |-> 0]

\* What a thread does once it has begun.
SpawnStep(c) == \/ persistActiveRun(c, "spawn") \/ SaveFails(c, "spawn")
                \/ MarkQueued(c) \/ Enqueue(c) \/ SpawnFails(c) \/ SpawnEnds(c)
                \/ SpawnSuperseded(c) \/ RecoverFails(c)
ExecStep(c) == \/ persistActiveRun(c, "exec") \/ SaveFails(c, "exec")
               \/ Start(c) \/ Prepared(c) \/ PrepareFails(c) \/ ExecSaved(c)
               \/ ExecSuperseded(c) \/ ExecFails(c) \/ Finish(c)
CancelStep(c) == \/ persistActiveRun(c, "cancel") \/ SaveFails(c, "cancel")
                 \/ CancelSaved(c) \/ CancelFails(c) \/ CancelSuperseded(c)
EndStep(c) == persistActiveRun(c, "end") \/ SaveFails(c, "end") \/ Terminalized(c)
DetachStep(c) == \/ persistActiveRun(c, "detach") \/ SaveFails(c, "detach")
                 \/ DetachSaved(c) \/ DetachFails(c)
WaitStep(c) == \/ waitForForegroundStart(c) \/ foregroundCompletion(c)
               \/ continueInBackground(c, "ctx")
Progress(c) == \/ SpawnStep(c) \/ ExecStep(c) \/ CancelStep(c) \/ EndStep(c)
               \/ DetachStep(c) \/ WaitStep(c)
WakeStep(w) == WakeClaims(w) \/ StartSubagentAutoWake(w) \/ SetCompletionDelivered(w)

Next ==
  \/ \E c \in Children : \/ Create(c) \/ recoverInterrupted(c) \/ Pause(c)
                         \/ Cancel(c) \/ GetOutput(c)
                         \/ continueInBackground(c, "window")
                         \/ Progress(c)
  \/ TurnCompletes \/ TurnStops \/ TurnEnds
  \/ \E w \in Wakers : WakeStep(w)
  \/ Crash

Spec == Init /\ [][Next]_vars

\* Some goroutine that can go on does: saves are bounded by a timeout, and a
\* worker that says nothing is cancelled by the idle watchdog. Fairness to each
\* goroutine is more than is needed, since every one takes finitely many steps.
FairSpec == Spec /\ WF_vars(\E c \in Children : Progress(c))

-----------------------------------------------------------------------------
Runs == [state : {"none"} \cup Incomplete \cup Terminal, bg : BOOLEAN,
         child : BOOLEAN, delivered : BOOLEAN]

Tags == {"none", "recover", "begin", "pause", "slot", "queued", "window", "ctx"}
          \cup Threads

Jobs == [pc : {"idle", "created", "ready", "preparing", "working", "persist",
               "saved", "superseded", "failed", "done"},
         run : Runs,
         tag : Tags]

\* Every variable has its type.
TypeOK ==
  /\ mem \in [Children -> [in : BOOLEAN, fallback : BOOLEAN, run : Runs,
                           slot : BOOLEAN, ending : BOOLEAN, live : BOOLEAN]]
  /\ row \in [Children -> Runs]
  /\ job \in [Children -> [Threads -> Jobs]]
  /\ wait \in [Children -> {"none", "spawning", "refusing", "failing", "starting",
                            "waiting", "unbounded", "detaching"}]
  /\ pending \in Seq(Children) /\ running \in Nat
  /\ turn \in {"running", "stopping", "idle", "waking"}
  /\ wake \in [Wakers -> [due : BOOLEAN, pc : {"idle", "claimed", "started"},
                          runs : SUBSET Children]]
  /\ left \in Scenarios
  /\ log \in [Children -> Nat]

\* A completed, failed or cancelled row stays what it is: no late save of a
\* spawn, a pause, a kill or a detach undoes what terminalize wrote.
TerminalSticks ==
  [][\A c \in Children : row[c].state \in Terminal \ {"interrupted"}
                           => row'[c].state = row[c].state]_vars

\* A slot is taken and given back exactly once, whoever ends the child:
\* r.running is the number of children in r.active that hold one. No more of
\* them than the limit run, and one more if a parent delegates.
AdmissionBound ==
  LET Slots == {c \in Children : mem[c].slot}
      Run == {c \in Slots : ~mem[c].ending}
  IN /\ running = Cardinality(Slots)
     /\ \A c \in Slots : mem[c].in
     /\ MaxConcurrency > 0 =>
          Cardinality(Run) <= MaxConcurrency + (IF Run \cap Nested = {} THEN 0 ELSE 1)

\* The completion or the failure of a child starts at most one wake turn in
\* the life of a process, whatever reads, turns and children end meanwhile.
NoSecondWake == \A c \in Children : log[c] <= 1

\* A kill came between the two steps in which execute marks a child running
\* and saves it: each thread leaves the end to the other.
Abandoned(c) ==
  /\ mem[c].in /\ ~mem[c].ending /\ mem[c].run.state = "cancelling"
  /\ At(c, "exec") = "done" /\ At(c, "cancel") = "idle"

\* The children that were spawned end, and with them the parents' waits: the
\* child of a parent that holds the last slot is admitted.
EventuallyEnds ==
  (\E c \in Children : mem[c].in)
    ~> \/ \A c \in Children : ~mem[c].in
       \/ \E c \in Children : Abandoned(c)
=============================================================================
