---------------------------- MODULE PromptQueue ----------------------------
(***************************************************************************)
(* The durable prompt queues and the daemons that dispatch them.           *)
(*                                                                         *)
(* A session's queue is one row with a revision; every writer, a client    *)
(* mutation, the coordinator, the end of a run, saves it with a compare-   *)
(* and-swap on the revision it loaded. Each daemon has one slot for the    *)
(* main run (activeRun), one coordinator thread and one wake token.        *)
(*                                                                         *)
(* A load that is followed by a successful save has read the row as it is  *)
(* now, so what a thread keeps of a load is the revision and what it       *)
(* decided. A client mutation (load, check, save at the revision the       *)
(* client expects) is one action for the same reason. Texts, attachments   *)
(* and attempt counters are left out; a mutation that the code refuses     *)
(* changes nothing and is a stuttering step. Database errors are the       *)
(* fault "store" of the coordinator's threads.                             *)
(*                                                                         *)
(* Sources: internal/app/prompt_queue.go, internal/session/prompt_queue.go *)
(* and the turn slot of internal/app/app.go.                               *)
(***************************************************************************)
EXTENDS Naturals, Sequences, FiniteSets

LOCAL INSTANCE SequencesExt

CONSTANTS
  Daemons,       \* workspace daemons on the one database
  Sessions,      \* session ids, in their order: 1..n
  Items,         \* queue item ids
  Home,          \* the daemon whose clients work with a session
  NoItem,        \* the item of a turn that no queue started
  CASAttempts,   \* attempts of a load-and-save loop: 4
  MaxQueueItems, \* capacity of a queue (MaxPromptQueueItems)
  ClientOps,     \* the operations clients use
  Outcomes,      \* how runs may end
  Faults,        \* "crash", "start" (turns that fail to start), "store"
  MaxMutations,  \* bound: client mutations
  MaxTurns,      \* bound: turns that clients start themselves
  MaxCrashes     \* bound: daemon crashes

AllOps == {"update", "remove", "reorder", "retry", "pause", "resume", "guide"}

ASSUME PromptQueueAssumption ==
  /\ IsFiniteSet(Sessions) /\ Sessions # {}
  /\ Sessions = 1..Cardinality(Sessions)
  /\ Home \in [Sessions -> Daemons]
  /\ IsFiniteSet(Items) /\ NoItem \notin Items
  /\ CASAttempts \in Nat \ {0} /\ MaxQueueItems \in Nat
  /\ ClientOps \subseteq AllOps
  /\ Outcomes \subseteq {"completed", "stopped", "suspended"}
  /\ Faults \subseteq {"crash", "start", "store"}
  /\ MaxMutations \in Nat /\ MaxTurns \in Nat /\ MaxCrashes \in Nat

VARIABLES
  queue,     \* the rows: revision, state and items of each session
  runs,      \* the durable runs that carry an item's id, oldest first
  born,      \* creation time of an item, 0 before it is enqueued
  withdrawn, \* items that a client removed or that became guidance
  slot,      \* activeRun, activeSession and what they stand for
  ending,    \* the end of a run that is pausing its session's queue
  wake,      \* the token in promptQueueWake
  pc,        \* where the coordinator is; "off" when the daemon is down
  pick,      \* what the coordinator works on
  proof,     \* reconciliation: the listed revisions and the evidence read
  budget     \* what is left of the bounds

vars == <<queue, runs, born, withdrawn, slot, ending, wake, pc, pick, proof,
          budget>>

slotVars == <<slot, ending>>
coordVars == <<pc, pick, proof>>
rowVars == <<queue, runs, born, withdrawn>>

ItemStates == {"queued", "dispatching", "failed"}
RunStates == {"open", "aborted", "completed", "stopped", "suspended"}
PCs == {"off", "list", "evidence", "reconcile", "wait", "check", "scan",
        "claim", "start", "starting", "recorded", "load", "save"}
Todos == {"consume", "reset", "fail"}

FreeSlot == [kind |-> "free", session |-> 0, item |-> NoItem, run |-> 0]
NotEnding == [step |-> "no", outcome |-> "completed", rev |-> 0, tries |-> 0]
NoPick == [at |-> 0, session |-> 0, item |-> NoItem, rev |-> 0, tries |-> 0,
           todo |-> "consume"]
NoProof == [listed |-> [s \in Sessions |-> 0], evidence |-> {}]

-----------------------------------------------------------------------------
(* The rows *)

promptQueueItemIndex(items, i) ==
  IF \E n \in 1..Len(items) : items[n].id = i
  THEN CHOOSE n \in 1..Len(items) : items[n].id = i
  ELSE 0

\* The state of an item in a sequence of items, and in the row of a session.
stateIn(items, i) ==
  LET n == promptQueueItemIndex(items, i)
  IN IF n = 0 THEN "absent" ELSE items[n].state

stateOf(s, i) == stateIn(queue[s].items, i)

editableQueuedPrompt(state) == state \in {"queued", "failed"}

\* Mutant: a save that does not look at the revision.
SaveBlindly(s, rev, state, items) ==
  queue' = [queue EXCEPT ![s] = [rev |-> rev + 1, state |-> state,
                                 items |-> items]]

\* A save whose expected revision is the one of the row.
SavePromptQueueCAS(s, rev, state, items) ==
  /\ queue[s].rev = rev
  /\ queue' = [queue EXCEPT ![s] = [rev |-> rev + 1, state |-> state,
                                    items |-> items]]

Without(items, i) == RemoveAt(items, promptQueueItemIndex(items, i))

WithState(items, i, state) ==
  [n \in 1..Len(items) |->
    IF items[n].id = i THEN [id |-> i, state |-> state] ELSE items[n]]

\* What a restart finds of an item: a user block or a durable run names it.
Evidence == {i \in Items : runs[i] # <<>>}

-----------------------------------------------------------------------------
(* The daemon's lock and its slot *)

\* emitTerminal holds s.mu while it pauses the queue.
muFree(d) == ending[d].step = "no" \/ ending[d].outcome = "suspended"

busy(d) == slot[d].kind # "free"

\* The durable outcome of the run in d's slot; other turns are not recorded.
RunEnds(d, state) ==
  IF slot[d].item = NoItem
  THEN UNCHANGED runs
  ELSE runs' = [runs EXCEPT ![slot[d].item][slot[d].run] = state]

-----------------------------------------------------------------------------
Init ==
  /\ queue = [s \in Sessions |-> [rev |-> 0, state |-> "active", items |-> <<>>]]
  /\ runs = [i \in Items |-> <<>>]
  /\ born = [i \in Items |-> 0]
  /\ withdrawn = {}
  /\ slot = [d \in Daemons |-> FreeSlot]
  /\ ending = [d \in Daemons |-> NotEnding]
  /\ wake = [d \in Daemons |-> FALSE]
  /\ pc = [d \in Daemons |-> "off"]
  /\ pick = [d \in Daemons |-> NoPick]
  /\ proof = [d \in Daemons |-> NoProof]
  /\ budget = [mutations |-> MaxMutations, turns |-> MaxTurns,
               crashes |-> MaxCrashes]

-----------------------------------------------------------------------------
(* Daemon life *)

\* StartRuntime: the coordinator starts, with a wake token.
StartPromptQueueCoordinator(d) ==
  /\ pc[d] = "off"
  /\ pc' = [pc EXCEPT ![d] = "list"]
  /\ wake' = [wake EXCEPT ![d] = TRUE]
  /\ UNCHANGED <<rowVars, slotVars, pick, proof, budget>>

\* Only the rows and the runs survive.
Crash(d) ==
  /\ "crash" \in Faults
  /\ budget.crashes > 0
  /\ pc[d] # "off"
  /\ pc' = [pc EXCEPT ![d] = "off"]
  /\ pick' = [pick EXCEPT ![d] = NoPick]
  /\ proof' = [proof EXCEPT ![d] = NoProof]
  /\ slot' = [slot EXCEPT ![d] = FreeSlot]
  /\ ending' = [ending EXCEPT ![d] = NotEnding]
  /\ wake' = [wake EXCEPT ![d] = FALSE]
  /\ budget' = [budget EXCEPT !.crashes = @ - 1]
  /\ UNCHANGED rowVars

-----------------------------------------------------------------------------
(* Client mutations (MutatePromptQueue) *)

Mutation(s, op) ==
  /\ op \in ClientOps \cup {"enqueue"}
  /\ pc[Home[s]] # "off"
  /\ budget.mutations > 0
  /\ budget' = [budget EXCEPT !.mutations = @ - 1]
  /\ UNCHANGED <<slotVars, coordVars, runs>>

Wakes(s) == wake' = [wake EXCEPT ![Home[s]] = TRUE]

\* Item ids are fresh; a queue at its capacity refuses the item.
Enqueue(s, i) ==
  /\ Mutation(s, "enqueue")
  /\ born[i] = 0
  /\ Len(queue[s].items) < MaxQueueItems
  /\ SavePromptQueueCAS(s, queue[s].rev, queue[s].state,
       Append(queue[s].items, [id |-> i, state |-> "queued"]))
  /\ born' = [born EXCEPT ![i] =
                Cardinality({j \in Items : born[j] # 0}) + 1]
  /\ Wakes(s)
  /\ UNCHANGED withdrawn

\* A new text for the row: only the revision is visible here.
Update(s, i) ==
  /\ Mutation(s, "update")
  /\ editableQueuedPrompt(stateOf(s, i))
  /\ SavePromptQueueCAS(s, queue[s].rev, queue[s].state, queue[s].items)
  /\ UNCHANGED <<born, withdrawn, wake>>

\* Mutant: a dispatching row can be removed.
RemoveAny(s, i) ==
  /\ Mutation(s, "remove")
  /\ stateOf(s, i) # "absent"
  /\ SavePromptQueueCAS(s, queue[s].rev, queue[s].state,
                        Without(queue[s].items, i))
  /\ withdrawn' = withdrawn \cup {i}
  /\ UNCHANGED <<born, wake>>

RemoveItem(s, i) ==
  /\ Mutation(s, "remove")
  /\ editableQueuedPrompt(stateOf(s, i))
  /\ SavePromptQueueCAS(s, queue[s].rev, queue[s].state,
                        Without(queue[s].items, i))
  /\ withdrawn' = withdrawn \cup {i}
  /\ UNCHANGED <<born, wake>>

\* Move item i in front of item before, or to the end.
Reorder(s, i, before) ==
  /\ Mutation(s, "reorder")
  /\ editableQueuedPrompt(stateOf(s, i))
  /\ before # i
  /\ LET rest == Without(queue[s].items, i)
         row == queue[s].items[promptQueueItemIndex(queue[s].items, i)]
         n == promptQueueItemIndex(rest, before)
     IN /\ before # NoItem => n # 0
        /\ SavePromptQueueCAS(s, queue[s].rev, queue[s].state,
             IF before = NoItem THEN Append(rest, row)
                                ELSE InsertAt(rest, n, row))
  /\ UNCHANGED <<born, withdrawn, wake>>

Retry(s, i) ==
  /\ Mutation(s, "retry")
  /\ stateOf(s, i) = "failed"
  /\ SavePromptQueueCAS(s, queue[s].rev, queue[s].state,
                        WithState(queue[s].items, i, "queued"))
  /\ Wakes(s)
  /\ UNCHANGED <<born, withdrawn>>

Pause(s) ==
  /\ Mutation(s, "pause")
  /\ SavePromptQueueCAS(s, queue[s].rev, "paused", queue[s].items)
  /\ UNCHANGED <<born, withdrawn, wake>>

Resume(s) ==
  /\ Mutation(s, "resume")
  /\ SavePromptQueueCAS(s, queue[s].rev, "active", queue[s].items)
  /\ Wakes(s)
  /\ UNCHANGED <<born, withdrawn>>

\* guideQueuedPrompt: the row becomes a guidance block of the session's own
\* active run, in one transaction and under s.mu.
Guide(s, i) ==
  /\ Mutation(s, "guide")
  /\ editableQueuedPrompt(stateOf(s, i))
  /\ muFree(Home[s])
  /\ slot[Home[s]].kind = "running" /\ slot[Home[s]].session = s
  /\ SavePromptQueueCAS(s, queue[s].rev, queue[s].state,
                        Without(queue[s].items, i))
  /\ withdrawn' = withdrawn \cup {i}
  /\ UNCHANGED <<born, wake>>

-----------------------------------------------------------------------------
(* The turn slot: turns of clients, and the end of every run *)

\* A client's turn, or another holder of the slot (branch switch, compaction,
\* a resumed run), reserves it.
ReserveTurn(d, s) ==
  /\ pc[d] # "off" /\ Home[s] = d
  /\ budget.turns > 0
  /\ muFree(d) /\ ~busy(d)
  /\ slot' = [slot EXCEPT ![d] = [FreeSlot EXCEPT !.kind = "reserved",
                                                  !.session = s]]
  /\ budget' = [budget EXCEPT !.turns = @ - 1]
  /\ UNCHANGED <<rowVars, ending, wake, coordVars>>

BeginTurn(d) ==
  /\ slot[d].kind = "reserved"
  /\ slot' = [slot EXCEPT ![d].kind = "running"]
  /\ UNCHANGED <<rowVars, ending, wake, coordVars, budget>>

\* clearRun: the reservation ends without a run, and nobody is woken.
ReleaseTurn(d) ==
  /\ slot[d].kind = "reserved"
  /\ slot' = [slot EXCEPT ![d] = FreeSlot]
  /\ UNCHANGED <<rowVars, ending, wake, coordVars, budget>>

\* Mutant: the end of a run does not wake the coordinator.
CompleteSilently(d) ==
  /\ "completed" \in Outcomes
  /\ slot[d].kind = "running" /\ ending[d] = NotEnding
  /\ RunEnds(d, "completed")
  /\ slot' = [slot EXCEPT ![d] = FreeSlot]
  /\ UNCHANGED <<queue, born, withdrawn, ending, wake, coordVars, budget>>

\* emitTerminal of a completed run.
CompleteRun(d) ==
  /\ "completed" \in Outcomes
  /\ slot[d].kind = "running" /\ ending[d] = NotEnding
  /\ RunEnds(d, "completed")
  /\ slot' = [slot EXCEPT ![d] = FreeSlot]
  /\ wake' = [wake EXCEPT ![d] = TRUE]
  /\ UNCHANGED <<queue, born, withdrawn, ending, coordVars, budget>>

\* A run that failed, was cancelled or is suspended pauses the queue of its
\* session before it gives up the slot.
StopRun(d, outcome) ==
  /\ outcome \in Outcomes \ {"completed"}
  /\ slot[d].kind = "running" /\ ending[d] = NotEnding
  /\ ending' = [ending EXCEPT ![d] = [step |-> "load", outcome |-> outcome,
                                      rev |-> 0, tries |-> 0]]
  /\ UNCHANGED <<rowVars, slot, wake, coordVars, budget>>

FreeAfterStop(d) ==
  /\ RunEnds(d, ending[d].outcome)
  /\ slot' = [slot EXCEPT ![d] = FreeSlot]
  /\ ending' = [ending EXCEPT ![d] = NotEnding]

PauseLoad(d) ==
  /\ ending[d].step = "load"
  /\ LET q == queue[slot[d].session]
     IN IF q.items = <<>> \/ q.state = "paused"
        THEN FreeAfterStop(d)
        ELSE /\ ending' = [ending EXCEPT ![d].step = "save", ![d].rev = q.rev]
             /\ UNCHANGED <<slot, runs>>
  /\ UNCHANGED <<queue, born, withdrawn, wake, coordVars, budget>>

PauseSave(d) ==
  /\ ending[d].step = "save"
  /\ LET s == slot[d].session
     IN \/ /\ SavePromptQueueCAS(s, ending[d].rev, "paused", queue[s].items)
           /\ FreeAfterStop(d)
        \/ /\ queue[s].rev # ending[d].rev
           /\ UNCHANGED queue
           /\ IF ending[d].tries + 1 = CASAttempts
              THEN FreeAfterStop(d)
              ELSE /\ ending' = [ending EXCEPT ![d].step = "load",
                                               ![d].tries = @ + 1]
                   /\ UNCHANGED <<slot, runs>>
  /\ UNCHANGED <<born, withdrawn, wake, coordVars, budget>>

-----------------------------------------------------------------------------
(* Reconciliation, once per start of the coordinator *)

Goto(d, label) == pc' = [pc EXCEPT ![d] = label]

ReconcileList(d) ==
  /\ pc[d] = "list"
  /\ proof' = [proof EXCEPT ![d].listed = [s \in Sessions |-> queue[s].rev]]
  /\ pick' = [pick EXCEPT ![d] = [NoPick EXCEPT !.at = 1]]
  /\ Goto(d, "evidence")
  /\ UNCHANGED <<rowVars, slotVars, wake, budget>>

\* The session's blocks are read after its row.
ReconcileEvidence(d) ==
  /\ pc[d] = "evidence"
  /\ proof' = [proof EXCEPT ![d].evidence = Evidence]
  /\ Goto(d, "reconcile")
  /\ UNCHANGED <<rowVars, slotVars, wake, pick, budget>>

\* Mutant: every dispatching row is queued again.
RequeueAll(items, evidence) ==
  [n \in 1..Len(items) |-> [id |-> items[n].id,
     state |-> IF items[n].state = "failed" THEN "failed" ELSE "queued"]]

\* Mutant: every dispatching row counts as consumed.
ConsumeAll(items, evidence) ==
  SelectSeq(items, LAMBDA x : x.state # "dispatching")

\* Dispatching rows with evidence are consumed, the others queued again.
Reconciled(items, evidence) ==
  LET kept == {n \in DOMAIN items :
                 items[n].state = "dispatching" => items[n].id \notin evidence}
      nth(k) == CHOOSE n \in kept : Cardinality(kept \cap 1..n) = k
  IN [k \in 1..Cardinality(kept) |->
       [id |-> items[nth(k)].id,
        state |-> IF items[nth(k)].state = "dispatching"
                  THEN "queued" ELSE items[nth(k)].state]]

\* A queue that changed since it was listed is left as it is.
ReconcileSave(d) ==
  LET s == pick[d].at
      items == Reconciled(queue[s].items, proof[d].evidence)
  IN /\ pc[d] = "reconcile"
     /\ IF queue[s].rev = proof[d].listed[s] /\ items # queue[s].items
        THEN SavePromptQueueCAS(s, proof[d].listed[s], queue[s].state, items)
        ELSE UNCHANGED queue
     /\ IF s = Cardinality(Sessions)
        THEN /\ Goto(d, "wait")
             /\ pick' = [pick EXCEPT ![d] = NoPick]
             /\ proof' = [proof EXCEPT ![d] = NoProof]
        ELSE /\ Goto(d, "evidence")
             /\ pick' = [pick EXCEPT ![d].at = s + 1]
             /\ proof' = [proof EXCEPT ![d].evidence = {}]
     /\ UNCHANGED <<runs, born, withdrawn, slotVars, wake, budget>>

-----------------------------------------------------------------------------
(* Dispatch (dispatchNextQueuedPrompt) *)

Wait(d) ==
  /\ Goto(d, "wait")
  /\ pick' = [pick EXCEPT ![d] = NoPick]

TakeWake(d) ==
  /\ pc[d] = "wait" /\ wake[d]
  /\ wake' = [wake EXCEPT ![d] = FALSE]
  /\ Goto(d, "check")
  /\ UNCHANGED <<rowVars, slotVars, pick, proof, budget>>

CheckBusy(d) ==
  /\ pc[d] = "check" /\ muFree(d)
  /\ IF busy(d)
     THEN Wait(d)
     ELSE /\ Goto(d, "scan")
          /\ pick' = [pick EXCEPT ![d] = [NoPick EXCEPT !.at = 1]]
  /\ UNCHANGED <<rowVars, slotVars, wake, proof, budget>>

Dispatchable(s) ==
  /\ queue[s].state = "active"
  /\ queue[s].items # <<>> /\ Head(queue[s].items).state = "queued"

\* The oldest head so far; equal times cannot occur here.
Older(d, s) ==
  /\ Dispatchable(s)
  /\ \/ pick[d].item = NoItem
     \/ born[Head(queue[s].items).id] < born[pick[d].item]

\* The queues are loaded one by one, in the order of their session ids.
Scan(d) ==
  /\ pc[d] = "scan"
  /\ LET s == pick[d].at
         best == IF Older(d, s)
                 THEN [pick[d] EXCEPT !.session = s, !.rev = queue[s].rev,
                                      !.item = Head(queue[s].items).id]
                 ELSE pick[d]
     IN \/ /\ s < Cardinality(Sessions)
           /\ pick' = [pick EXCEPT ![d] = [best EXCEPT !.at = s + 1]]
           /\ UNCHANGED pc
        \/ /\ s = Cardinality(Sessions) /\ best.item = NoItem
           /\ Wait(d)
        \/ /\ s = Cardinality(Sessions) /\ best.item # NoItem
           /\ pick' = [pick EXCEPT ![d] = [best EXCEPT !.at = 0]]
           /\ Goto(d, "claim")
  /\ UNCHANGED <<rowVars, slotVars, wake, proof, budget>>

\* A conflict abandons the round, also when the row is still dispatchable.
Claim(d) ==
  /\ pc[d] = "claim"
  /\ LET s == pick[d].session
     IN \/ /\ SavePromptQueueCAS(s, pick[d].rev, "active",
                WithState(queue[s].items, pick[d].item, "dispatching"))
           /\ Goto(d, "start")
           /\ pick' = [pick EXCEPT ![d].rev = 0]
        \/ /\ queue[s].rev # pick[d].rev
           /\ Wait(d)
           /\ UNCHANGED queue
  /\ UNCHANGED <<runs, born, withdrawn, slotVars, wake, proof, budget>>

\* What remains is to bring the row to its outcome.
Settle(d, todo) ==
  /\ Goto(d, "load")
  /\ pick' = [pick EXCEPT ![d].todo = todo]

\* StartConfiguredTurn up to the reservation of the slot.
StartTurn(d) ==
  /\ pc[d] = "start" /\ muFree(d)
  /\ IF busy(d)
     THEN Settle(d, "reset") /\ UNCHANGED slot
     ELSE /\ Goto(d, "starting")
          /\ slot' = [slot EXCEPT ![d] = [FreeSlot EXCEPT
                        !.kind = "starting", !.session = pick[d].session]]
          /\ UNCHANGED pick
  /\ UNCHANGED <<rowVars, ending, wake, proof, budget>>

\* The durable run and the user block carry the item's id.
RecordRun(d) ==
  /\ pc[d] = "starting"
  /\ runs' = [runs EXCEPT ![pick[d].item] = Append(@, "open")]
  /\ slot' = [slot EXCEPT ![d].item = pick[d].item,
                          ![d].run = Len(runs[pick[d].item]) + 1]
  /\ Goto(d, "recorded")
  /\ UNCHANGED <<queue, born, withdrawn, ending, wake, pick, proof, budget>>

HandOff(d) ==
  /\ pc[d] = "recorded"
  /\ slot' = [slot EXCEPT ![d].kind = "running"]
  /\ Settle(d, "consume")
  /\ UNCHANGED <<rowVars, ending, wake, proof, budget>>

\* The session cannot be loaded or the turn cannot be started: before the
\* slot is reserved, before the run is recorded, or after (the run is then
\* completed with the error).
StartFails(d) ==
  /\ "start" \in Faults
  /\ pc[d] \in {"start", "starting", "recorded"}
  /\ IF pc[d] = "recorded" THEN RunEnds(d, "aborted") ELSE UNCHANGED runs
  /\ slot' = IF pc[d] = "start" THEN slot
                                ELSE [slot EXCEPT ![d] = FreeSlot]
  /\ Settle(d, "fail")
  /\ UNCHANGED <<queue, born, withdrawn, ending, wake, proof, budget>>

\* The end of a round: after a failure the next row is tried at once.
NextRound(d) ==
  /\ Goto(d, IF pick[d].todo = "fail" THEN "check" ELSE "wait")
  /\ pick' = [pick EXCEPT ![d] = NoPick]

SettleLoad(d) ==
  /\ pc[d] = "load"
  /\ IF stateOf(pick[d].session, pick[d].item) # "dispatching"
     THEN NextRound(d)
     ELSE /\ Goto(d, "save")
          /\ pick' = [pick EXCEPT ![d].rev = queue[pick[d].session].rev]
  /\ UNCHANGED <<rowVars, slotVars, wake, proof, budget>>

Outcome(d) ==
  LET items == queue[pick[d].session].items
  IN CASE pick[d].todo = "consume" -> Without(items, pick[d].item)
       [] pick[d].todo = "reset" -> WithState(items, pick[d].item, "queued")
       [] pick[d].todo = "fail" -> WithState(items, pick[d].item, "failed")

\* consumeDispatchedPrompt and updateDispatchedPrompt.
SettleSave(d) ==
  /\ pc[d] = "save"
  /\ LET s == pick[d].session
     IN \/ /\ SavePromptQueueCAS(s, pick[d].rev, queue[s].state, Outcome(d))
           /\ NextRound(d)
        \/ /\ queue[s].rev # pick[d].rev
           /\ UNCHANGED queue
           /\ IF pick[d].tries + 1 = CASAttempts
              THEN NextRound(d)
              ELSE /\ Goto(d, "load")
                   /\ pick' = [pick EXCEPT ![d].tries = @ + 1]
  /\ UNCHANGED <<runs, born, withdrawn, slotVars, wake, proof, budget>>

\* A database error ends what the coordinator is doing: reconciliation is
\* given up, a scan or a claim ends the round, and a row stays as it is.
StoreFails(d) ==
  /\ "store" \in Faults
  /\ pc[d] \in {"list", "evidence", "reconcile", "scan", "claim", "load", "save"}
  /\ proof' = [proof EXCEPT ![d] = NoProof]
  /\ IF pc[d] \in {"load", "save"} THEN NextRound(d) ELSE Wait(d)
  /\ UNCHANGED <<rowVars, slotVars, wake, budget>>

-----------------------------------------------------------------------------
Mutate ==
  \E s \in Sessions :
    \/ Pause(s)
    \/ Resume(s)
    \/ \E i \in Items :
         \/ Enqueue(s, i)
         \/ Update(s, i)
         \/ RemoveItem(s, i)
         \/ Retry(s, i)
         \/ Guide(s, i)
         \/ \E before \in Items \cup {NoItem} : Reorder(s, i, before)

EndRun(d) ==
  \/ CompleteRun(d)
  \/ \E outcome \in Outcomes : StopRun(d, outcome)
  \/ PauseLoad(d)
  \/ PauseSave(d)

Coordinate(d) ==
  \/ ReconcileList(d)
  \/ ReconcileEvidence(d)
  \/ ReconcileSave(d)
  \/ TakeWake(d)
  \/ CheckBusy(d)
  \/ Scan(d)
  \/ Claim(d)
  \/ StartTurn(d)
  \/ RecordRun(d)
  \/ HandOff(d)
  \/ SettleLoad(d)
  \/ SettleSave(d)

Next ==
  \/ Mutate
  \/ \E d \in Daemons :
       \/ StartPromptQueueCoordinator(d)
       \/ Crash(d)
       \/ \E s \in Sessions : ReserveTurn(d, s)
       \/ BeginTurn(d)
       \/ ReleaseTurn(d)
       \/ EndRun(d)
       \/ Coordinate(d)
       \/ StartFails(d)
       \/ StoreFails(d)

Spec == Init /\ [][Next]_vars

\* The coordinator thread and the thread that ends a run keep running; a
\* reserved turn either begins or is released. Clients owe nothing.
FairSpec ==
  /\ Spec
  /\ \A d \in Daemons : /\ WF_vars(Coordinate(d))
                        /\ WF_vars(PauseLoad(d) \/ PauseSave(d))
                        /\ WF_vars(BeginTurn(d) \/ ReleaseTurn(d))

-----------------------------------------------------------------------------
(* Properties *)

ItemType == [id : Items, state : ItemStates]

RowType == [rev : Nat, state : {"active", "paused"}, items : Seq(ItemType)]

SlotType == [kind : {"free", "reserved", "starting", "running"},
             session : Sessions \cup {0}, item : Items \cup {NoItem}, run : Nat]

EndingType == [step : {"no", "load", "save"}, outcome : Outcomes \cup {"completed"},
               rev : Nat, tries : Nat]

PickType == [at : Nat, session : Sessions \cup {0}, item : Items \cup {NoItem},
             rev : Nat, tries : Nat, todo : Todos]

ProofType == [listed : [Sessions -> Nat], evidence : SUBSET Items]

UniqueIds(items) ==
  \A m, n \in DOMAIN items : items[m].id = items[n].id => m = n

\* The type invariant. A queue never holds an id twice (validatePromptQueue
\* refuses such a row, which would make the queue unreadable) and never more
\* than its capacity.
TypeOK ==
  /\ queue \in [Sessions -> RowType]
  /\ \A s \in Sessions : /\ Len(queue[s].items) <= MaxQueueItems
                         /\ UniqueIds(queue[s].items)
  /\ runs \in [Items -> Seq(RunStates)]
  /\ born \in [Items -> Nat]
  /\ withdrawn \subseteq Items
  /\ slot \in [Daemons -> SlotType]
  /\ ending \in [Daemons -> EndingType]
  /\ wake \in [Daemons -> BOOLEAN]
  /\ pc \in [Daemons -> PCs]
  /\ pick \in [Daemons -> PickType]
  /\ proof \in [Daemons -> ProofType]
  /\ budget \in [mutations : Nat, turns : Nat, crashes : Nat]

\* The runs of an item that execute it, have executed it or can be resumed.
Turns(i) == {n \in 1..Len(runs[i]) : runs[i][n] # "aborted"}

InQueue(i) == \E s \in Sessions : stateOf(s, i) # "absent"

\* One queued prompt is executed at most once: whatever the crashes, retries,
\* failed starts and reconciliations, no item id is carried by two runs that
\* were not aborted at their start.
AtMostOneTurn == \A i \in Items : Cardinality(Turns(i)) <= 1

\* No prompt disappears: an accepted item is in a queue until a client
\* withdraws it or a run carries its id. It must survive concurrent saves of
\* the row, a crash at any point of its dispatch, and reconciliation.
NoPromptLost ==
  \A i \in Items :
    born[i] # 0 => InQueue(i) \/ i \in withdrawn \/ runs[i] # <<>>

\* A prompt has one fate: one that a client removed or turned into guidance
\* is in no queue and has no turn, and one that a client may still edit,
\* remove or guide (queued or failed) has no turn yet.
OneFate ==
  \A i \in Items :
    /\ i \in withdrawn => ~InQueue(i) /\ Turns(i) = {}
    /\ (\E s \in Sessions : editableQueuedPrompt(stateOf(s, i)))
         => Turns(i) = {}

\* A row becomes dispatching only as the head of a queue that is not paused
\* at that moment, although the coordinator decided on an older load.
ClaimRespectsPause ==
  [][\A s \in Sessions, i \in Items :
       stateOf(s, i) = "queued" /\ stateOf(s, i)' = "dispatching"
         => /\ queue[s].state = "active"
            /\ Head(queue[s].items).id = i]_vars

\* docs/desktop.md: the daemon dispatches a row "after the global main run
\* becomes available". A queue that can be dispatched does not stay so for
\* ever while the slot of its daemon stays free.
\* It may, when a client's edit makes the claim fail (dispatchNextQueuedPrompt then
\* gives up the round and an edit wakes nobody) or a run does not complete.
DispatchedWhenAvailable ==
  \A s \in Sessions :
    []<>~(Dispatchable(s) /\ pc[Home[s]] # "off" /\ ~busy(Home[s]))
=============================================================================
