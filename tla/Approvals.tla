------------------------------ MODULE Approvals ------------------------------
(***************************************************************************)
(* The approvals of one main run of internal/app and internal/agent: the   *)
(* tool calls that need one (PrepareDriver, awaitApproval), the ways in    *)
(* which it is decided (the user, Full Access mode, the automatic review,  *)
(* a permission hook, the recovery notice of an earlier process), the      *)
(* durable decision, and the restart that finds it again.                  *)
(*                                                                         *)
(* The commands of the clients are the requests that the sequencer of      *)
(* internal/desktopipc runs one at a time: cmd is the one it runs now.     *)
(* Scopes stand for policy fingerprints; texts, risks and events are left  *)
(* out.                                                                    *)
(***************************************************************************)
EXTENDS Naturals, FiniteSets

CONSTANTS
  Ops,          \* the tool operations of the run that need an approval
  Scope,        \* Ops -> scope: the fingerprint of an operation's policy scope
  NoOp,         \* no operation: what a command without a target carries
  Configured,   \* bound: the approval modes that the first process may start with
  MaxCommands,  \* bound: commands that the clients send
  MaxCrashes    \* bound: process ends

ASSUME NoOpAssumption == NoOp \notin Ops
ASSUME BoundAssumption == MaxCommands \in Nat /\ MaxCrashes \in Nat

Scopes == {Scope[op] : op \in Ops}
Modes == {"prompt", "auto_review", "yolo"}
Answers == {"once", "session", "denied"}

ASSUME ConfiguredAssumption == Configured \subseteq Modes

VARIABLES
  \* ---- durable
  durable,   \* the approval record of an operation
  expired,   \* operations whose approval record is older than its lifetime
  outcome,   \* what the execution's journal says of an operation
  run,       \* the state of the run: active, suspended or over
  saved,     \* the approval mode in the configuration file
  \* ---- memory of the process
  mode,      \* the approval mode in force
  asked,     \* Run.pending: operations with an approval to resolve
  once,      \* Run.approvedOnce
  grants,    \* ApprovalPolicy.sessionGrants
  recovered, \* Service.recoveredApprovals
  listed,    \* Service.recovery.Approvals: the notices of the last start
  live,      \* Service.liveApprovals: the state of the entry of an operation
  heard,     \* the buffered decision channel of that entry
  call,      \* where the call of an operation is
  ctx,       \* whether the context of the run is done, and why
  cmd,       \* the command that the sequencer runs
  \* ---- bounds and history
  commands,  \* commands sent so far
  crashes,   \* process ends so far
  granted,   \* scopes that were ever granted for a session
  missed,    \* operations decided through a recovery notice after the call of
             \* the run under way had found them undecided
  known      \* operations decided when the run was last started

stored == <<durable, expired, outcome, run, saved>>
memory == <<mode, asked, once, grants, recovered, listed>>
waiting == <<live, heard>>
bounds == <<commands, crashes>>
history == <<granted, missed, known>>
vars == <<stored, memory, waiting, call, ctx, cmd, bounds, history>>

Decided(op) == durable[op] \in {"approved", "rejected"}

\* The mode that a decision is recorded as.
decisionOf(m) == IF m = "denied" THEN "rejected" ELSE "approved"

-----------------------------------------------------------------------------
(* The durable decision.                                                   *)

\* decideApproval: one transaction, and only a pending approval is decided.
decideApproval(op, m) ==
  /\ durable[op] = "pending"
  /\ durable' = [durable EXCEPT ![op] = decisionOf(m)]

GrantSession(op, m) ==
  /\ grants' = IF m = "session" THEN grants \cup {Scope[op]} ELSE grants
  /\ granted' = IF m = "session" THEN granted \cup {Scope[op]} ELSE granted

\* agent.Service.ResolveApproval, on the Run of the waiting call.
ResolveApproval(op, m) ==
  /\ op \in asked
  /\ decideApproval(op, m)
  /\ asked' = asked \ {op}
  /\ once' = IF m = "once" THEN once \cup {op} ELSE once
  /\ GrantSession(op, m)

-----------------------------------------------------------------------------
(* The call of an operation.                                               *)

Goto(op, pc) == call' = [call EXCEPT ![op] = pc]

\* Without the durable lookup, the decision of an earlier process is unknown.
PreparedForgetful(op) ==
  IF Scope[op] \in grants \/ op \in once \/ recovered[op] = "approved" THEN "ready"
  ELSE IF recovered[op] = "rejected" THEN "denied" ELSE "asked"

\* A recovered decision counts as an approval whatever it says.
PreparedTrusting(op) ==
  IF Scope[op] \in grants \/ op \in once \/ recovered[op] # "none" THEN "ready"
  ELSE CASE op \in asked -> "asked"
         [] durable[op] = "approved" -> "ready"
         [] durable[op] = "rejected" -> "denied"
         [] durable[op] = "pending" /\ op \in expired -> "failed"
         [] OTHER -> "asked"

\* The early returns of PrepareDriver, in their order.
Prepared(op) ==
  CASE Scope[op] \in grants \/ op \in once -> "ready"
    [] op \in asked -> "asked"
    [] recovered[op] = "approved" -> "ready"
    [] recovered[op] = "rejected" -> "denied"
    [] durable[op] = "approved" -> "ready"
    [] durable[op] = "rejected" -> "denied"
    [] durable[op] = "pending" /\ op \in expired -> "failed"
    [] OTHER -> "asked"

\* consumeRecoveredApproval takes the decision it returns.
Consumes(op) == ~(Scope[op] \in grants \/ op \in once \/ op \in asked)

\* The approval is recorded under an id that the operation determines: one
\* that is pending already is validated and kept.
requestApproval(op) ==
  durable' = [durable EXCEPT ![op] = IF @ = "none" THEN "pending" ELSE @]

PrepareDriver(op) ==
  /\ call[op] \in {"new", "again"}
  /\ LET v == Prepared(op) IN
       /\ Goto(op, IF v = "asked" /\ call[op] = "again" THEN "failed" ELSE v)
       /\ asked' = IF v = "asked" THEN asked \cup {op} ELSE asked
       /\ IF v = "asked" THEN requestApproval(op) ELSE UNCHANGED durable
       /\ recovered' = [recovered EXCEPT ![op] = IF Consumes(op) THEN "none" ELSE @]
  /\ UNCHANGED <<expired, outcome, run, saved, mode, once, grants, listed, waiting, ctx, cmd, bounds, history>>

\* awaitApproval reads the mode once and follows it, whatever it becomes.
ReadMode(op) ==
  /\ call[op] = "asked"
  /\ Goto(op, CASE mode = "yolo" -> "yolo" [] mode = "auto_review" -> "review" [] OTHER -> "hook")
  /\ UNCHANGED <<stored, memory, waiting, ctx, cmd, bounds, history>>

\* Where a decided call goes. A hook may turn a denial into the failure of the call
\* (ErrPreventContinuation), and so does an event that cannot be emitted any more.
Follows(m) ==
  (IF m = "denied" THEN {"denied", "failed"} ELSE {"again"})
    \cup (IF ctx = "live" THEN {} ELSE {"failed"})

\* What the mode, the reviewer or the hook may decide on its own.
Verdicts(op) == IF call[op] = "yolo" THEN {"once"} ELSE {"once", "denied"}

DecidesAlone(op) ==
  /\ call[op] \in {"yolo", "review", "hook"}
  /\ \E m \in Verdicts(op) :
       /\ ResolveApproval(op, m)
       /\ \E pc \in Follows(m) : Goto(op, pc)
  /\ UNCHANGED <<expired, outcome, run, saved, mode, recovered, listed, waiting, ctx, cmd, bounds, missed, known>>

\* The decision could not be recorded, or the review was cancelled.
AloneFails(op) ==
  /\ call[op] \in {"yolo", "review", "hook"}
  /\ Goto(op, "failed")
  /\ UNCHANGED <<stored, memory, waiting, ctx, cmd, bounds, history>>

\* The reviewer denied or timed out, or no hook decided: the user is asked.
Register(op) ==
  /\ call[op] \in {"review", "hook"}
  /\ IF ctx = "shutdown"
       THEN Goto(op, "failed") /\ UNCHANGED live
       ELSE Goto(op, "waiting") /\ live' = [live EXCEPT ![op] = "open"]
  /\ UNCHANGED <<stored, memory, heard, ctx, cmd, bounds, history>>

\* The deferred finishLiveApproval.
finishLiveApproval(op) ==
  /\ live' = [live EXCEPT ![op] = "none"]
  /\ heard' = [heard EXCEPT ![op] = "none"]

Hear(op) ==
  /\ call[op] = "waiting" /\ heard[op] # "none"
  /\ \E pc \in Follows(heard[op]) : Goto(op, pc)
  /\ finishLiveApproval(op)
  /\ UNCHANGED <<stored, memory, ctx, cmd, bounds, history>>

Leave(op) ==
  /\ call[op] = "waiting" /\ ctx # "live"
  /\ Goto(op, "failed")
  /\ finishLiveApproval(op)
  /\ UNCHANGED <<stored, memory, ctx, cmd, bounds, history>>

\* ExecutePreparedDriver runs the operation; a denied call only has a result.
Settle(op) ==
  /\ call[op] \in {"ready", "denied"}
  /\ Goto(op, "done")
  /\ outcome' = [outcome EXCEPT ![op] = IF call[op] = "ready" THEN "executed" ELSE "denied"]
  /\ once' = once \ {op}
  /\ UNCHANGED <<durable, expired, run, saved, mode, asked, grants, recovered, listed, waiting, ctx, cmd, bounds, history>>

CallStep(op) ==
  \/ PrepareDriver(op) \/ ReadMode(op) \/ DecidesAlone(op) \/ AloneFails(op)
  \/ Register(op) \/ Hear(op) \/ Leave(op) \/ Settle(op)

\* The engine gives up the other calls of a turn in which one failed.
EngineCancels ==
  /\ run = "active" /\ ctx = "live"
  /\ \E op \in Ops : call[op] = "failed"
  /\ ctx' = "failed"
  /\ UNCHANGED <<stored, memory, waiting, call, cmd, bounds, history>>

\* The end of the turn frees the run: a stopped or settled run is over, one
\* that ended with an error is suspended at its checkpoint.
TurnEnds ==
  /\ run = "active"
  /\ \A op \in Ops : call[op] \in {"done", "failed"}
  /\ run' = IF ctx = "user" \/ \A op \in Ops : call[op] = "done" THEN "over" ELSE "suspended"
  /\ UNCHANGED <<durable, expired, outcome, saved, memory, waiting, call, ctx, cmd, bounds, history>>

-----------------------------------------------------------------------------
(* The commands of the clients.                                            *)

Idle == [kind |-> "none", at |-> "idle", op |-> NoOp, to |-> "none", prev |-> "none",
         todo |-> {}, bad |-> FALSE]

At(pc) == cmd' = [cmd EXCEPT !.at = pc]

Sends == cmd = Idle /\ commands < MaxCommands /\ commands' = commands + 1

\* ActionResolveApproval: the live approval first, then the recovery notices.
Answer(op, m) ==
  /\ Sends
  /\ \/ /\ live[op] = "open"
        /\ live' = [live EXCEPT ![op] = "resolving"]
        /\ cmd' = [Idle EXCEPT !.kind = "answer", !.at = "decide", !.op = op, !.to = m]
     \/ /\ live[op] = "none" /\ op \in listed
        /\ cmd' = [Idle EXCEPT !.kind = "answer", !.at = "card", !.op = op, !.to = m]
        /\ UNCHANGED live
  /\ UNCHANGED <<stored, memory, heard, call, ctx, crashes, history>>

\* Where a command goes after resolveLiveApproval: one that drains goes on.
Returned(bad) ==
  cmd' = IF cmd.kind = "answer" THEN Idle
         ELSE [cmd EXCEPT !.at = "drain", !.op = NoOp, !.bad = @ \/ bad]

\* The decision that resolveLiveApproval records.
Mode == IF cmd.kind = "answer" THEN cmd.to ELSE "once"

\* resolveLiveApproval outside the lock: the durable decision.
Decide ==
  /\ cmd.at = "decide"
  /\ ResolveApproval(cmd.op, Mode)
  /\ At("deliver")
  /\ UNCHANGED <<expired, outcome, run, saved, mode, recovered, listed, waiting, call, ctx, bounds, missed, known>>

\* It failed: the approval is open again if its call still waits.
DecideFails ==
  /\ cmd.at = "decide"
  /\ live' = [live EXCEPT ![cmd.op] = IF @ = "resolving" THEN "open" ELSE @]
  /\ Returned(live[cmd.op] # "none")
  /\ UNCHANGED <<stored, memory, heard, call, ctx, bounds, history>>

\* Resolved, and nobody is told.
DeliverSilently(op) ==
  IF live[op] = "none" THEN UNCHANGED waiting
  ELSE live' = [live EXCEPT ![op] = "resolved"] /\ UNCHANGED heard

\* The decision is sent without looking whether the call still waits.
DeliverBlindly(op) ==
  /\ live' = [live EXCEPT ![op] = "resolved"]
  /\ heard' = [heard EXCEPT ![op] = Mode]

\* The call hears the decision, unless it has left.
Deliver(op) ==
  IF live[op] = "none" THEN UNCHANGED waiting
  ELSE /\ live' = [live EXCEPT ![op] = "resolved"]
       /\ heard' = [heard EXCEPT ![op] = Mode]

Resolved ==
  /\ cmd.at = "deliver"
  /\ Deliver(cmd.op)
  /\ Returned(FALSE)
  /\ UNCHANGED <<stored, memory, call, ctx, bounds, history>>

\* Where a call has looked for a decision, and will not look again by itself.
HasLooked == {"asked", "yolo", "review", "hook", "waiting"}

\* ResolveRecoveredApproval: the token must be valid, then the decision.
CardDecides ==
  /\ cmd.at = "card" /\ cmd.op \notin expired
  /\ decideApproval(cmd.op, cmd.to)
  /\ missed' = IF call[cmd.op] \in HasLooked THEN missed \cup {cmd.op} ELSE missed
  /\ At("store")
  /\ UNCHANGED <<expired, outcome, run, saved, memory, waiting, call, ctx, bounds, granted, known>>

CardFails ==
  /\ cmd.at = "card"
  /\ cmd' = Idle
  /\ UNCHANGED <<stored, memory, waiting, call, ctx, bounds, history>>

\* The decision is kept for the call that PrepareDriver will see again.
CardStores ==
  /\ cmd.at = "store"
  /\ GrantSession(cmd.op, cmd.to)
  /\ recovered' = [recovered EXCEPT ![cmd.op] = IF cmd.to = "session" THEN @ ELSE decisionOf(cmd.to)]
  /\ At("load")
  /\ UNCHANGED <<stored, mode, asked, once, listed, waiting, call, ctx, bounds, missed, known>>

\* ResumeRunAtOperation: nothing to resume in a run that is over.
CardLoads ==
  /\ cmd.at = "load"
  /\ IF run = "over"
       THEN cmd' = Idle /\ listed' = listed \ {cmd.op}
       ELSE At("claim") /\ UNCHANGED listed
  /\ UNCHANGED <<stored, mode, asked, once, grants, recovered, waiting, call, ctx, bounds, history>>

\* It returns an error before the claim: the session, the plan, the usage or the
\* model cannot be loaded.
LoadFails ==
  /\ cmd.at = "load"
  /\ cmd' = Idle
  /\ UNCHANGED <<stored, memory, waiting, call, ctx, bounds, history>>

\* A run that cannot go on as it was (another workspace or profile, no budget left)
\* is ended or left to a reconciliation, and that is no error. One that is running
\* was not like that when it was resumed.
Discontinue ==
  /\ cmd.at \in {"load", "claim"} /\ run = "suspended" /\ ctx # "shutdown"
  /\ run' = "over"
  /\ cmd' = Idle
  /\ listed' = listed \ {cmd.op}
  /\ UNCHANGED <<durable, expired, outcome, saved, mode, asked, once, grants, recovered, waiting, call, ctx, bounds, history>>

\* A run starts with a fresh Run; what the journal has settled is not called.
Started ==
  /\ run' = "active"
  /\ call' = [op \in Ops |-> IF outcome[op] = "none" THEN "new" ELSE "done"]
  /\ ctx' = "live"
  /\ asked' = {} /\ once' = {}
  /\ live' = [op \in Ops |-> "none"] /\ heard' = [op \in Ops |-> "none"]
  /\ known' = {op \in Ops : Decided(op)} /\ missed' = {}

\* The command polls until no run is active; then it resumes the run.
CardClaims ==
  /\ cmd.at = "claim" /\ run = "suspended" /\ ctx # "shutdown"
  /\ Started
  /\ cmd' = Idle
  /\ listed' = listed \ {cmd.op}
  /\ UNCHANGED <<durable, expired, outcome, saved, mode, grants, recovered, bounds, granted>>

\* The poll does not look at its context.
ClaimIgnoresShutdown ==
  /\ cmd.at = "claim" /\ run = "over"
  /\ cmd' = Idle
  /\ UNCHANGED <<stored, memory, waiting, call, ctx, bounds, history>>

\* The claimed run is over or cannot be resumed (its slot is cleared again), or
\* the process shuts down.
ClaimFails ==
  /\ cmd.at = "claim" /\ (run # "active" \/ ctx = "shutdown")
  /\ cmd' = Idle
  /\ UNCHANGED <<stored, memory, waiting, call, ctx, bounds, history>>

\* setApprovalMode: the mode is in force before anything is saved.
SetApprovalMode(m) ==
  /\ Sends
  /\ mode' = m
  /\ cmd' = [Idle EXCEPT !.kind = "mode", !.to = m, !.prev = mode,
               !.at = IF m = "yolo" THEN "drain" ELSE "persist",
               !.todo = IF m = "yolo" THEN {op \in Ops : live[op] = "open"} ELSE {}]
  /\ UNCHANGED <<stored, asked, once, grants, recovered, listed, waiting, call, ctx, crashes, history>>

\* Full Access resolves the approvals that were open when it was chosen.
Drain ==
  /\ cmd.at = "drain"
  /\ \E op \in cmd.todo :
       IF live[op] = "open"
         THEN /\ live' = [live EXCEPT ![op] = "resolving"]
              /\ cmd' = [cmd EXCEPT !.at = "decide", !.op = op, !.todo = @ \ {op}]
         ELSE /\ cmd' = [cmd EXCEPT !.todo = @ \ {op}]
              /\ UNCHANGED live
  /\ UNCHANGED <<stored, memory, heard, call, ctx, bounds, history>>

\* An approval that could not be resolved takes Full Access back.
Drained ==
  /\ cmd.at = "drain" /\ cmd.todo = {}
  /\ IF cmd.bad
       THEN mode' = "prompt" /\ cmd' = Idle
       ELSE At("persist") /\ UNCHANGED mode
  /\ UNCHANGED <<stored, asked, once, grants, recovered, listed, waiting, call, ctx, bounds, history>>

PersistMode ==
  /\ cmd.at = "persist"
  /\ cmd' = Idle
  /\ \/ saved' = cmd.to /\ UNCHANGED mode
     \/ mode' = cmd.prev /\ UNCHANGED saved
  /\ UNCHANGED <<durable, expired, outcome, run, asked, once, grants, recovered, listed, waiting, call, ctx, bounds, history>>

\* CancelActive: the user stops the run.
CancelActive ==
  /\ Sends
  /\ run = "active"
  /\ ctx' = "user"
  /\ UNCHANGED <<stored, memory, waiting, call, cmd, crashes, history>>

CommandStep ==
  \/ Decide \/ DecideFails \/ Resolved
  \/ CardDecides \/ CardFails \/ CardStores \/ CardLoads \/ LoadFails
  \/ Discontinue \/ CardClaims \/ ClaimFails
  \/ Drain \/ Drained \/ PersistMode

-----------------------------------------------------------------------------
(* Time, shutdown and restart.                                             *)

\* approvalResumeLifetime passes for a pending approval.
Expire(op) ==
  /\ durable[op] = "pending" /\ op \notin expired
  /\ expired' = expired \cup {op}
  /\ UNCHANGED <<durable, outcome, run, saved, memory, waiting, call, ctx, cmd, bounds, history>>

Shutdown ==
  /\ ctx # "shutdown"
  /\ ctx' = "shutdown"
  /\ UNCHANGED <<stored, memory, waiting, call, cmd, bounds, history>>

\* The process ends at any point; the next one recovers: RecoverPrepared
\* lists the pending approvals of a run that is not over and resumes it.
Crash ==
  /\ crashes < MaxCrashes /\ crashes' = crashes + 1
  /\ run # "over"
  /\ Started
  /\ cmd' = Idle
  /\ mode' = saved
  /\ grants' = {} /\ recovered' = [op \in Ops |-> "none"]
  /\ listed' = {op \in Ops : durable[op] = "pending" /\ op \notin expired}
  /\ UNCHANGED <<durable, expired, outcome, saved, commands, granted>>

Init ==
  /\ durable = [op \in Ops |-> "none"] /\ expired = {}
  /\ outcome = [op \in Ops |-> "none"] /\ run = "active"
  /\ saved \in Configured /\ mode = saved
  /\ asked = {} /\ once = {} /\ grants = {} /\ listed = {}
  /\ recovered = [op \in Ops |-> "none"]
  /\ live = [op \in Ops |-> "none"] /\ heard = [op \in Ops |-> "none"]
  /\ call = [op \in Ops |-> "new"] /\ ctx = "live" /\ cmd = Idle
  /\ commands = 0 /\ crashes = 0
  /\ granted = {} /\ missed = {} /\ known = {}

Progress == (\E op \in Ops : CallStep(op)) \/ TurnEnds \/ CommandStep

Next ==
  \/ Progress
  \/ EngineCancels
  \/ \E op \in Ops, m \in Answers : Answer(op, m)
  \/ \E m \in Modes : SetApprovalMode(m)
  \/ CancelActive
  \/ \E op \in Ops : Expire(op)
  \/ Shutdown
  \/ Crash

Spec == Init /\ [][Next]_vars

\* Every goroutine and every command takes finitely many steps, so that each
\* is served when the steps of all of them are.
FairSpec == Spec /\ WF_vars(Progress)

-----------------------------------------------------------------------------
(* Properties.                                                             *)

\* The types of the state.
TypeOK ==
  /\ durable \in [Ops -> {"none", "pending", "approved", "rejected"}]
  /\ expired \subseteq Ops /\ asked \subseteq Ops /\ once \subseteq Ops
  /\ listed \subseteq Ops /\ missed \subseteq Ops /\ known \subseteq Ops
  /\ outcome \in [Ops -> {"none", "executed", "denied"}]
  /\ run \in {"active", "suspended", "over"}
  /\ saved \in Modes /\ mode \in Modes
  /\ grants \subseteq granted /\ granted \subseteq Scopes
  /\ recovered \in [Ops -> {"none", "approved", "rejected"}]
  /\ live \in [Ops -> {"none", "open", "resolving", "resolved"}]
  /\ heard \in [Ops -> Answers \cup {"none"}]
  /\ call \in [Ops -> {"new", "asked", "yolo", "review", "hook", "waiting", "again",
                       "ready", "denied", "done", "failed"}]
  /\ ctx \in {"live", "failed", "user", "shutdown"}
  /\ cmd.at \in {"idle", "decide", "deliver", "card", "store", "load", "claim", "drain", "persist"}

\* An operation runs only if its own approval was granted, or the user granted
\* its scope for the session; and it is reported as denied only if it was
\* rejected. Whoever decides, whatever restarts in between (PrepareDriver).
OutcomeWasDecided ==
  \A op \in Ops :
    /\ outcome[op] = "executed" => durable[op] = "approved" \/ Scope[op] \in granted
    /\ outcome[op] = "denied" => durable[op] = "rejected"

\* What a waiting call is told is what is recorded, and a call is told only
\* while it waits (resolveLiveApproval, finishLiveApproval).
HeardIsRecorded ==
  \A op \in Ops : heard[op] # "none" => call[op] = "waiting" /\ durable[op] = decisionOf(heard[op])

\* The user is not asked again for an operation that was decided before the
\* run was started or resumed (loadOperationApproval).
NotAskedAgain ==
  \A op \in known : call[op] # "waiting"

\* A decision reaches the call that waits for it, which then ends: whoever decided,
\* and also across a restart, where the call that is made again finds it. One
\* decision is exempt until the run is started again: that through a recovery
\* notice after the resumed call had looked for it. Nobody tells that call: it
\* waits, while the command polls for the slot of its run (resumeRun).
AnswerTakesEffect ==
  []<>(\A op \in Ops : Decided(op) /\ op \notin missed
         => call[op] \notin {"waiting", "again", "ready", "denied"})

\* A command of a client ends, so that the next one can be served
\* (runCommandSequencer), unless it polls for the slot of a run that itself waits
\* for an answer, which only a later command could give.
CommandReturns ==
  []<>(cmd = Idle \/ (cmd.at = "claim" /\ \E op \in Ops : call[op] = "waiting"))
=============================================================================
