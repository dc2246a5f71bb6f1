-------------------------- MODULE DurableExecution --------------------------
(***************************************************************************)
(* One durable execution as the SQLite backend keeps it: its lease, its    *)
(* version and checkpoint, and the attempts of each of its operations.     *)
(*                                                                         *)
(* Every backend call is one immediate SQLite transaction, so every call   *)
(* is one action. The callers are workers in any number of processes: a    *)
(* request may arrive late, twice or out of order, from a worker whose     *)
(* lease is long gone. That is modelled by letting any lease reference     *)
(* that was ever granted be used in any request at any time. A request     *)
(* the code refuses, or answers from a receipt, changes nothing and is a   *)
(* stuttering step; a crash between two calls changes nothing either.      *)
(*                                                                         *)
(* A claim stands for an owner together with its ClaimID. Payloads, hashes *)
(* of specs and stored blobs are left out: they are written with the       *)
(* status they belong to and never decide a transition by themselves.      *)
(*                                                                         *)
(* Sources: internal/store/sqlite/durable_execution.go, durable_attempt.go *)
(* and durable_backend.go.                                                 *)
(***************************************************************************)
EXTENDS Naturals, Sequences

CONSTANTS
  Ops,          \* operations of the execution
  Claims,       \* claims that workers present
  Inputs,       \* hashes of operation inputs (with the kind of operation)
  Contents,     \* hashes of checkpoint continuations
  LeaseTTL,     \* lease duration
  MaxToken,     \* bound: lease tokens handed out
  MaxVersion,   \* bound: versions of the execution
  MaxAttempts,  \* bound: attempts of one operation
  MaxClock      \* bound: readings of the database clock

ASSUME DurableAssumption ==
  /\ LeaseTTL \in Nat \ {0}
  /\ MaxToken \in Nat /\ MaxVersion \in Nat \ {0}
  /\ MaxAttempts \in Nat /\ MaxClock \in Nat

VARIABLES
  status,      \* of the execution; "absent" before StartExecution
  version,     \* of the execution
  lease,       \* current lease, or NoLease
  nextToken,   \* the last token handed out (record.nextToken)
  checkpoint,  \* sequence number and content of the continuation
  attempts,    \* the attempts of each operation, oldest first
  receipts,    \* token of the receipt of each start and resume claim
  now,         \* the database clock
  granted,     \* history: every lease reference handed out, with its mode
  authorised   \* history: every decision to execute an effect

vars == <<status, version, lease, nextToken, checkpoint, attempts, receipts,
          now, granted, authorised>>

execVars == <<status, version, lease, nextToken, checkpoint, receipts, granted>>

Modes == {"start", "resume"}
Terminal == {"completed", "failed"}
Uncertain == {"running", "unknown"}
Settled == {"succeeded", "failed"}
AttemptStatus == Uncertain \cup Settled \cup {"abandoned"}

NoLease == [claim |-> "none", token |-> 0, expires |-> 0]

NoCheckpoint == [sequence |-> 0, content |-> "none"]

-----------------------------------------------------------------------------
(* Leases *)

leaseMatches(ref) == lease.token = ref.token /\ lease.claim = ref.claim

leaseActive == lease # NoLease /\ lease.expires > now

requireActiveLease(ref) == leaseMatches(ref) /\ leaseActive

-----------------------------------------------------------------------------
(* Attempts *)

newAttempt(ref, input) ==
  [status |-> "running", token |-> ref.token, input |-> input, version |-> 1]

\* Every settlement drops the attempt's lease and bumps its version.
Settle(a, s) ==
  [status |-> s, token |-> 0, input |-> a.input, version |-> a.version + 1]

\* Mutant: the next worker adopts the running attempts of the previous one.
AdoptRunning(token) ==
  [o \in Ops |->
    [i \in 1..Len(attempts[o]) |->
      IF attempts[o][i].status = "running"
      THEN [attempts[o][i] EXCEPT !.token = nextToken + 1]
      ELSE attempts[o][i]]]

\* Running attempts of the given token (of any token when 0) are uncertain
\* from now on: the worker that ran them may or may not have had its effect.
reconcileRunning(token) ==
  [o \in Ops |->
    [i \in 1..Len(attempts[o]) |->
      IF /\ attempts[o][i].status = "running"
         /\ token # 0 => attempts[o][i].token = token
      THEN Settle(attempts[o][i], "unknown")
      ELSE attempts[o][i]]]

hasUncertainAttempts ==
  \E o \in Ops : \E i \in 1..Len(attempts[o]) :
    attempts[o][i].status \in Uncertain

-----------------------------------------------------------------------------
Init ==
  /\ status = "absent"
  /\ version = 0
  /\ lease = NoLease
  /\ nextToken = 0
  /\ checkpoint = NoCheckpoint
  /\ attempts = [o \in Ops |-> <<>>]
  /\ receipts = [m \in Modes |-> [c \in Claims |-> 0]]
  /\ now = 0
  /\ granted = {}
  /\ authorised = {}

\* Hand the next token to claim c and remember it in its receipt.
Grant(mode, c) ==
  /\ nextToken < MaxToken
  /\ nextToken' = nextToken + 1
  /\ status' = "running"
  /\ lease' = [claim |-> c, token |-> nextToken + 1, expires |-> now + LeaseTTL]
  /\ receipts' = [receipts EXCEPT ![mode][c] = nextToken + 1]
  /\ granted' = granted \cup
                  {[mode |-> mode, claim |-> c, token |-> nextToken + 1]}
  /\ UNCHANGED <<now, checkpoint, authorised>>

\* StartExecution on an execution that does not exist yet.
CreateExecution(c) ==
  /\ status = "absent"
  /\ Grant("start", c)
  /\ version' = 1
  /\ UNCHANGED attempts

\* Mutant: the receipt of a superseded claim is not consulted.
ClaimWithoutReceipt(mode, c) ==
  /\ status \in {"running", "suspended"}
  /\ ~leaseActive
  /\ Grant(mode, c)
  /\ attempts' = reconcileRunning(0)
  /\ UNCHANGED version

\* claimForStart, and ResumeExecution: a claim whose receipt is older than
\* the newest token has lost its lease for good; an active lease is busy;
\* otherwise the claim gets a new token and every running attempt becomes
\* uncertain.
ClaimExecution(mode, c) ==
  /\ status \in {"running", "suspended"}
  /\ receipts[mode][c] # 0 => nextToken = receipts[mode][c]
  /\ ~leaseActive
  /\ Grant(mode, c)
  /\ attempts' = reconcileRunning(0)
  /\ UNCHANGED version

\* RenewExecution, first call or repetition: extend a lease that is active.
RenewExecution(ref) ==
  /\ nextToken = ref.token
  /\ requireActiveLease(ref)
  /\ lease' = [lease EXCEPT !.expires = now + LeaseTTL]
  /\ UNCHANGED <<status, version, nextToken, checkpoint, receipts, granted,
                 attempts, now, authorised>>

\* SaveCheckpoint: only forward. A repetition of the stored sequence number
\* is either answered (same content) or refused, and changes nothing.
SaveCheckpoint(ref, sequence, content, expectedVersion) ==
  /\ requireActiveLease(ref)
  /\ sequence > checkpoint.sequence
  /\ version = expectedVersion
  /\ version < MaxVersion
  /\ checkpoint' = [sequence |-> sequence, content |-> content]
  /\ version' = version + 1
  /\ UNCHANGED <<status, lease, nextToken, receipts, granted, attempts, now,
                 authorised>>

\* Mutant: the lease is dropped and its attempts are left running.
SuspendLeavesRunning(ref, expectedVersion) ==
  /\ nextToken = ref.token
  /\ requireActiveLease(ref)
  /\ version = expectedVersion
  /\ version < MaxVersion
  /\ status' = "suspended"
  /\ lease' = NoLease
  /\ version' = version + 1
  /\ UNCHANGED <<attempts, nextToken, checkpoint, receipts, granted, now,
                 authorised>>

SuspendExecution(ref, expectedVersion) ==
  /\ nextToken = ref.token
  /\ requireActiveLease(ref)
  /\ version = expectedVersion
  /\ version < MaxVersion
  /\ attempts' = reconcileRunning(ref.token)
  /\ status' = "suspended"
  /\ lease' = NoLease
  /\ version' = version + 1
  /\ UNCHANGED <<nextToken, checkpoint, receipts, granted, now, authorised>>

\* Mutant: the execution finishes over uncertain attempts.
FinishOverUncertain(ref, expectedVersion, result) ==
  /\ nextToken = ref.token
  /\ status \notin Terminal
  /\ requireActiveLease(ref)
  /\ version = expectedVersion
  /\ version < MaxVersion
  /\ status' = result
  /\ lease' = NoLease
  /\ version' = version + 1
  /\ UNCHANGED <<attempts, nextToken, checkpoint, receipts, granted, now,
                 authorised>>

FinishExecution(ref, expectedVersion, result) ==
  /\ nextToken = ref.token
  /\ status \notin Terminal
  /\ requireActiveLease(ref)
  /\ version = expectedVersion
  /\ version < MaxVersion
  /\ ~hasUncertainAttempts
  /\ status' = result
  /\ lease' = NoLease
  /\ version' = version + 1
  /\ UNCHANGED <<attempts, nextToken, checkpoint, receipts, granted, now,
                 authorised>>

\* ReleaseExecution does not ask whether the lease has expired.
ReleaseExecution(ref) ==
  /\ nextToken = ref.token
  /\ leaseMatches(ref)
  /\ attempts' = reconcileRunning(ref.token)
  /\ lease' = NoLease
  /\ UNCHANGED <<status, version, nextToken, checkpoint, receipts, granted,
                 now, authorised>>

-----------------------------------------------------------------------------
Latest(o) == attempts[o][Len(attempts[o])]

Authorise(o, number, ref) ==
  authorised' = authorised \cup
    {[op |-> o, number |-> number, token |-> ref.token]}

\* Mutant: an attempt of uncertain outcome is simply tried again.
RetryUnknownAttempt(ref, o, input) ==
  /\ requireActiveLease(ref)
  /\ Len(attempts[o]) < MaxAttempts
  /\ \/ attempts[o] = <<>>
     \/ /\ attempts[o] # <<>>
        /\ Latest(o).status \in {"abandoned", "unknown"}
  /\ attempts' = [attempts EXCEPT ![o] = Append(@, newAttempt(ref, input))]
  /\ Authorise(o, Len(attempts[o]) + 1, ref)
  /\ UNCHANGED <<execVars, now>>

\* StartAttempt decides to execute a new attempt: there was none, or the
\* latest one was abandoned by an explicit retry.
StartNewAttempt(ref, o, input) ==
  /\ requireActiveLease(ref)
  /\ Len(attempts[o]) < MaxAttempts
  /\ \/ attempts[o] = <<>>
     \/ /\ attempts[o] # <<>>
        /\ Latest(o).input = input
        /\ Latest(o).status = "abandoned"
  /\ attempts' = [attempts EXCEPT ![o] = Append(@, newAttempt(ref, input))]
  /\ Authorise(o, Len(attempts[o]) + 1, ref)
  /\ UNCHANGED <<execVars, now>>

\* StartAttempt on a running attempt: the worker that holds its lease may
\* ask again and is told to execute; anybody else makes it uncertain.
RestartRunningAttempt(ref, o, input) ==
  /\ requireActiveLease(ref)
  /\ attempts[o] # <<>>
  /\ Latest(o).input = input
  /\ Latest(o).status = "running"
  /\ IF Latest(o).token = ref.token
       THEN Authorise(o, Len(attempts[o]), ref) /\ UNCHANGED attempts
       ELSE /\ attempts' = [attempts EXCEPT
                              ![o][Len(attempts[o])] = Settle(@, "unknown")]
            /\ UNCHANGED authorised
  /\ UNCHANGED <<execVars, now>>

\* FinishAttempt and MarkAttemptUnknown: the holder of the attempt's lease
\* settles it once; a repetition is answered from the stored attempt.
FinishAttempt(ref, o, n, expectedVersion, outcome) ==
  /\ requireActiveLease(ref)
  /\ n \in 1..Len(attempts[o])
  /\ attempts[o][n].status = "running"
  /\ attempts[o][n].version = expectedVersion
  /\ attempts[o][n].token = ref.token
  /\ attempts' = [attempts EXCEPT ![o][n] = Settle(@, outcome)]
  /\ UNCHANGED <<execVars, now, authorised>>

\* ReconcileAttempt: with no worker active, somebody states the outcome of
\* an uncertain attempt, or gives it up so that it may be retried.
ReconcileAttempt(o, n, expectedVersion, outcome) ==
  /\ ~leaseActive
  /\ n \in 1..Len(attempts[o])
  /\ attempts[o][n].status = "unknown"
  /\ attempts[o][n].version = expectedVersion
  /\ attempts' = [attempts EXCEPT ![o][n] = Settle(@, outcome)]
  /\ UNCHANGED <<execVars, now, authorised>>

\* The database reads the wall clock: it may stand still, advance or be set
\* back between two transactions.
Tick ==
  /\ now' \in 0..MaxClock
  /\ UNCHANGED <<execVars, attempts, authorised>>

-----------------------------------------------------------------------------
ExecutionStep ==
  \/ \E c \in Claims : CreateExecution(c)
  \/ \E mode \in Modes, c \in Claims : ClaimExecution(mode, c)
  \/ \E ref \in granted :
       \/ RenewExecution(ref)
       \/ ReleaseExecution(ref)
       \/ \E v \in 1..MaxVersion :
            \/ SuspendExecution(ref, v)
            \/ \E result \in Terminal : FinishExecution(ref, v, result)
            \/ \E s \in 1..MaxVersion, k \in Contents :
                 SaveCheckpoint(ref, s, k, v)

AttemptStep ==
  \E o \in Ops :
    \/ \E ref \in granted, input \in Inputs :
         \/ StartNewAttempt(ref, o, input)
         \/ RestartRunningAttempt(ref, o, input)
    \/ \E n \in 1..MaxAttempts, v \in 1..3 :
         \/ \E ref \in granted, outcome \in Settled \cup {"unknown"} :
              FinishAttempt(ref, o, n, v, outcome)
         \/ \E outcome \in Settled \cup {"abandoned"} :
              ReconcileAttempt(o, n, v, outcome)

Next == ExecutionStep \/ AttemptStep \/ Tick

Spec == Init /\ [][Next]_vars

-----------------------------------------------------------------------------
Refs == [mode : Modes, claim : Claims, token : 1..MaxToken]

Attempt == [status : AttemptStatus, token : 0..MaxToken, input : Inputs,
            version : 1..3]

\* Every variable keeps its type.
TypeOK ==
  /\ status \in {"absent", "running", "suspended"} \cup Terminal
  /\ version \in 0..MaxVersion
  /\ lease = NoLease \/
     lease \in [claim : Claims, token : 1..MaxToken, expires : Nat]
  /\ nextToken \in 0..MaxToken
  /\ checkpoint = NoCheckpoint \/
     checkpoint \in [sequence : 1..MaxVersion, content : Contents]
  /\ attempts \in [Ops -> Seq(Attempt)]
  /\ receipts \in [Modes -> [Claims -> 0..MaxToken]]
  /\ now \in 0..MaxClock
  /\ granted \subseteq Refs
  /\ authorised \subseteq [op : Ops, number : Nat, token : 1..MaxToken]

\* A running attempt belongs to the lease the execution has now: no claim,
\* suspension, release or finish leaves one behind for a worker that is gone.
RunningIsFenced ==
  \A o \in Ops : \A i \in 1..Len(attempts[o]) :
    attempts[o][i].status = "running" =>
      /\ lease # NoLease
      /\ attempts[o][i].token = lease.token

\* docs/persistence.md: an effect whose response was lost is never replayed
\* automatically. No two leases are ever told to execute the same attempt.
OneLeasePerEffect ==
  \A x, y \in authorised :
    x.op = y.op /\ x.number = y.number => x.token = y.token

\* A terminal execution has no attempt whose effect is uncertain or pending.
TerminalIsCertain ==
  status \in Terminal => ~hasUncertainAttempts /\ lease = NoLease

\* A delayed duplicate of a claim never takes the lease back: between two
\* tokens of the same claim and mode, no other claim was served.
ClaimNeverReturns ==
  \A x, y, z \in granted :
    /\ x.mode = y.mode
    /\ x.claim = y.claim
    /\ x.token < z.token
    /\ z.token < y.token
    => z.mode = x.mode /\ z.claim = x.claim

-----------------------------------------------------------------------------
(* The ledger of operations that the execution implements. *)

\* How an operation with the attempts q stands: its last attempt.
BarOf(q) ==
  IF q = <<>> THEN [number |-> 0, status |-> "none"]
              ELSE [number |-> Len(q), status |-> q[Len(q)].status]

ledgerBar == [o \in Ops |-> BarOf(attempts[o])]

Ledger == INSTANCE OperationLedger
            WITH ledger <- ledgerBar, closed <- status \in Terminal

\* The backend implements the operation ledger.
LedgerSpec == Ledger!LedgerSpec
=============================================================================
