-------------------------- MODULE OperationLedger --------------------------
(***************************************************************************)
(* What the durable backend promises about effects, without leases,        *)
(* tokens, versions, receipts or clocks.                                   *)
(*                                                                         *)
(* An execution performs operations (model calls, tool calls) whose        *)
(* effects must not be repeated behind the user's back. The ledger holds,  *)
(* for each operation, the number of its current attempt and how it        *)
(* stands. A new attempt begins only when there was none or when the       *)
(* previous one was explicitly given up for a retry; a settled operation   *)
(* stays settled; an execution closes only when no outcome is uncertain.   *)
(***************************************************************************)
EXTENDS Naturals

CONSTANT Ops

VARIABLES
  ledger,   \* the current attempt of each operation
  closed    \* the execution has its terminal result

ledgerVars == <<ledger, closed>>

NoAttempt == [number |-> 0, status |-> "none"]

LedgerInit ==
  /\ ledger = [o \in Ops |-> NoAttempt]
  /\ closed = FALSE

\* The current attempt of o, standing at s.
Standing(o, s) == [number |-> ledger[o].number, status |-> s]

\* An effect is authorised: the first attempt, or one after a retry.
Begin(o) ==
  /\ ledger[o].status \in {"none", "abandoned"}
  /\ ledger' = [ledger EXCEPT ![o] = [number |-> ledger[o].number + 1,
                                      status |-> "running"]]

\* The outcome becomes known, reported by the worker or by a reconciler.
SettleOutcome(o) ==
  /\ ledger[o].status \in {"running", "unknown"}
  /\ \E s \in {"succeeded", "failed"} :
       ledger' = [ledger EXCEPT ![o] = Standing(o, s)]

\* The worker is gone: outcomes that were pending are uncertain from now on.
LoseWorker ==
  \E lost \in SUBSET {o \in Ops : ledger[o].status = "running"} :
    ledger' = [o \in Ops |-> IF o \in lost THEN Standing(o, "unknown")
                                            ELSE ledger[o]]

\* Somebody decides that an uncertain effect may be tried again.
AllowRetry(o) ==
  /\ ledger[o].status = "unknown"
  /\ ledger' = [ledger EXCEPT ![o] = Standing(o, "abandoned")]

Close ==
  /\ \A o \in Ops : ledger[o].status \notin {"running", "unknown"}
  /\ closed' = TRUE
  /\ UNCHANGED ledger

LedgerNext ==
  /\ ~closed
  /\ \/ Close
     \/ /\ UNCHANGED closed
        /\ \/ LoseWorker
           \/ \E o \in Ops : Begin(o) \/ SettleOutcome(o) \/ AllowRetry(o)

LedgerSpec == LedgerInit /\ [][LedgerNext]_ledgerVars
=============================================================================
