---------------------------- MODULE StoreProofs ----------------------------
(***************************************************************************)
(* What processes that share one database may rely on: the recovery fence  *)
(* and the durable execution backend, for any number of processes,         *)
(* readers, operations, claims, tokens and attempts.                       *)
(*                                                                         *)
(* That nobody is live while one process recovers follows from the lock    *)
(* each of them holds: RecoveryExclusive is strengthened by                *)
(* LockDiscipline, which ties pc to the lock table.                        *)
(*                                                                         *)
(* The invariant of the backend describes the attempts of one operation    *)
(* against the token of the current lease (OpOK), and adds what ties the   *)
(* lease to the newest token (LeaseOK) and the history of decisions to the *)
(* attempts (AuthOK).                                                      *)
(***************************************************************************)
EXTENDS RecoveryFence, DurableExecution, TLAPS

-----------------------------------------------------------------------------
(* The recovery fence. *)

FenceInv == FenceTypeOK /\ LockDiscipline

\* No process runs initially, so the fence invariant holds.
LEMMA InitFenceInv == FenceInit => FenceInv
BY FenceAssumption DEF FenceInit, FenceInv, FenceTypeOK, LockDiscipline, Handles,
   Markers, PCs, ExclusivePCs, SharedPCs

\* Moving one process keeps the invariant when the new label implies the new
\* lock and the lock table allows that lock.
LEMMA GotoKeepsDiscipline ==
  ASSUME FenceInv, NEW p \in Procs, NEW l \in {"none", "sh", "ex"},
         NEW label \in PCs, Goto(p, l, label),
         marker' \in Markers, unrecovered' \subseteq Procs,
         l = (CASE label \in ExclusivePCs -> "ex"
                [] label \in SharedPCs -> "sh"
                [] OTHER -> "none"),
         l = "ex" => ExclusiveFree(p),
         l = "sh" => SharedFree(p)
  PROVE  FenceInv'
<1>1. FenceTypeOK'
  BY DEF FenceInv, FenceTypeOK, Goto, Handles
<1>2. ASSUME NEW q \in Procs
      PROVE  lock'[q] = CASE pc'[q] \in ExclusivePCs -> "ex"
                          [] pc'[q] \in SharedPCs -> "sh"
                          [] OTHER -> "none"
  BY DEF FenceInv, FenceTypeOK, LockDiscipline, Goto, Handles
<1>3. ASSUME NEW g \in Handles, NEW h \in Handles, g # h, lock'[g] = "ex"
      PROVE  lock'[h] = "none"
  BY <1>3 DEF FenceInv, FenceTypeOK, LockDiscipline, Goto, Handles,
     ExclusiveFree, SharedFree
<1> QED
  BY <1>1, <1>2, <1>3 DEF FenceInv, LockDiscipline

\* An exclusive holder already has the table to itself.
LEMMA HolderIsAlone ==
  ASSUME FenceInv, NEW p \in Procs, pc[p] \in ExclusivePCs
  PROVE  ExclusiveFree(p) /\ SharedFree(p)
<1>1. lock[p] = "ex" /\ p \in Handles
  BY DEF FenceInv, LockDiscipline, Handles, ExclusivePCs, SharedPCs
<1>2. \A g \in Handles \ {p} : lock[g] = "none"
  BY <1>1 DEF FenceInv, LockDiscipline
<1> QED
  BY <1>2 DEF ExclusiveFree, SharedFree

\* While some process holds the lock shared, another may share it too.
LEMMA HolderIsShared ==
  ASSUME FenceInv, NEW p \in Procs, pc[p] \in SharedPCs
  PROVE  SharedFree(p)
BY DEF FenceInv, LockDiscipline, FenceTypeOK, SharedFree, Handles,
   SharedPCs, ExclusivePCs

\* Every step keeps the fence invariant.
LEMMA StepFenceInv == FenceInv /\ [FenceNext]_fenceVars => FenceInv'
<1> SUFFICES ASSUME FenceInv, [FenceNext]_fenceVars PROVE FenceInv'
  OBVIOUS
<1> USE DEF PCs, ExclusivePCs, SharedPCs, Markers
<1>1. ASSUME NEW p \in Procs, Start(p) PROVE FenceInv'
  BY <1>1, GotoKeepsDiscipline DEF Start, FenceInv, FenceTypeOK
<1>2. ASSUME NEW p \in Procs, TryStartRecovery(p) PROVE FenceInv'
  BY <1>2, GotoKeepsDiscipline DEF TryStartRecovery, FenceInv, FenceTypeOK
<1>3. ASSUME NEW p \in Procs, Claim(p) PROVE FenceInv'
  BY <1>3, GotoKeepsDiscipline, HolderIsAlone DEF Claim, FenceInv, FenceTypeOK
<1>4. ASSUME NEW p \in Procs, FinishRecovery(p) PROVE FenceInv'
  BY <1>4, GotoKeepsDiscipline, HolderIsAlone
     DEF FinishRecovery, FenceInv, FenceTypeOK
<1>5. ASSUME NEW p \in Procs, Relock(p) PROVE FenceInv'
  BY <1>5, GotoKeepsDiscipline DEF Relock, FenceInv, FenceTypeOK
<1>6. ASSUME NEW p \in Procs, WaitShared(p) PROVE FenceInv'
  BY <1>6, GotoKeepsDiscipline DEF WaitShared, FenceInv, FenceTypeOK
<1>7. ASSUME NEW p \in Procs, CheckCompletedRecovery(p) PROVE FenceInv'
  BY <1>7, GotoKeepsDiscipline, HolderIsShared
     DEF CheckCompletedRecovery, FenceInv, FenceTypeOK
<1>8. ASSUME NEW p \in Procs, CloseClean(p) PROVE FenceInv'
  BY <1>8, GotoKeepsDiscipline DEF CloseClean, FenceInv, FenceTypeOK
<1>9. ASSUME NEW p \in Procs, TryReseal(p) PROVE FenceInv'
  BY <1>9, GotoKeepsDiscipline DEF TryReseal, FenceInv, FenceTypeOK
<1>10. ASSUME NEW p \in Procs, Seal(p) PROVE FenceInv'
  BY <1>10, GotoKeepsDiscipline DEF Seal, FenceInv, FenceTypeOK
<1>11. ASSUME NEW p \in Procs, CloseDirty(p) PROVE FenceInv'
  BY <1>11, GotoKeepsDiscipline DEF CloseDirty, FenceInv, FenceTypeOK
<1>12. ASSUME NEW p \in Procs, WaitCancelled(p) PROVE FenceInv'
  BY <1>12, GotoKeepsDiscipline DEF WaitCancelled, FenceInv, FenceTypeOK
<1>13. ASSUME NEW p \in Procs, Crash(p) PROVE FenceInv'
  BY <1>13, GotoKeepsDiscipline DEF Crash, FenceInv, FenceTypeOK
<1>14. ASSUME NEW r \in Readers, ReaderAcquire(r) PROVE FenceInv'
  BY <1>14, FenceAssumption
     DEF ReaderAcquire, SharedFree, FenceInv, FenceTypeOK, LockDiscipline, Handles
<1>15. ASSUME NEW r \in Readers, ReaderClose(r) PROVE FenceInv'
  BY <1>15, FenceAssumption
     DEF ReaderClose, FenceInv, FenceTypeOK, LockDiscipline, Handles
<1>16. CASE UNCHANGED fenceVars
  BY <1>16 DEF fenceVars, FenceInv, FenceTypeOK, LockDiscipline
<1> QED
  BY <1>1, <1>2, <1>3, <1>4, <1>5, <1>6, <1>7, <1>8, <1>9, <1>10, <1>11,
     <1>12, <1>13, <1>14, <1>15, <1>16 DEF FenceNext, Acquire, Leave

\* The lock table and the protocol agree in every reachable state, on both
\* platforms (recovery_fence_unix.go, recovery_fence_windows.go).
THEOREM FenceDiscipline == FenceSpec => []FenceInv
BY InitFenceInv, StepFenceInv, PTL DEF FenceSpec

\* RUNTIME-002 for any number of processes and readers, whether or not the
\* lock converts in place: recovery never runs beside a live process.
THEOREM FenceRecoveryExclusive == FenceSpec => []RecoveryExclusive
<1>1. FenceInv => RecoveryExclusive
  BY DEF FenceInv, FenceTypeOK, LockDiscipline, RecoveryExclusive, Handles,
     ExclusivePCs, SharedPCs
<1> QED
  BY <1>1, FenceDiscipline, PTL

-----------------------------------------------------------------------------
\* Where the lock converts in place, a process never waits between two locks.
NoGap == \A p \in Procs : pc[p] \notin {"relock", "reseal"}

BoundaryInv == FenceInv /\ (atomic => NoGap) /\ LiveImpliesReady

\* A step that writes the marker is taken by an exclusive holder, beside
\* which nobody is live.
LEMMA WriterIsAlone ==
  ASSUME FenceInv, NEW p \in Procs, pc[p] \in ExclusivePCs
  PROVE  \A q \in Procs \ {p} : pc[q] # "running"
BY HolderIsAlone
   DEF ExclusiveFree, FenceInv, LockDiscipline, Handles, SharedPCs,
       ExclusivePCs

\* Every step keeps the boundary invariant, which says nothing of a lock that
\* does not convert in place.
LEMMA StepBoundaryInv ==
  ASSUME BoundaryInv, [FenceNext]_fenceVars
  PROVE  BoundaryInv'
<1>0. atomic' = atomic
  BY DEF FenceNext, fenceVars, Acquire, Leave, Start, TryStartRecovery, Claim,
     FinishRecovery, Relock, WaitShared, CheckCompletedRecovery, CloseClean,
     TryReseal, Seal, CloseDirty, WaitCancelled, Crash, ReaderAcquire,
     ReaderClose, Goto
<1> USE DEF BoundaryInv, NoGap, LiveImpliesReady, Goto, FenceInv, FenceTypeOK
<1>1. FenceInv'
  BY StepFenceInv
<1> USE DEF ExclusivePCs
<1>2. ASSUME NEW p \in Procs, Claim(p) \/ FinishRecovery(p) \/ Seal(p)
      PROVE  (atomic => NoGap') /\ LiveImpliesReady'
  BY <1>2, WriterIsAlone DEF Claim, FinishRecovery, Seal
<1>3. ASSUME NEW p \in Procs, Crash(p)
      PROVE  (atomic => NoGap') /\ LiveImpliesReady'
  BY <1>3, WriterIsAlone DEF Crash
<1>4. ASSUME NEW p \in Procs, Start(p) \/ TryStartRecovery(p) \/ Relock(p)
                \/ WaitShared(p) \/ CheckCompletedRecovery(p)
      PROVE  (atomic => NoGap') /\ LiveImpliesReady'
  BY <1>4 DEF Start, TryStartRecovery, Relock, WaitShared,
     CheckCompletedRecovery
<1>5. ASSUME NEW p \in Procs, CloseClean(p) \/ TryReseal(p)
                \/ CloseDirty(p) \/ WaitCancelled(p)
      PROVE  (atomic => NoGap') /\ LiveImpliesReady'
  BY <1>5 DEF CloseClean, TryReseal, CloseDirty, WaitCancelled
<1>6. ASSUME NEW r \in Readers, ReaderAcquire(r) \/ ReaderClose(r)
      PROVE  (atomic => NoGap') /\ LiveImpliesReady'
  BY <1>6 DEF ReaderAcquire, ReaderClose
<1>7. CASE UNCHANGED fenceVars
  BY <1>7, <1>1 DEF fenceVars
<1> QED
  BY <1>0, <1>1, <1>2, <1>3, <1>4, <1>5, <1>6, <1>7 DEF FenceNext, Acquire, Leave

\* With a lock that converts in place, a live process always stands on a
\* published boundary: FinishRecovery and CloseClean leave no gap in which
\* another process could rewrite the marker.
THEOREM FenceLiveImpliesReady == FenceSpec => []LiveImpliesReady
<1>1. FenceInit => BoundaryInv
  BY InitFenceInv DEF FenceInit, BoundaryInv, NoGap, LiveImpliesReady
<1>2. BoundaryInv /\ [FenceNext]_fenceVars => BoundaryInv'
  BY StepBoundaryInv
<1>3. BoundaryInv => LiveImpliesReady
  BY DEF BoundaryInv
<1> QED
  BY <1>1, <1>2, <1>3, PTL DEF FenceSpec

-----------------------------------------------------------------------------
(* The durable execution backend. *)

\* The attempts s of one operation, when the current lease has token tok (0
\* when there is none).
OpOK(s, tok) ==
  /\ s \in Seq(Attempt)
  /\ \A i \in 1..Len(s) :
       /\ s[i].status = "running" =>
            s[i].token = tok /\ tok # 0 /\ s[i].version = 1
       /\ s[i].status = "unknown" => s[i].version = 2
       /\ i < Len(s) => s[i].status = "abandoned"

AttemptsOK == \A o \in Ops : OpOK(attempts[o], lease.token)

LeaseOK ==
  /\ lease # NoLease => lease.token = nextToken
  /\ status # "running" => lease = NoLease

AuthOK ==
  \A x \in authorised :
    /\ x.number \in 1..Len(attempts[x.op])
    /\ attempts[x.op][x.number].status = "running" =>
         attempts[x.op][x.number].token = x.token

DurableInv ==
  /\ TypeOK
  /\ AttemptsOK
  /\ LeaseOK
  /\ TerminalIsCertain
  /\ AuthOK
  /\ OneLeasePerEffect

-----------------------------------------------------------------------------
(* What the helpers do to the attempts of one operation. *)

\* A settled attempt is an attempt.
LEMMA SettleType ==
  ASSUME NEW a \in Attempt, a.version \in {1, 2},
         NEW s \in AttemptStatus
  PROVE  /\ Settle(a, s) \in Attempt
         /\ Settle(a, s).status = s
         /\ Settle(a, s).version = a.version + 1
BY DurableAssumption DEF Settle, Attempt

\* Settling the attempt that is running or unknown keeps the history sound.
LEMMA SettleOne ==
  ASSUME NEW q, NEW tok, OpOK(q, tok), NEW n \in 1..Len(q),
         q[n].status \in Uncertain,
         NEW s \in AttemptStatus \ {"running"},
         s = "unknown" => q[n].version = 1
  PROVE  /\ OpOK([q EXCEPT ![n] = Settle(@, s)], tok)
         /\ n = Len(q)
         /\ Len([q EXCEPT ![n] = Settle(@, s)]) = Len(q)
         /\ [q EXCEPT ![n] = Settle(@, s)][n].status = s
<1> DEFINE r == [q EXCEPT ![n] = Settle(@, s)]
<1>1. q \in Seq(Attempt) /\ q[n] \in Attempt /\ Len(q) \in Nat
  BY DEF OpOK
<1>2. n = Len(q)
  BY <1>1 DEF OpOK, Uncertain
<1>3. q[n].version \in {1, 2}
  BY DEF OpOK, Uncertain
<1>4. /\ Settle(q[n], s) \in Attempt
      /\ Settle(q[n], s).status = s
      /\ Settle(q[n], s).version = q[n].version + 1
  BY <1>1, <1>3, SettleType
<1>5. r \in Seq(Attempt) /\ Len(r) = Len(q) /\ r[n] = Settle(q[n], s)
  BY <1>1, <1>4
<1>6. \A i \in 1..Len(r) : i # n => r[i] = q[i]
  BY <1>1, <1>5
<1>7. OpOK(r, tok)
  BY <1>1, <1>2, <1>3, <1>4, <1>5, <1>6 DEF OpOK, AttemptStatus
<1> QED
  BY <1>2, <1>4, <1>5, <1>7

\* Appending the attempt of the current lease keeps the history sound when
\* nothing of it is still open.
LEMMA AppendOne ==
  ASSUME NEW q, NEW tok \in 1..MaxToken, OpOK(q, tok),
         q # <<>> => q[Len(q)].status = "abandoned",
         NEW a \in Attempt, a.status = "running", a.token = tok,
         a.version = 1
  PROVE  OpOK(Append(q, a), tok)
<1>1. q \in Seq(Attempt) /\ Len(q) \in Nat
  BY DEF OpOK
<1>2. /\ Append(q, a) \in Seq(Attempt)
      /\ Len(Append(q, a)) = Len(q) + 1
      /\ Append(q, a)[Len(q) + 1] = a
      /\ \A i \in 1..Len(q) : Append(q, a)[i] = q[i]
  BY <1>1
<1>3. Len(q) > 0 => q # <<>>
  BY <1>1
<1> QED
  BY <1>1, <1>2, <1>3 DEF OpOK

\* Reconciling the running attempts of the current lease leaves none running
\* and changes no other, whatever the token of the next lease.
LEMMA ReconcileAll ==
  ASSUME DurableInv, NEW token \in Nat,
         token = 0 \/ token = lease.token, NEW o \in Ops
  PROVE  /\ Len(reconcileRunning(token)[o]) = Len(attempts[o])
         /\ \A i \in 1..Len(attempts[o]) :
              reconcileRunning(token)[o][i] =
                IF attempts[o][i].status = "running"
                  THEN Settle(attempts[o][i], "unknown") ELSE attempts[o][i]
         /\ \A tok : OpOK(reconcileRunning(token)[o], tok)
<1> DEFINE q == attempts[o]
           r == reconcileRunning(token)[o]
<1>1. OpOK(q, lease.token) /\ q \in Seq(Attempt) /\ Len(q) \in Nat
  BY DEF DurableInv, AttemptsOK, OpOK
<1>2. r = [i \in 1..Len(q) |->
             IF q[i].status = "running" THEN Settle(q[i], "unknown") ELSE q[i]]
  BY <1>1 DEF reconcileRunning, OpOK
<1>3. \A i \in 1..Len(q) : q[i] \in Attempt
  BY <1>1
<1>4. \A i \in 1..Len(q) : q[i].status = "running" =>
        /\ Settle(q[i], "unknown") \in Attempt
        /\ Settle(q[i], "unknown").status = "unknown"
        /\ Settle(q[i], "unknown").version = 2
  <2> SUFFICES ASSUME NEW i \in 1..Len(q), q[i].status = "running"
               PROVE  /\ Settle(q[i], "unknown") \in Attempt
                      /\ Settle(q[i], "unknown").status = "unknown"
                      /\ Settle(q[i], "unknown").version = 2
    OBVIOUS
  <2>1. q[i].version = 1
    BY <1>1 DEF OpOK
  <2> QED
    BY <1>3, <2>1, SettleType DEF AttemptStatus, Uncertain
<1>5. r \in [1..Len(q) -> Attempt]
  BY <1>2, <1>3, <1>4
<1>6. r \in Seq(Attempt) /\ Len(r) = Len(q)
  BY <1>1, <1>5
<1>7. \A tok : OpOK(r, tok)
  BY <1>1, <1>2, <1>3, <1>4, <1>6 DEF OpOK
<1> QED
  BY <1>2, <1>6, <1>7

-----------------------------------------------------------------------------
(* The invariant holds initially and every action keeps it. *)

\* A new store satisfies the invariant.
LEMMA InitDurableInv == Init => DurableInv
<1> SUFFICES ASSUME Init PROVE DurableInv
  OBVIOUS
<1>1. TypeOK
  BY DurableAssumption DEF Init, TypeOK
<1>2. AttemptsOK
  <2>1. \A o \in Ops : attempts[o] = <<>>
    BY DEF Init
  <2>2. \A tok : OpOK(<<>>, tok)
    BY DEF OpOK
  <2> QED
    BY <2>1, <2>2 DEF AttemptsOK
<1>3. LeaseOK /\ TerminalIsCertain /\ AuthOK /\ OneLeasePerEffect
  BY DEF Init, LeaseOK, TerminalIsCertain, AuthOK, OneLeasePerEffect, Terminal
<1> QED
  BY <1>1, <1>2, <1>3 DEF DurableInv

\* Steps that leave attempts, the history and the lease token alone.
LEMMA QuietStep ==
  ASSUME DurableInv, TypeOK', LeaseOK', TerminalIsCertain',
         UNCHANGED <<attempts, authorised>>, lease'.token = lease.token
  PROVE  DurableInv'
BY DEF DurableInv, AttemptsOK, AuthOK, OneLeasePerEffect

\* Steps that make every running attempt uncertain.
LEMMA ReconcileStep ==
  ASSUME DurableInv, TypeOK', LeaseOK', status' \notin Terminal,
         NEW token \in Nat, token = 0 \/ token = lease.token,
         attempts' = reconcileRunning(token), UNCHANGED authorised
  PROVE  DurableInv'
<1>1. \A o \in Ops : OpOK(attempts'[o], lease'.token)
  BY ReconcileAll
<1>2. ASSUME NEW x \in authorised
      PROVE  /\ x.number \in 1..Len(attempts'[x.op])
             /\ attempts'[x.op][x.number].status # "running"
                \/ attempts'[x.op][x.number] = attempts[x.op][x.number]
  <2>1. x.op \in Ops /\ x.number \in 1..Len(attempts[x.op])
    BY <1>2 DEF DurableInv, AuthOK, TypeOK
  <2>2. Len(attempts'[x.op]) = Len(attempts[x.op])
    BY <2>1, ReconcileAll
  <2>3. attempts'[x.op][x.number] =
          IF attempts[x.op][x.number].status = "running"
            THEN Settle(attempts[x.op][x.number], "unknown")
            ELSE attempts[x.op][x.number]
    BY <2>1, ReconcileAll
  <2> QED
    BY <2>1, <2>2, <2>3 DEF Settle
<1>3. AuthOK'
  BY <1>2 DEF AuthOK, DurableInv
<1> QED
  BY <1>1, <1>3 DEF DurableInv, AttemptsOK, OneLeasePerEffect,
     TerminalIsCertain

\* attempts' in a reconciling step has the right type.
LEMMA ReconcileType ==
  ASSUME DurableInv, NEW token \in Nat, token = 0 \/ token = lease.token
  PROVE  reconcileRunning(token) \in [Ops -> Seq(Attempt)]
<1>1. \A o \in Ops : reconcileRunning(token)[o] \in Seq(Attempt)
  BY ReconcileAll DEF OpOK
<1> QED
  BY <1>1 DEF reconcileRunning

\* The token of a granted lease is a positive natural number.
LEMMA ReconcileTokenNat ==
  ASSUME DurableInv, NEW ref \in granted
  PROVE  ref.token \in Nat /\ ref.token # 0 /\ ref.token \in 1..MaxToken
         /\ 0 \in Nat
BY DurableAssumption DEF DurableInv, TypeOK, Refs

\* Claim, resume, renew, checkpoint, suspend, finish and release keep the
\* invariant.
LEMMA ExecutionStepInv == ASSUME DurableInv, ExecutionStep PROVE DurableInv'
<1> USE DurableAssumption
<1>1. ASSUME NEW c \in Claims, CreateExecution(c) PROVE DurableInv'
  <2>1. TypeOK'
    BY <1>1 DEF CreateExecution, Grant, DurableInv, TypeOK, Refs, Modes
  <2>2. lease = NoLease /\ status' \notin Terminal /\ lease'.token = nextToken'
    BY <1>1 DEF CreateExecution, Grant, DurableInv, LeaseOK, Terminal
  <2>3. \A o \in Ops : OpOK(attempts[o], lease'.token)
    BY <2>2 DEF DurableInv, AttemptsOK, OpOK, NoLease
  <2>4. LeaseOK'
    BY <1>1, <2>2 DEF CreateExecution, Grant, LeaseOK
  <2> QED
    BY <1>1, <2>1, <2>2, <2>3, <2>4
    DEF CreateExecution, Grant, DurableInv, AttemptsOK, AuthOK,
        OneLeasePerEffect, TerminalIsCertain
<1>2. ASSUME NEW mode \in Modes, NEW c \in Claims, ClaimExecution(mode, c)
      PROVE  DurableInv'
  <2>1. attempts' \in [Ops -> Seq(Attempt)]
    BY <1>2, ReconcileType DEF ClaimExecution
  <2>2. TypeOK'
    BY <1>2, <2>1 DEF ClaimExecution, Grant, DurableInv, TypeOK, Refs
  <2>3. LeaseOK' /\ status' \notin Terminal
    BY <1>2 DEF ClaimExecution, Grant, LeaseOK, Terminal
  <2> QED
    BY <1>2, <2>2, <2>3, ReconcileStep DEF ClaimExecution, Grant
<1>3. ASSUME NEW ref \in granted, RenewExecution(ref) PROVE DurableInv'
  <2>1. /\ lease \in [claim : Claims, token : 1..MaxToken, expires : Nat]
        /\ lease # NoLease
    BY <1>3 DEF RenewExecution, requireActiveLease, leaseActive, DurableInv,
       TypeOK
  <2>2. /\ lease' \in [claim : Claims, token : 1..MaxToken, expires : Nat]
        /\ lease'.token = lease.token
    <3>1. now + LeaseTTL \in Nat
      BY DEF DurableInv, TypeOK
    <3>2. lease' = [lease EXCEPT !.expires = now + LeaseTTL]
      BY <1>3 DEF RenewExecution
    <3> QED
      BY <2>1, <3>1, <3>2
  <2>3. TypeOK'
    BY <1>3, <2>2 DEF RenewExecution, DurableInv, TypeOK
  <2>4. LeaseOK' /\ TerminalIsCertain'
    BY <1>3, <2>1, <2>2 DEF RenewExecution, DurableInv, LeaseOK,
       TerminalIsCertain, hasUncertainAttempts, Terminal
  <2> QED
    BY <1>3, <2>2, <2>3, <2>4, QuietStep DEF RenewExecution
<1>4. ASSUME NEW ref \in granted, ReleaseExecution(ref) PROVE DurableInv'
  <2>1. attempts' \in [Ops -> Seq(Attempt)]
    BY <1>4, ReconcileType, ReconcileTokenNat
    DEF ReleaseExecution, leaseMatches
  <2>2. TypeOK'
    BY <1>4, <2>1 DEF ReleaseExecution, DurableInv, TypeOK
  <2>3. lease # NoLease
    BY <1>4, ReconcileTokenNat DEF ReleaseExecution, leaseMatches, NoLease
  <2>4. LeaseOK' /\ status' \notin Terminal
    BY <1>4, <2>3 DEF ReleaseExecution, DurableInv, LeaseOK, Terminal
  <2> QED
    BY <1>4, <2>2, <2>4, ReconcileStep, ReconcileTokenNat
    DEF ReleaseExecution, leaseMatches
<1>5. ASSUME NEW ref \in granted, NEW v \in 1..MaxVersion,
             SuspendExecution(ref, v)
      PROVE  DurableInv'
  <2>1. attempts' \in [Ops -> Seq(Attempt)]
    BY <1>5, ReconcileType, ReconcileTokenNat
    DEF SuspendExecution, requireActiveLease, leaseMatches
  <2>2. TypeOK'
    BY <1>5, <2>1 DEF SuspendExecution, DurableInv, TypeOK
  <2>3. LeaseOK' /\ status' \notin Terminal
    BY <1>5 DEF SuspendExecution, LeaseOK, Terminal
  <2> QED
    BY <1>5, <2>2, <2>3, ReconcileStep, ReconcileTokenNat
    DEF SuspendExecution, requireActiveLease, leaseMatches
<1>6. ASSUME NEW ref \in granted, NEW v \in 1..MaxVersion,
             NEW result \in Terminal, FinishExecution(ref, v, result)
      PROVE  DurableInv'
  <2>1. TypeOK'
    BY <1>6 DEF FinishExecution, DurableInv, TypeOK
  <2>2. \A o \in Ops : OpOK(attempts[o], lease'.token)
    BY <1>6 DEF FinishExecution, hasUncertainAttempts, Uncertain, DurableInv,
       AttemptsOK, OpOK
  <2>3. LeaseOK' /\ TerminalIsCertain'
    BY <1>6 DEF FinishExecution, LeaseOK, TerminalIsCertain,
       hasUncertainAttempts
  <2> QED
    BY <1>6, <2>1, <2>2, <2>3 DEF FinishExecution, DurableInv, AttemptsOK,
       AuthOK, OneLeasePerEffect
<1>7. ASSUME NEW ref \in granted, NEW v \in 1..MaxVersion,
             NEW s \in 1..MaxVersion, NEW k \in Contents,
             SaveCheckpoint(ref, s, k, v)
      PROVE  DurableInv'
  <2>1. TypeOK'
    BY <1>7 DEF SaveCheckpoint, DurableInv, TypeOK
  <2>2. LeaseOK' /\ TerminalIsCertain'
    BY <1>7 DEF SaveCheckpoint, DurableInv, LeaseOK, TerminalIsCertain,
       hasUncertainAttempts
  <2> QED
    BY <1>7, <2>1, <2>2, QuietStep DEF SaveCheckpoint
<1> QED
  BY <1>1, <1>2, <1>3, <1>4, <1>5, <1>6, <1>7 DEF ExecutionStep

\* A step that changes the attempts of one operation only.
LEMMA OneOpStep ==
  ASSUME DurableInv, NEW o \in Ops, NEW q, OpOK(q, lease.token),
         attempts' = [attempts EXCEPT ![o] = q],
         UNCHANGED <<execVars, now>>,
         status \notin Terminal, AuthOK', OneLeasePerEffect',
         authorised' \subseteq [op : Ops, number : Nat, token : 1..MaxToken]
  PROVE  DurableInv'
<1>1. attempts' \in [Ops -> Seq(Attempt)]
  BY DEF DurableInv, TypeOK, OpOK
<1>2. TypeOK'
  BY <1>1 DEF DurableInv, TypeOK, execVars
<1>3. AttemptsOK'
  BY DEF DurableInv, TypeOK, AttemptsOK, execVars
<1>4. LeaseOK' /\ TerminalIsCertain'
  BY DEF DurableInv, LeaseOK, TerminalIsCertain, execVars
<1> QED
  BY <1>2, <1>3, <1>4 DEF DurableInv

\* Settling one open attempt.
LEMMA SettleStep ==
  ASSUME DurableInv, NEW o \in Ops, NEW n \in 1..Len(attempts[o]),
         attempts[o][n].status \in Uncertain,
         NEW s \in AttemptStatus \ {"running"},
         s = "unknown" => attempts[o][n].status = "running",
         attempts' = [attempts EXCEPT ![o][n] = Settle(@, s)],
         UNCHANGED <<execVars, now, authorised>>
  PROVE  DurableInv'
<1> DEFINE q == attempts[o]
           r == [q EXCEPT ![n] = Settle(@, s)]
<1>1. OpOK(q, lease.token) /\ (s = "unknown" => q[n].version = 1)
  BY DEF DurableInv, AttemptsOK, OpOK
<1>2. /\ OpOK(r, lease.token)
      /\ n = Len(q)
      /\ Len(r) = Len(q)
      /\ r[n].status = s
  BY <1>1, SettleOne
<1>3. attempts' = [attempts EXCEPT ![o] = r]
  OBVIOUS
<1>4. status \notin Terminal
  BY DEF DurableInv, TerminalIsCertain, hasUncertainAttempts
<1>5. \A i \in 1..Len(q) : i # n => r[i] = q[i]
  BY <1>1 DEF OpOK
<1>6. AuthOK'
  <2> SUFFICES ASSUME NEW x \in authorised
               PROVE  /\ x.number \in 1..Len(attempts'[x.op])
                      /\ attempts'[x.op][x.number].status = "running" =>
                           attempts'[x.op][x.number].token = x.token
    BY DEF AuthOK
  <2>1. /\ x.op \in Ops
        /\ x.number \in 1..Len(attempts[x.op])
        /\ attempts[x.op][x.number].status = "running" =>
             attempts[x.op][x.number].token = x.token
    BY DEF DurableInv, AuthOK, TypeOK
  <2>2. CASE x.op # o
    BY <1>3, <2>1, <2>2 DEF DurableInv, TypeOK
  <2>3. CASE x.op = o
    <3>1. attempts'[x.op] = r
      BY <1>3, <2>3 DEF DurableInv, TypeOK
    <3> QED
      BY <1>2, <1>5, <2>1, <2>3, <3>1
  <2> QED
    BY <2>2, <2>3
<1>7. OneLeasePerEffect' /\ authorised' \subseteq [op : Ops, number : Nat, token : 1..MaxToken]
  BY DEF DurableInv, OneLeasePerEffect, TypeOK
<1> QED
  BY <1>2, <1>3, <1>4, <1>6, <1>7, OneOpStep

\* A worker that passes requireActiveLease holds the current lease of an
\* execution that is not over.
LEMMA HolderFacts ==
  ASSUME DurableInv, NEW ref \in granted, requireActiveLease(ref)
  PROVE  /\ ref.token \in 1..MaxToken
         /\ lease.token = ref.token
         /\ status = "running"
         /\ status \notin Terminal
BY ReconcileTokenNat
   DEF requireActiveLease, leaseMatches, leaseActive, DurableInv, LeaseOK,
       Terminal

\* Starting the next attempt of an operation keeps the invariant.
LEMMA StartNewAttemptInv ==
  ASSUME DurableInv, NEW ref \in granted, NEW o \in Ops, NEW input \in Inputs,
         StartNewAttempt(ref, o, input)
  PROVE  DurableInv'
<1> DEFINE q == attempts[o]
           a == newAttempt(ref, input)
           x0 == [op |-> o, number |-> Len(q) + 1, token |-> ref.token]
<1>1. /\ ref.token \in 1..MaxToken
      /\ lease.token = ref.token
      /\ status \notin Terminal
  BY HolderFacts DEF StartNewAttempt
<1>2. OpOK(q, lease.token) /\ q \in Seq(Attempt) /\ Len(q) \in Nat
  BY DEF DurableInv, AttemptsOK, OpOK
<1>3. /\ a \in Attempt
      /\ a.status = "running" /\ a.token = ref.token /\ a.version = 1
  BY <1>1 DEF newAttempt, Attempt, AttemptStatus, Uncertain
<1>4. q # <<>> => q[Len(q)].status = "abandoned"
  BY DEF StartNewAttempt, Latest
<1>5. OpOK(Append(q, a), lease.token)
  BY <1>1, <1>2, <1>3, <1>4, AppendOne
<1>6. /\ Len(Append(q, a)) = Len(q) + 1
      /\ Append(q, a)[Len(q) + 1] = a
      /\ \A i \in 1..Len(q) : Append(q, a)[i] = q[i]
  BY <1>2, <1>3
<1>7. /\ attempts' = [attempts EXCEPT ![o] = Append(q, a)]
      /\ authorised' = authorised \cup {x0}
      /\ UNCHANGED <<execVars, now>>
  BY DEF StartNewAttempt, Authorise
<1>8. attempts'[o] = Append(q, a) /\ \A p \in Ops \ {o} : attempts'[p] = attempts[p]
  BY <1>7 DEF DurableInv, TypeOK
<1>9. \A x \in authorised :
        /\ x.op \in Ops
        /\ x.number \in 1..Len(attempts[x.op])
        /\ attempts[x.op][x.number].status = "running" =>
             attempts[x.op][x.number].token = x.token
  BY DEF DurableInv, AuthOK, TypeOK
<1>10. AuthOK'
  <2> SUFFICES ASSUME NEW x \in authorised'
               PROVE  /\ x.number \in 1..Len(attempts'[x.op])
                      /\ attempts'[x.op][x.number].status = "running" =>
                           attempts'[x.op][x.number].token = x.token
    BY DEF AuthOK
  <2>1. CASE x = x0
    BY <1>2, <1>3, <1>6, <1>8, <2>1
  <2>2. CASE x \in authorised /\ x.op = o
    BY <1>2, <1>6, <1>8, <1>9, <2>2
  <2>3. CASE x \in authorised /\ x.op # o
    BY <1>8, <1>9, <2>3
  <2> QED
    BY <1>7, <2>1, <2>2, <2>3
<1>11. OneLeasePerEffect'
  <2>1. \A x \in authorised : x.op = o => x.number # Len(q) + 1
    BY <1>2, <1>9
  <2> QED
    BY <1>7, <2>1 DEF DurableInv, OneLeasePerEffect
<1>12. authorised' \subseteq [op : Ops, number : Nat, token : 1..MaxToken]
  BY <1>1, <1>2, <1>7 DEF DurableInv, TypeOK
<1> QED
  BY <1>1, <1>5, <1>7, <1>10, <1>11, <1>12, OneOpStep

\* Starting an attempt that is already running keeps the invariant.
LEMMA RestartRunningAttemptInv ==
  ASSUME DurableInv, NEW ref \in granted, NEW o \in Ops, NEW input \in Inputs,
         RestartRunningAttempt(ref, o, input)
  PROVE  DurableInv'
<1> DEFINE q == attempts[o]
           x0 == [op |-> o, number |-> Len(q), token |-> ref.token]
<1>1. /\ ref.token \in 1..MaxToken
      /\ lease.token = ref.token
      /\ status \notin Terminal
  BY HolderFacts DEF RestartRunningAttempt
<1>2. OpOK(q, lease.token) /\ q \in Seq(Attempt) /\ Len(q) \in Nat /\ q # <<>>
  BY DEF DurableInv, AttemptsOK, OpOK, RestartRunningAttempt
<1>3. Len(q) \in 1..Len(q)
  BY <1>2
<1>4. q[Len(q)].status = "running" /\ q[Len(q)].token = ref.token
  BY <1>1, <1>2, <1>3 DEF RestartRunningAttempt, Latest, OpOK
<1>5. /\ authorised' = authorised \cup {x0}
      /\ UNCHANGED attempts /\ UNCHANGED <<execVars, now>>
  BY <1>4 DEF RestartRunningAttempt, Latest, Authorise
<1>6. AuthOK'
  BY <1>3, <1>4, <1>5 DEF DurableInv, AuthOK
<1>7. \A x \in authorised : x.op = o /\ x.number = Len(q) => x.token = ref.token
  BY <1>4 DEF DurableInv, AuthOK
<1>8. OneLeasePerEffect'
  BY <1>5, <1>7 DEF DurableInv, OneLeasePerEffect
<1>9. authorised' \subseteq [op : Ops, number : Nat, token : 1..MaxToken]
  BY <1>1, <1>2, <1>5 DEF DurableInv, TypeOK
<1>10. attempts' = [attempts EXCEPT ![o] = q]
  BY <1>5 DEF DurableInv, TypeOK
<1> QED
  BY <1>1, <1>2, <1>6, <1>8, <1>9, <1>10, <1>5, OneOpStep

\* The operations on attempts keep the invariant.
LEMMA AttemptStepInv == ASSUME DurableInv, AttemptStep PROVE DurableInv'
<1>1. ASSUME NEW o \in Ops, NEW n \in 1..MaxAttempts, NEW v \in 1..3,
             NEW ref \in granted, NEW outcome \in Settled \cup {"unknown"},
             FinishAttempt(ref, o, n, v, outcome)
      PROVE  DurableInv'
  BY <1>1, SettleStep
  DEF FinishAttempt, Settled, AttemptStatus, Uncertain
<1>2. ASSUME NEW o \in Ops, NEW n \in 1..MaxAttempts, NEW v \in 1..3,
             NEW outcome \in Settled \cup {"abandoned"},
             ReconcileAttempt(o, n, v, outcome)
      PROVE  DurableInv'
  BY <1>2, SettleStep
  DEF ReconcileAttempt, Settled, AttemptStatus, Uncertain
<1> QED
  BY <1>1, <1>2, StartNewAttemptInv, RestartRunningAttemptInv DEF AttemptStep

\* Every step keeps the invariant.
LEMMA StepDurableInv == DurableInv /\ [Next]_vars => DurableInv'
<1> SUFFICES ASSUME DurableInv, [Next]_vars PROVE DurableInv'
  OBVIOUS
<1>1. CASE Tick \/ UNCHANGED vars
  <2>1. TypeOK'
    BY <1>1 DEF Tick, vars, execVars, DurableInv, TypeOK
  <2>2. LeaseOK' /\ TerminalIsCertain'
    BY <1>1 DEF Tick, vars, execVars, DurableInv, LeaseOK, TerminalIsCertain,
       hasUncertainAttempts
  <2> QED
    BY <1>1, <2>1, <2>2, QuietStep DEF Tick, vars, execVars
<1> QED
  BY <1>1, ExecutionStepInv, AttemptStepInv DEF Next

\* Every reachable state of the backend satisfies the invariant.
THEOREM DurableInvariant == Spec => []DurableInv
BY InitDurableInv, StepDurableInv, PTL DEF Spec

\* The state of one execution keeps its type (durable_backend.go:
\* validateDurableRecord never has to refuse a save).
THEOREM DurableTypeOK == Spec => []TypeOK
<1>1. DurableInv => TypeOK
  BY DEF DurableInv
<1> QED
  BY <1>1, DurableInvariant, PTL

\* No attempt is left running for a worker that lost its lease.
THEOREM DurableRunningIsFenced == Spec => []RunningIsFenced
<1>1. DurableInv => RunningIsFenced
  BY DEF DurableInv, AttemptsOK, OpOK, RunningIsFenced, NoLease
<1> QED
  BY <1>1, DurableInvariant, PTL

\* No two leases are told to execute the same attempt of an operation.
THEOREM DurableOneLeasePerEffect == Spec => []OneLeasePerEffect
<1>1. DurableInv => OneLeasePerEffect
  BY DEF DurableInv
<1> QED
  BY <1>1, DurableInvariant, PTL

\* A terminal execution has no uncertain effect.
THEOREM DurableTerminalIsCertain == Spec => []TerminalIsCertain
<1>1. DurableInv => TerminalIsCertain
  BY DEF DurableInv
<1> QED
  BY <1>1, DurableInvariant, PTL

-----------------------------------------------------------------------------
(* A claim that lost its lease does not get it back. *)

\* Tokens are handed out once, in increasing order, and the receipt of a claim
\* is its newest token.
GrantsOK ==
  /\ \A x, y \in granted : x.token = y.token => x = y
  /\ \A x \in granted : /\ x.token <= nextToken
                        /\ receipts[x.mode][x.claim] # 0
  /\ \A m \in Modes, c \in Claims :
       receipts[m][c] # 0 =>
         [mode |-> m, claim |-> c, token |-> receipts[m][c]] \in granted
  /\ status = "absent" => granted = {}

ReceiptInv == DurableInv /\ GrantsOK /\ ClaimNeverReturns

\* Handing the next token to a claim that has none, or has the newest one,
\* keeps the receipts right.
LEMMA GrantKeepsReceipts ==
  ASSUME ReceiptInv, NEW m \in Modes, NEW c \in Claims, Grant(m, c),
         receipts[m][c] # 0 => nextToken = receipts[m][c]
  PROVE  GrantsOK' /\ ClaimNeverReturns'
<1> DEFINE g == [mode |-> m, claim |-> c, token |-> nextToken + 1]
<1>1. /\ nextToken \in Nat /\ granted \subseteq Refs
      /\ receipts \in [Modes -> [Claims -> 0..MaxToken]]
      /\ MaxToken \in Nat
  BY DurableAssumption DEF ReceiptInv, DurableInv, TypeOK
<1>2. /\ granted' = granted \cup {g} /\ nextToken' = nextToken + 1
      /\ receipts' = [receipts EXCEPT ![m][c] = nextToken + 1]
      /\ status' = "running"
  BY DEF Grant
<1>3. \A x \in granted : /\ x.token \in Nat /\ x.token <= nextToken
                         /\ x.mode \in Modes /\ x.claim \in Claims
  BY <1>1 DEF ReceiptInv, GrantsOK, Refs
<1>4. \A x \in granted :
        x.mode = m /\ x.claim = c =>
          [mode |-> m, claim |-> c, token |-> nextToken] \in granted
  BY <1>1, <1>3 DEF ReceiptInv, GrantsOK
<1>5. ClaimNeverReturns'
  <2> SUFFICES ASSUME NEW x \in granted', NEW y \in granted',
                      NEW z \in granted', x.mode = y.mode,
                      x.claim = y.claim, x.token < z.token,
                      z.token < y.token
               PROVE  z.mode = x.mode /\ z.claim = x.claim
    BY DEF ClaimNeverReturns
  <2>1. x \in granted /\ z \in granted
    BY <1>1, <1>2, <1>3
  <2>2. CASE y \in granted
    BY <2>1, <2>2 DEF ReceiptInv, ClaimNeverReturns
  <2>3. CASE y = g
    <3> DEFINE h == [mode |-> m, claim |-> c, token |-> nextToken]
    <3>1. h \in granted
      BY <1>4, <2>1, <2>3
    <3>2. CASE z.token = nextToken
      BY <2>1, <2>3, <3>1, <3>2 DEF ReceiptInv, GrantsOK
    <3>3. CASE z.token < nextToken
      BY <2>1, <2>3, <3>1, <3>3 DEF ReceiptInv, ClaimNeverReturns
    <3>4. z.token \in Nat /\ z.token <= nextToken
      BY <1>3, <2>1
    <3> QED
      BY <1>1, <3>2, <3>3, <3>4
  <2> QED
    BY <1>2, <2>2, <2>3
<1>6. \A x, y \in granted' : x.token = y.token => x = y
  BY <1>1, <1>2, <1>3 DEF ReceiptInv, GrantsOK
<1>7. \A x \in granted' : /\ x.token <= nextToken'
                          /\ receipts'[x.mode][x.claim] # 0
  BY <1>1, <1>2, <1>3 DEF ReceiptInv, GrantsOK
<1>8. \A k \in Modes, d \in Claims :
        receipts'[k][d] # 0 =>
          [mode |-> k, claim |-> d, token |-> receipts'[k][d]] \in granted'
  BY <1>1, <1>2 DEF ReceiptInv, GrantsOK
<1> QED
  BY <1>2, <1>5, <1>6, <1>7, <1>8 DEF GrantsOK

\* Every step keeps the receipts right.
LEMMA StepReceiptInv == ReceiptInv /\ [Next]_vars => ReceiptInv'
<1> SUFFICES ASSUME ReceiptInv, [Next]_vars
             PROVE  GrantsOK' /\ ClaimNeverReturns'
  BY StepDurableInv DEF ReceiptInv
<1>1. ASSUME NEW c \in Claims, CreateExecution(c)
      PROVE  GrantsOK' /\ ClaimNeverReturns'
  <2>1. "start" \in Modes /\ Grant("start", c) /\ granted = {}
    BY <1>1 DEF CreateExecution, ReceiptInv, GrantsOK, Modes
  <2>2. receipts["start"][c] = 0
    BY <2>1 DEF ReceiptInv, GrantsOK
  <2> QED
    BY <2>1, <2>2, GrantKeepsReceipts
<1>2. ASSUME NEW mode \in Modes, NEW c \in Claims, ClaimExecution(mode, c)
      PROVE  GrantsOK' /\ ClaimNeverReturns'
  BY <1>2, GrantKeepsReceipts DEF ClaimExecution
<1>3. ASSUME UNCHANGED <<granted, receipts, nextToken>>,
             status' = "absent" => status = "absent"
      PROVE  GrantsOK' /\ ClaimNeverReturns'
  BY <1>3 DEF ReceiptInv, GrantsOK, ClaimNeverReturns
<1>4. CASE \E ref \in granted :
       \/ RenewExecution(ref)
       \/ ReleaseExecution(ref)
       \/ \E v \in 1..MaxVersion :
            \/ SuspendExecution(ref, v)
            \/ \E result \in Terminal : FinishExecution(ref, v, result)
            \/ \E s \in 1..MaxVersion, k \in Contents :
                 SaveCheckpoint(ref, s, k, v)
  BY <1>3, <1>4 DEF RenewExecution, ReleaseExecution, SuspendExecution,
     FinishExecution, SaveCheckpoint, Terminal
<1>5. CASE AttemptStep
  BY <1>3, <1>5 DEF AttemptStep, StartNewAttempt, RestartRunningAttempt,
     FinishAttempt, ReconcileAttempt, execVars
<1>6. CASE Tick \/ UNCHANGED vars
  BY <1>3, <1>6 DEF Tick, vars, execVars
<1> QED
  BY <1>1, <1>2, <1>4, <1>5, <1>6 DEF Next, ExecutionStep

\* A delayed duplicate of a start or resume request never takes the lease back
\* (claimForStart and ResumeExecution, by the receipt of the claim), for any
\* number of claims and tokens.
THEOREM DurableClaimNeverReturns == Spec => []ClaimNeverReturns
<1>1. Init => ReceiptInv
  BY InitDurableInv DEF Init, ReceiptInv, GrantsOK, ClaimNeverReturns
<1>2. ReceiptInv => ClaimNeverReturns
  BY DEF ReceiptInv
<1> QED
  BY <1>1, <1>2, StepReceiptInv, PTL DEF Spec

-----------------------------------------------------------------------------
(* The backend implements the operation ledger. *)

\* A transition of the ledger, under the refinement mapping.
LedgerStep == [Ledger!LedgerNext]_(Ledger!ledgerVars)

\* A new store maps to an empty ledger.
LEMMA InitLedger == Init => Ledger!LedgerInit
BY DEF Init, Ledger!LedgerInit, Ledger!NoAttempt, ledgerBar, BarOf, Terminal

\* Steps that change neither the attempts nor whether the execution is over.
LEMMA QuietLedger ==
  ASSUME UNCHANGED attempts, (status' \in Terminal) = (status \in Terminal)
  PROVE  LedgerStep
BY DEF LedgerStep, Ledger!ledgerVars, ledgerBar, BarOf

\* Steps that make every running attempt uncertain lose the worker.
LEMMA ReconcileLedger ==
  ASSUME DurableInv, status \notin Terminal, status' \notin Terminal,
         NEW token \in Nat, token = 0 \/ token = lease.token,
         attempts' = reconcileRunning(token)
  PROVE  LedgerStep
<1> DEFINE lost == {o \in Ops : ledgerBar[o].status = "running"}
<1>1. ASSUME NEW o \in Ops
      PROVE  BarOf(attempts'[o]) =
               IF ledgerBar[o].status = "running"
                 THEN [number |-> ledgerBar[o].number, status |-> "unknown"]
                 ELSE ledgerBar[o]
  <2>1. /\ attempts[o] \in Seq(Attempt) /\ Len(attempts[o]) \in Nat
        /\ attempts'[o] \in Seq(Attempt)
        /\ Len(attempts'[o]) = Len(attempts[o])
    <3>1. OpOK(attempts'[o], 0) /\ Len(attempts'[o]) = Len(attempts[o])
      BY ReconcileAll
    <3> QED
      BY <3>1 DEF DurableInv, AttemptsOK, OpOK
  <2>2. CASE attempts[o] = <<>>
    <3>1. attempts'[o] = <<>>
      BY <2>1, <2>2
    <3> QED
      BY <2>2, <3>1 DEF ledgerBar, BarOf
  <2>3. CASE attempts[o] # <<>>
    <3>1. Len(attempts[o]) \in 1..Len(attempts[o]) /\ attempts'[o] # <<>>
      BY <2>1, <2>3
    <3>2. attempts'[o][Len(attempts[o])] =
            IF attempts[o][Len(attempts[o])].status = "running"
              THEN Settle(attempts[o][Len(attempts[o])], "unknown")
              ELSE attempts[o][Len(attempts[o])]
      BY <3>1, ReconcileAll
    <3> QED
      BY <2>1, <2>3, <3>1, <3>2 DEF ledgerBar, BarOf, Settle
  <2> QED
    BY <2>2, <2>3
<1>2. ledgerBar' = [o \in Ops |-> IF o \in lost
                      THEN [number |-> ledgerBar[o].number, status |-> "unknown"]
                      ELSE ledgerBar[o]]
  BY <1>1 DEF ledgerBar
<1>3. Ledger!LoseWorker
  BY <1>2 DEF Ledger!LoseWorker, Ledger!Standing
<1> QED
  BY <1>3 DEF LedgerStep, Ledger!LedgerNext

\* Settling the open attempt of an operation moves its ledger entry.
LEMMA SettleBar ==
  ASSUME DurableInv, NEW o \in Ops, NEW n \in 1..Len(attempts[o]),
         attempts[o][n].status \in Uncertain,
         NEW s \in AttemptStatus \ {"running"},
         s = "unknown" => attempts[o][n].status = "running",
         attempts' = [attempts EXCEPT ![o][n] = Settle(@, s)]
  PROVE  /\ ledgerBar[o].status = attempts[o][n].status
         /\ ledgerBar' = [ledgerBar EXCEPT ![o] =
                            [number |-> ledgerBar[o].number, status |-> s]]
         /\ status \notin Terminal
<1> DEFINE q == attempts[o]
           r == [q EXCEPT ![n] = Settle(@, s)]
<1>1. OpOK(q, lease.token) /\ (s = "unknown" => q[n].version = 1)
      /\ q \in Seq(Attempt) /\ Len(q) \in Nat /\ q # <<>>
  BY DEF DurableInv, AttemptsOK, OpOK
<1>2. /\ OpOK(r, lease.token)
      /\ n = Len(q)
      /\ Len(r) = Len(q)
      /\ r[n].status = s
  BY <1>1, SettleOne
<1>3. r # <<>> /\ BarOf(r) = [number |-> Len(q), status |-> s]
  BY <1>1, <1>2 DEF BarOf, OpOK
<1>4. ledgerBar[o] = [number |-> Len(q), status |-> q[n].status]
  BY <1>1, <1>2 DEF ledgerBar, BarOf
<1>5. attempts' = [attempts EXCEPT ![o] = r]
  OBVIOUS
<1>6. \A p \in Ops : BarOf(attempts'[p]) =
                       IF p = o THEN BarOf(r) ELSE BarOf(attempts[p])
  BY <1>5 DEF DurableInv, TypeOK
<1>7. ledgerBar' = [ledgerBar EXCEPT ![o] =
                     [number |-> ledgerBar[o].number, status |-> s]]
  <2>1. ledgerBar' = [p \in Ops |-> BarOf(attempts'[p])]
    BY DEF ledgerBar
  <2>2. BarOf(r) = [number |-> ledgerBar[o].number, status |-> s]
    BY <1>3, <1>4
  <2>3. ledgerBar = [p \in Ops |-> BarOf(attempts[p])]
    BY DEF ledgerBar
  <2> HIDE DEF r
  <2> QED
    BY <1>6, <2>1, <2>2, <2>3
<1>8. status \notin Terminal
  BY DEF DurableInv, TerminalIsCertain, hasUncertainAttempts
<1> QED
  BY <1>4, <1>7, <1>8

(* Appending keeps what was there and puts the new element last. *)
LEMMA AppendLast ==
  ASSUME NEW S, NEW q \in Seq(S), NEW a \in S
  PROVE  /\ Append(q, a) # <<>>
         /\ Len(Append(q, a)) = Len(q) + 1
         /\ Append(q, a)[Len(q) + 1] = a
  OBVIOUS

\* The operations on attempts are ledger steps.
LEMMA AttemptLedger == ASSUME DurableInv, AttemptStep PROVE LedgerStep
<1>1. ASSUME NEW o \in Ops, NEW ref \in granted, NEW input \in Inputs,
             StartNewAttempt(ref, o, input)
      PROVE  LedgerStep
  <2> DEFINE q == attempts[o]
             a == newAttempt(ref, input)
  <2>1. q \in Seq(Attempt) /\ Len(q) \in Nat
    BY DEF DurableInv, TypeOK
  <2>2. ref.token \in 1..MaxToken /\ status \notin Terminal
    BY <1>1, HolderFacts DEF StartNewAttempt
  <2>3. a \in Attempt
    BY <2>2 DEF newAttempt, Attempt, AttemptStatus, Uncertain
  <2>4. BarOf(Append(q, a)) = [number |-> Len(q) + 1, status |-> "running"]
    <3>1. /\ Append(q, a) # <<>> /\ Len(Append(q, a)) = Len(q) + 1
          /\ Append(q, a)[Len(q) + 1] = a
      <4> HIDE DEF q, a
      <4> QED
        BY <2>1, <2>3, AppendLast
    <3> QED
      BY <3>1 DEF BarOf, newAttempt
  <2>5. /\ ledgerBar[o].number = Len(q)
        /\ ledgerBar[o].status \in {"none", "abandoned"}
    BY <1>1, <2>1 DEF StartNewAttempt, Latest, ledgerBar, BarOf
  <2>6. attempts' = [attempts EXCEPT ![o] = Append(q, a)]
    BY <1>1 DEF StartNewAttempt
  <2>7. \A p \in Ops : BarOf(attempts'[p]) =
          IF p = o THEN BarOf(Append(q, a)) ELSE BarOf(attempts[p])
    BY <2>6 DEF DurableInv, TypeOK
  <2>8. ledgerBar' = [ledgerBar EXCEPT ![o] =
                        [number |-> ledgerBar[o].number + 1, status |-> "running"]]
    BY <2>4, <2>5, <2>7 DEF ledgerBar
  <2>9. Ledger!Begin(o)
    BY <2>5, <2>8 DEF Ledger!Begin
  <2>10. status' = status
    BY <1>1 DEF StartNewAttempt, execVars
  <2> QED
    BY <2>2, <2>9, <2>10 DEF LedgerStep, Ledger!LedgerNext
<1>2. ASSUME NEW o \in Ops, NEW ref \in granted, NEW input \in Inputs,
             RestartRunningAttempt(ref, o, input)
      PROVE  LedgerStep
  <2>1. lease.token = ref.token
    BY <1>2, HolderFacts DEF RestartRunningAttempt
  <2>2. attempts[o] \in Seq(Attempt) /\ attempts[o] # <<>>
        /\ Len(attempts[o]) \in 1..Len(attempts[o])
    BY <1>2 DEF RestartRunningAttempt, DurableInv, TypeOK
  <2>3. Latest(o).token = ref.token
    BY <1>2, <2>1, <2>2 DEF RestartRunningAttempt, Latest, DurableInv,
       AttemptsOK, OpOK
  <2> QED
    BY <1>2, <2>3, QuietLedger DEF RestartRunningAttempt, execVars
<1>3. ASSUME NEW o \in Ops, NEW n \in 1..MaxAttempts, NEW v \in 1..3,
             NEW ref \in granted, NEW outcome \in Settled \cup {"unknown"},
             FinishAttempt(ref, o, n, v, outcome)
      PROVE  LedgerStep
  <2>1. /\ ledgerBar[o].status = "running"
        /\ ledgerBar' = [ledgerBar EXCEPT ![o] =
                           [number |-> ledgerBar[o].number, status |-> outcome]]
        /\ status \notin Terminal
    BY <1>3, SettleBar
    DEF FinishAttempt, Settled, AttemptStatus, Uncertain
  <2>2. status' = status
    BY <1>3 DEF FinishAttempt, execVars
  <2>3. CASE outcome \in Settled
    BY <2>1, <2>2, <2>3 DEF LedgerStep, Ledger!LedgerNext,
       Ledger!SettleOutcome, Ledger!Standing, Settled
  <2>4. CASE outcome = "unknown"
    <3>1. ledgerBar' = [p \in Ops |-> IF p \in {o}
             THEN [number |-> ledgerBar[p].number, status |-> "unknown"]
             ELSE ledgerBar[p]]
      BY <2>1, <2>4 DEF ledgerBar
    <3>2. {o} \in SUBSET {p \in Ops : ledgerBar[p].status = "running"}
      BY <2>1
    <3>3. Ledger!LoseWorker
      BY <3>1, <3>2 DEF Ledger!LoseWorker, Ledger!Standing
    <3> QED
      BY <2>1, <2>2, <3>3 DEF LedgerStep, Ledger!LedgerNext
  <2> QED
    BY <2>3, <2>4
<1>4. ASSUME NEW o \in Ops, NEW n \in 1..MaxAttempts, NEW v \in 1..3,
             NEW outcome \in Settled \cup {"abandoned"},
             ReconcileAttempt(o, n, v, outcome)
      PROVE  LedgerStep
  <2>1. /\ ledgerBar[o].status = "unknown"
        /\ ledgerBar' = [ledgerBar EXCEPT ![o] =
                           [number |-> ledgerBar[o].number, status |-> outcome]]
        /\ status \notin Terminal
    <3>1. /\ n \in 1..Len(attempts[o]) /\ attempts[o][n].status = "unknown"
          /\ attempts' = [attempts EXCEPT ![o][n] = Settle(@, outcome)]
      BY <1>4 DEF ReconcileAttempt
    <3>2. outcome \in AttemptStatus \ {"running"} /\ outcome # "unknown"
      BY DEF AttemptStatus, Settled, Uncertain
    <3>3. attempts[o][n].status \in Uncertain
      BY <3>1 DEF Uncertain
    <3> QED
      BY <3>1, <3>2, <3>3, SettleBar
  <2>2. status' = status
    BY <1>4 DEF ReconcileAttempt, execVars
  <2>3. CASE outcome \in Settled
    BY <2>1, <2>2, <2>3 DEF LedgerStep, Ledger!LedgerNext,
       Ledger!SettleOutcome, Ledger!Standing, Settled
  <2>4. CASE outcome = "abandoned"
    BY <2>1, <2>2, <2>4 DEF LedgerStep, Ledger!LedgerNext,
       Ledger!AllowRetry, Ledger!Standing
  <2> QED
    BY <2>3, <2>4
<1> QED
  BY <1>1, <1>2, <1>3, <1>4 DEF AttemptStep

\* The operations on the execution are ledger steps or stutters.
LEMMA ExecutionLedger == ASSUME DurableInv, ExecutionStep PROVE LedgerStep
<1>1. ASSUME NEW c \in Claims, CreateExecution(c) PROVE LedgerStep
  BY <1>1, QuietLedger DEF CreateExecution, Grant, Terminal
<1>2. ASSUME NEW mode \in Modes, NEW c \in Claims, ClaimExecution(mode, c)
      PROVE  LedgerStep
  BY <1>2, ReconcileLedger DEF ClaimExecution, Grant, Terminal
<1>3. ASSUME NEW ref \in granted, RenewExecution(ref) PROVE LedgerStep
  BY <1>3, QuietLedger DEF RenewExecution
<1>4. ASSUME NEW ref \in granted, ReleaseExecution(ref) PROVE LedgerStep
  <2>1. lease # NoLease
    BY <1>4, ReconcileTokenNat DEF ReleaseExecution, leaseMatches, NoLease
  <2>2. status \notin Terminal
    BY <2>1 DEF DurableInv, LeaseOK, Terminal
  <2> QED
    BY <1>4, <2>2, ReconcileLedger, ReconcileTokenNat
    DEF ReleaseExecution, leaseMatches
<1>5. ASSUME NEW ref \in granted, NEW v \in 1..MaxVersion,
             SuspendExecution(ref, v)
      PROVE  LedgerStep
  <2>1. status \notin Terminal
    BY <1>5, HolderFacts DEF SuspendExecution
  <2> QED
    BY <1>5, <2>1, ReconcileLedger, ReconcileTokenNat
    DEF SuspendExecution, requireActiveLease, leaseMatches, Terminal
<1>6. ASSUME NEW ref \in granted, NEW v \in 1..MaxVersion,
             NEW result \in Terminal, FinishExecution(ref, v, result)
      PROVE  LedgerStep
  <2>1. \A o \in Ops : ledgerBar[o].status \notin {"running", "unknown"}
    <3> SUFFICES ASSUME NEW o \in Ops
                 PROVE  ledgerBar[o].status \notin {"running", "unknown"}
      OBVIOUS
    <3>1. attempts[o] \in Seq(Attempt)
      BY DEF DurableInv, TypeOK
    <3>2. attempts[o] # <<>> => Len(attempts[o]) \in 1..Len(attempts[o])
      BY <3>1
    <3> QED
      BY <1>6, <3>2 DEF FinishExecution, hasUncertainAttempts, Uncertain,
         ledgerBar, BarOf
  <2>2. ledgerBar' = ledgerBar
    BY <1>6 DEF FinishExecution, ledgerBar
  <2> QED
    BY <1>6, <2>1, <2>2 DEF FinishExecution, LedgerStep, Ledger!LedgerNext,
       Ledger!Close
<1>7. ASSUME NEW ref \in granted, NEW v \in 1..MaxVersion,
             NEW s \in 1..MaxVersion, NEW k \in Contents,
             SaveCheckpoint(ref, s, k, v)
      PROVE  LedgerStep
  BY <1>7, QuietLedger DEF SaveCheckpoint
<1> QED
  BY <1>1, <1>2, <1>3, <1>4, <1>5, <1>6, <1>7 DEF ExecutionStep

\* Whatever arrives late, twice or from a dead worker, the backend only moves
\* operations the way the ledger allows: no effect is repeated without an
\* explicit retry, and no execution finishes over an uncertain effect.
THEOREM DurableImplementsLedger == Spec => LedgerSpec
<1>1. DurableInv /\ [Next]_vars => LedgerStep
  <2> SUFFICES ASSUME DurableInv, [Next]_vars PROVE LedgerStep
    OBVIOUS
  <2>1. CASE Tick \/ UNCHANGED vars
    BY <2>1, QuietLedger DEF Tick, vars, execVars
  <2> QED
    BY <2>1, ExecutionLedger, AttemptLedger DEF Next
<1> QED
  BY <1>1, InitLedger, DurableInvariant, PTL
  DEF Spec, LedgerSpec, Ledger!LedgerSpec, LedgerStep
=============================================================================
