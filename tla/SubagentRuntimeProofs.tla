------------------------ MODULE SubagentRuntimeProofs ------------------------
(***************************************************************************)
(* That a slot is taken and given back once, whoever ends a child, and no  *)
(* more children run than the limit allows; that no save undoes the end of *)
(* a child; and that the end of a child starts one wake turn at most. For  *)
(* any children, limit and scenario.                                       *)
(*                                                                         *)
(* What the threads of a child may do to each other is a matter of that    *)
(* child's entry, jobs and row (ChildOK), and all steps but two touch one  *)
(* child only. Those two end with pumpLocked, which is treated apart from  *)
(* what comes before it; the predicates therefore have the state as their  *)
(* arguments.                                                              *)
(***************************************************************************)
EXTENDS SubagentRuntime, Integers, FiniteSetTheorems, SequenceTheorems, TLAPS

-----------------------------------------------------------------------------
(* The inductive invariant. *)

Entries == [in : BOOLEAN, fallback : BOOLEAN, run : Runs, slot : BOOLEAN,
            ending : BOOLEAN, live : BOOLEAN]

Done == Terminal \ {"interrupted"}

Saving == {"persist", "saved", "failed"}

\* The entry m, the jobs j and the row r of one child. It is spawned or recovered
\* once in a process; whoever has a slot was enqueued; an entry that terminalize
\* is at work on is ending; and once the row has an end, nobody saves another one.
ChildOK(m, j, r) ==
  /\ j["spawn"].pc = "idle" => ~m.in /\ j["end"].pc = "idle"
  /\ m.slot => m.in /\ j["spawn"].pc = "done"
  /\ m.in /\ j["end"].pc \in Saving => m.ending
  /\ r.state \in Done => (~m.in \/ m.ending) /\ j["end"].pc # "persist"
  /\ \A t \in Threads : t # "end" /\ j[t].pc = "persist" => j[t].run.state \notin Done

\* What is pending was enqueued once and has no slot yet.
QueueOK(m, j, q) ==
  /\ \A i \in DOMAIN q : ~m[q[i]].slot /\ j[q[i]]["spawn"].pc = "done"
  /\ \A i, k \in DOMAIN q : q[i] = q[k] => i = k

SlotsOf(m) == {c \in Children : m[c].slot}

RunsOf(m) == {c \in Children : m[c].slot /\ ~m[c].ending}

\* n slots are taken, and the limit is kept.
Admitted(m, n) ==
  /\ IsFiniteSet(SlotsOf(m)) /\ n = Cardinality(SlotsOf(m))
  /\ MaxConcurrency > 0 =>
       Cardinality(RunsOf(m))
         <= MaxConcurrency + (IF RunsOf(m) \cap Nested = {} THEN 0 ELSE 1)

StateOK(m, j, r, q, n) ==
  /\ m \in [Children -> Entries] /\ j \in [Children -> [Threads -> Jobs]]
  /\ r \in [Children -> Runs] /\ q \in Seq(Children) /\ n \in Nat
  /\ \A c \in Children : ChildOK(m[c], j[c], r[c])
  /\ QueueOK(m, j, q)
  /\ Admitted(m, n)

\* A child is claimed by one waker; after its turn was started it is marked, or
\* is going to be.
WakeOK(r, w, l) ==
  /\ w["child"].runs \cap w["turn"].runs = {}
  /\ \A c \in Children : l[c] # 0 =>
       /\ l[c] = 1 /\ r[c].bg /\ r[c].state \in {"completed", "failed"}
       /\ r[c].delivered \/ \E v \in Wakers : w[v].pc = "started" /\ c \in w[v].runs

OthersOK ==
  /\ wait \in [Children -> {"none", "spawning", "refusing", "failing", "starting",
                            "waiting", "unbounded", "detaching"}]
  /\ turn \in {"running", "stopping", "idle", "waking"}
  /\ left \in Scenarios

WakersOK ==
  /\ wake \in [Wakers -> [due : BOOLEAN, pc : {"idle", "claimed", "started"},
                          runs : SUBSET Children]]
  /\ log \in [Children -> Nat]

SubagentInv ==
  /\ StateOK(mem, job, row, pending, running)
  /\ OthersOK /\ WakersOK /\ WakeOK(row, wake, log)

-----------------------------------------------------------------------------
(* What the helpers do to the jobs. *)

PCs == {"idle", "created", "ready", "preparing", "working", "persist",
        "saved", "superseded", "failed", "done"}

LEMMA RunTypes ==
  /\ NoRun \in Runs /\ NoEntry \in Entries
  /\ Idle \in Jobs /\ Idle.pc = "idle" /\ NoRun.state = "none"
  /\ \A run \in Runs : \A state \in {"none"} \cup Incomplete \cup Terminal :
       /\ [run EXCEPT !.state = state] \in Runs
       /\ [run EXCEPT !.state = state].state = state
       /\ [run EXCEPT !.state = state].bg = run.bg
BY DEF NoRun, Runs, NoEntry, Entries, Idle, Jobs, Tags, Incomplete, Terminal

\* A job is replaced.
LEMMA JobAt ==
  ASSUME job \in [Children -> [Threads -> Jobs]], NEW c \in Children, NEW t \in Threads,
         NEW x \in Jobs
  PROVE  LET j == [job EXCEPT ![c] = [job[c] EXCEPT ![t] = x]]
         IN  /\ j \in [Children -> [Threads -> Jobs]]
             /\ \A d \in Children : d # c => j[d] = job[d]
             /\ \A u \in Threads : u # t => j[c][u] = job[c][u]
             /\ j[c][t] = x
OBVIOUS

\* A thread that goes to pc.
LEMMA WentJob ==
  ASSUME job \in [Children -> [Threads -> Jobs]], NEW c \in Children, NEW t \in Threads,
         NEW pc \in PCs
  PROVE  LET j == Went(c, t, pc)
         IN  /\ j \in [Children -> [Threads -> Jobs]]
             /\ \A d \in Children : d # c => j[d] = job[d]
             /\ \A u \in Threads : u # t => j[c][u] = job[c][u]
             /\ j[c][t].pc = pc
<1> DEFINE x == CASE pc = "saved" \/ (t = "end" /\ pc = "failed")
                       -> [job[c][t] EXCEPT !.pc = pc]
                  [] pc = "superseded" \/ (t # "end" /\ pc = "failed")
                       -> [job[c][t] EXCEPT !.pc = pc, !.run = NoRun]
                  [] OTHER -> [Idle EXCEPT !.pc = pc]
<1>1. job[c][t] \in Jobs
  OBVIOUS
<1>2. x \in Jobs /\ x.pc = pc
  <2>1. [job[c][t] EXCEPT !.pc = pc] \in Jobs /\ [job[c][t] EXCEPT !.pc = pc].pc = pc
    BY <1>1 DEF Jobs, PCs
  <2>2. /\ [job[c][t] EXCEPT !.pc = pc, !.run = NoRun] \in Jobs
        /\ [job[c][t] EXCEPT !.pc = pc, !.run = NoRun].pc = pc
    BY <1>1, RunTypes DEF Jobs, PCs
  <2>3. [Idle EXCEPT !.pc = pc] \in Jobs /\ [Idle EXCEPT !.pc = pc].pc = pc
    BY RunTypes DEF Jobs, PCs
  <2>4. CASE pc = "saved" \/ (t = "end" /\ pc = "failed")
    BY <2>1, <2>4
  <2>5. CASE ~(pc = "saved" \/ (t = "end" /\ pc = "failed")) /\ (pc = "superseded" \/ (t # "end" /\ pc = "failed"))
    BY <2>2, <2>5
  <2>6. CASE ~(pc = "saved" \/ (t = "end" /\ pc = "failed")) /\ ~(pc = "superseded" \/ (t # "end" /\ pc = "failed"))
    BY <2>3, <2>6
  <2> QED
    BY <2>4, <2>5, <2>6
<1>3. Went(c, t, pc) = [job EXCEPT ![c] = [job[c] EXCEPT ![t] = x]]
  BY DEF Went
<1> QED
  BY <1>2, <1>3, JobAt

\* A thread that takes a copy.
LEMMA CopiedJob ==
  ASSUME job \in [Children -> [Threads -> Jobs]], NEW c \in Children, NEW t \in Threads,
         NEW run \in Runs,
         NEW tag \in Tags
  PROVE  LET j == Copied(c, t, run, tag)
         IN  /\ j \in [Children -> [Threads -> Jobs]]
             /\ \A d \in Children : d # c => j[d] = job[d]
             /\ \A u \in Threads : u # t => j[c][u] = job[c][u]
             /\ j[c][t].pc = "persist" /\ j[c][t].run = run
<1> DEFINE x == [pc |-> "persist", run |-> run, tag |-> tag]
<1>1. x \in Jobs /\ x.pc = "persist" /\ x.run = run
  BY DEF Jobs
<1>2. Copied(c, t, run, tag) = [job EXCEPT ![c] = [job[c] EXCEPT ![t] = x]]
  BY DEF Copied
<1> HIDE DEF x
<1> QED
  BY <1>1, <1>2, JobAt


-----------------------------------------------------------------------------
(* A step that touches one child and leaves its slot alone. *)

Pools(m, j, r) ==
  /\ m \in [Children -> Entries] /\ j \in [Children -> [Threads -> Jobs]]
  /\ r \in [Children -> Runs]

\* Nothing undoes an end, or forgets that it was told.
RowsKept(r) ==
  \A c \in Children : row[c].state \in Done =>
    /\ r[c].state = row[c].state /\ r[c].bg = row[c].bg
    /\ row[c].delivered => r[c].delivered

Moved(c, m, j, r) ==
  /\ Pools(m, j, r)
  /\ \A d \in Children : d # c => m[d] = mem[d] /\ j[d] = job[d] /\ r[d] = row[d]
  /\ ChildOK(m[c], j[c], r[c])
  /\ m[c].slot = mem[c].slot
  /\ mem[c].slot /\ mem[c].ending => m[c].ending
  /\ job[c]["spawn"].pc = "done" => j[c]["spawn"].pc = "done"
  /\ RowsKept(r)

\* A child that is ending keeps its slot and runs no more.
LEMMA AdmittedQuiet ==
  ASSUME NEW m, NEW m1, NEW n, NEW c \in Children, MaxConcurrency \in Nat,
         Admitted(m, n),
         \A d \in Children : d # c => m1[d] = m[d],
         m1[c].slot = m[c].slot,
         m[c].slot /\ m[c].ending => m1[c].ending,
         m[c].ending \in BOOLEAN, m1[c].ending \in BOOLEAN,
         m[c].slot \in BOOLEAN, m1[c].slot \in BOOLEAN
  PROVE  Admitted(m1, n)
<1>1. SlotsOf(m1) = SlotsOf(m)
  BY DEF SlotsOf
<1>2. RunsOf(m1) = RunsOf(m) \/ RunsOf(m1) = RunsOf(m) \ {c}
  <2>1. CASE m1[c].ending = m[c].ending
    BY <2>1 DEF RunsOf
  <2>2. CASE ~m[c].slot
    BY <2>2 DEF RunsOf
  <2>3. CASE m1[c].ending /\ ~m[c].ending /\ m[c].slot
    BY <2>3 DEF RunsOf
  <2> QED
    BY <2>1, <2>2, <2>3
<1>3. CASE RunsOf(m1) = RunsOf(m)
  BY <1>1, <1>3 DEF Admitted
<1>4. CASE RunsOf(m1) = RunsOf(m) \ {c} /\ c \in RunsOf(m)
  <2>1. IsFiniteSet(RunsOf(m))
    <3>1. RunsOf(m) \subseteq SlotsOf(m)
      BY DEF RunsOf, SlotsOf
    <3> QED
      BY <3>1, FS_Subset DEF Admitted
  <2>2. /\ Cardinality(RunsOf(m1)) = Cardinality(RunsOf(m)) - 1
        /\ Cardinality(RunsOf(m)) \in Nat
    BY <2>1, <1>4, FS_RemoveElement, FS_CardinalityType
  <2>3. MaxConcurrency > 0 =>
          Cardinality(RunsOf(m1))
            <= MaxConcurrency + (IF RunsOf(m1) \cap Nested = {} THEN 0 ELSE 1)
    <3>1. RunsOf(m1) \cap Nested = {} \/ RunsOf(m) \cap Nested # {}
      BY <1>4
    <3> QED
      BY <3>1, <2>2 DEF Admitted
  <2> QED
    BY <2>3, <1>1 DEF Admitted
<1> QED
  BY <1>2, <1>3, <1>4

LEMMA MovedState ==
  ASSUME StateOK(mem, job, row, pending, running), MaxConcurrency \in Nat,
         NEW c \in Children, NEW m, NEW j, NEW r, Moved(c, m, j, r)
  PROVE  StateOK(m, j, r, pending, running)
<1>1. /\ Pools(m, j, r) /\ Pools(mem, job, row)
      /\ pending \in Seq(Children) /\ running \in Nat
  BY DEF StateOK, Moved, Pools
<1>2. \A d \in Children : ChildOK(m[d], j[d], r[d])
  <2>1. TAKE d \in Children
  <2>2. CASE d = c
    BY <2>2 DEF Moved
  <2>3. CASE d # c
    BY <2>3 DEF Moved, StateOK
  <2> QED
    BY <2>2, <2>3
<1>3. \A d \in Children : /\ m[d].slot = mem[d].slot
                          /\ job[d]["spawn"].pc = "done" => j[d]["spawn"].pc = "done"
  BY DEF Moved
<1>4. QueueOK(m, j, pending)
  <2>1. QueueOK(mem, job, pending)
    BY DEF StateOK
  <2>2. \A i \in DOMAIN pending : pending[i] \in Children
    BY <1>1
  <2> QED
    BY <2>1, <2>2, <1>3 DEF QueueOK
<1>5. Admitted(m, running)
  <2>1. /\ m[c].ending \in BOOLEAN /\ mem[c].ending \in BOOLEAN
        /\ m[c].slot \in BOOLEAN /\ mem[c].slot \in BOOLEAN
    BY <1>1 DEF Pools, Entries
  <2>2. Admitted(mem, running)
    BY DEF StateOK
  <2>3. \A d \in Children : d # c => m[d] = mem[d]
    BY DEF Moved
  <2>4. m[c].slot = mem[c].slot /\ (mem[c].slot /\ mem[c].ending => m[c].ending)
    BY DEF Moved
  <2> QED
    BY <2>1, <2>2, <2>3, <2>4, AdmittedQuiet
<1> QED
  BY <1>1, <1>2, <1>4, <1>5 DEF StateOK, Pools

\* The wakers look at ends only.
LEMMA WakeKept ==
  ASSUME NEW r, NEW w, WakeOK(row, wake, log), RowsKept(r),
         \A v \in Wakers : w[v].pc = wake[v].pc /\ w[v].runs = wake[v].runs
  PROVE  WakeOK(r, w, log)
<1>1. w["child"].runs \cap w["turn"].runs = {}
  BY DEF WakeOK, Wakers
<1>2. ASSUME NEW c \in Children, log[c] # 0
      PROVE  /\ log[c] = 1 /\ r[c].bg /\ r[c].state \in {"completed", "failed"}
             /\ r[c].delivered \/ \E v \in Wakers : w[v].pc = "started" /\ c \in w[v].runs
  <2>1. /\ log[c] = 1 /\ row[c].bg /\ row[c].state \in {"completed", "failed"}
        /\ row[c].delivered \/ \E v \in Wakers : wake[v].pc = "started" /\ c \in wake[v].runs
    BY <1>2 DEF WakeOK
  <2>2. row[c].state \in Done
    BY <2>1 DEF Done, Terminal
  <2>3. r[c].state = row[c].state /\ r[c].bg = row[c].bg /\ (row[c].delivered => r[c].delivered)
    BY <2>2 DEF RowsKept
  <2> QED
    BY <2>1, <2>3
<1> QED
  BY <1>1, <1>2 DEF WakeOK

-----------------------------------------------------------------------------
(* The steps of one child. *)

StateInv == StateOK(mem, job, row, pending, running)

\* What a child's own steps do: its entry, jobs and row only.
Quiet(c) == Moved(c, mem', job', row') /\ UNCHANGED <<pending, running, wake, log>>

LEMMA Pooled ==
  ASSUME StateInv
  PROVE  /\ mem \in [Children -> Entries] /\ job \in [Children -> [Threads -> Jobs]]
         /\ row \in [Children -> Runs]
         /\ \A c \in Children :
              /\ mem[c] \in Entries /\ mem[c].run \in Runs /\ row[c] \in Runs
              /\ mem[c].in \in BOOLEAN /\ mem[c].ending \in BOOLEAN
              /\ mem[c].slot \in BOOLEAN /\ mem[c].live \in BOOLEAN
              /\ ChildOK(mem[c], job[c], row[c])
              /\ \A t \in Threads : job[c][t] \in Jobs /\ job[c][t].run \in Runs
BY DEF StateInv, StateOK, Entries, Jobs

LEMMA Unmoved ==
  ASSUME StateInv, NEW r, r \in [Children -> Runs],
         \A c \in Children : r[c].state = row[c].state
  PROVE  \A c \in Children : ChildOK(mem[c], job[c], r[c])
BY Pooled DEF ChildOK

\* What the row of a child is replaced by.
LEMMA RowAt ==
  ASSUME StateInv, NEW c \in Children, NEW run \in Runs
  PROVE  /\ [row EXCEPT ![c] = run] \in [Children -> Runs]
         /\ [row EXCEPT ![c] = run][c] = run
         /\ \A d \in Children : d # c => [row EXCEPT ![c] = run][d] = row[d]
BY Pooled

LEMMA EntryAt ==
  ASSUME StateInv, NEW c \in Children, NEW e \in Entries
  PROVE  /\ [mem EXCEPT ![c] = e] \in [Children -> Entries]
         /\ [mem EXCEPT ![c] = e][c] = e
         /\ \A d \in Children : d # c => [mem EXCEPT ![c] = e][d] = mem[d]
BY Pooled

LEMMA EntryRun ==
  ASSUME StateInv, NEW c \in Children, NEW run \in Runs
  PROVE  LET m == [mem EXCEPT ![c].run = run]
         IN  /\ m \in [Children -> Entries]
             /\ m[c].run = run /\ m[c].in = mem[c].in /\ m[c].slot = mem[c].slot
             /\ m[c].ending = mem[c].ending /\ m[c].live = mem[c].live
             /\ \A d \in Children : d # c => m[d] = mem[d]
<1> DEFINE e == [mem[c] EXCEPT !.run = run]
<1>1. e \in Entries
  BY Pooled DEF Entries
<1>2. /\ e.run = run /\ e.in = mem[c].in /\ e.slot = mem[c].slot
      /\ e.ending = mem[c].ending /\ e.live = mem[c].live
  BY Pooled DEF Entries
<1>3. [mem EXCEPT ![c].run = run] = [mem EXCEPT ![c] = e]
  BY Pooled
<1> HIDE DEF e
<1> QED
  BY <1>1, <1>2, <1>3, EntryAt

LEMMA EntryLive ==
  ASSUME StateInv, NEW c \in Children, NEW live \in BOOLEAN
  PROVE  LET m == [mem EXCEPT ![c].live = live]
         IN  /\ m \in [Children -> Entries]
             /\ m[c].run = mem[c].run /\ m[c].in = mem[c].in /\ m[c].slot = mem[c].slot
             /\ m[c].ending = mem[c].ending
             /\ \A d \in Children : d # c => m[d] = mem[d]
<1> DEFINE e == [mem[c] EXCEPT !.live = live]
<1>1. e \in Entries
  BY Pooled DEF Entries
<1>2. /\ e.run = mem[c].run /\ e.in = mem[c].in /\ e.slot = mem[c].slot
      /\ e.ending = mem[c].ending
  BY Pooled DEF Entries
<1>3. [mem EXCEPT ![c].live = live] = [mem EXCEPT ![c] = e]
  BY Pooled
<1> HIDE DEF e
<1> QED
  BY <1>1, <1>2, <1>3, EntryAt

LEMMA RowsSame ==
  ASSUME NEW r, r = row
  PROVE  RowsKept(r) /\ \A d \in Children : r[d] = row[d]
BY DEF RowsKept

\* terminalize in the thread t.
LEMMA TerminalizeMoves ==
  ASSUME StateInv, NEW c \in Children, NEW t \in {"spawn", "exec", "cancel"},
         NEW state \in Done, NEW live \in BOOLEAN,
         terminalize(c, t, state, live), UNCHANGED row
  PROVE  Moved(c, mem', job', row')
<1> DEFINE pc == IF t = "cancel" THEN "idle" ELSE "done"
           j == Went(c, t, pc)
           run == [mem[c].run EXCEPT !.state = state]
           lv == mem[c].live /\ live
           m == [mem EXCEPT ![c].live = @ /\ live]
<1>1. t \in Threads /\ "end" \in Threads /\ pc \in PCs /\ "spawn" \in Threads
  BY DEF Threads, PCs
<1>2. /\ j \in [Children -> [Threads -> Jobs]]
      /\ \A d \in Children : d # c => j[d] = job[d]
      /\ \A u \in Threads : u # t => j[c][u] = job[c][u]
      /\ j[c][t].pc = pc
  BY <1>1, Pooled, WentJob
<1>3. run \in Runs
  BY Pooled, RunTypes DEF Done
<1>4. /\ m \in [Children -> Entries]
      /\ m[c].run = mem[c].run /\ m[c].in = mem[c].in /\ m[c].slot = mem[c].slot
      /\ m[c].ending = mem[c].ending
      /\ \A d \in Children : d # c => m[d] = mem[d]
  <2>1. lv \in BOOLEAN
    OBVIOUS
  <2>2. m = [mem EXCEPT ![c].live = lv]
    BY Pooled
  <2> HIDE DEF m, lv
  <2> QED
    BY <2>1, <2>2, EntryLive
<1>5. ChildOK(mem[c], job[c], row[c])
  BY Pooled
<1>6. row' \in [Children -> Runs] /\ RowsKept(row') /\ row'[c] = row[c] /\ \A d \in Children : row'[d] = row[d]
  BY Pooled, RowsSame
<1>7. CASE mem[c].in /\ ~mem[c].ending
  <2> DEFINE m1 == [m EXCEPT ![c].ending = TRUE, ![c].run = run]
             x == [pc |-> "persist", run |-> run, tag |-> t]
             j1 == [j EXCEPT ![c]["end"] = x]
  <2>1. mem' = m1 /\ job' = j1
    BY <1>7 DEF terminalize
  <2>2. /\ m1 \in [Children -> Entries]
        /\ m1[c].in /\ m1[c].slot = mem[c].slot /\ m1[c].ending
        /\ \A d \in Children : d # c => m1[d] = mem[d]
    <3> HIDE DEF m, run
    <3>1. m[c] \in Entries
      BY <1>4
    <3>2. /\ [m[c] EXCEPT !.ending = TRUE, !.run = run] \in Entries
          /\ [m[c] EXCEPT !.ending = TRUE, !.run = run].in = m[c].in
          /\ [m[c] EXCEPT !.ending = TRUE, !.run = run].slot = m[c].slot
          /\ [m[c] EXCEPT !.ending = TRUE, !.run = run].ending
      BY <3>1, <1>3 DEF Entries
    <3>3. m1 = [m EXCEPT ![c] = [m[c] EXCEPT !.ending = TRUE, !.run = run]]
      BY <1>4
    <3> QED
      BY <3>2, <3>3, <1>4, <1>7
  <2>3. /\ j1 \in [Children -> [Threads -> Jobs]]
        /\ \A d \in Children : d # c => j1[d] = job[d]
        /\ \A u \in Threads : u # t /\ u # "end" => j1[c][u] = job[c][u]
        /\ j1[c][t].pc = pc /\ j1[c]["end"].pc = "persist"
    <3> HIDE DEF j, run, pc
    <3>1. x \in Jobs /\ x.pc = "persist"
      BY <1>3, <1>1 DEF Jobs, Tags
    <3> HIDE DEF x
    <3>2. t # "end"
      OBVIOUS
    <3>3. /\ j1 \in [Children -> [Threads -> Jobs]]
          /\ \A d \in Children : d # c => j1[d] = j[d]
          /\ \A u \in Threads : u # "end" => j1[c][u] = j[c][u]
          /\ j1[c]["end"] = x
      BY <3>1, <1>1, <1>2
    <3> QED
      BY <3>1, <3>2, <3>3, <1>1, <1>2
  <2>4. row[c].state \notin Done /\ job[c]["spawn"].pc # "idle"
    BY <1>5, <1>7 DEF ChildOK
  <2>5. ChildOK(m1[c], j1[c], row[c])
    <3> HIDE DEF m1, j1, j, m, run
    <3>1. j1[c]["spawn"].pc # "idle"
      BY <2>3, <2>4, <1>1
    <3>2. m1[c].slot => j1[c]["spawn"].pc = "done"
      BY <2>2, <2>3, <1>5, <1>1 DEF ChildOK
    <3>3. \A u \in Threads : u # "end" /\ j1[c][u].pc = "persist" => j1[c][u].run.state \notin Done
      <4>1. TAKE u \in Threads
      <4>2. CASE u = t
        BY <4>2, <2>3
      <4>3. CASE u # t
        BY <4>3, <2>3, <1>5 DEF ChildOK
      <4> QED
        BY <4>2, <4>3
    <3> QED
      BY <3>1, <3>2, <3>3, <2>2, <2>4 DEF ChildOK
  <2>6. job[c]["spawn"].pc = "done" => j1[c]["spawn"].pc = "done"
    BY <2>3, <1>1
  <2> HIDE DEF m1, j1, x
  <2> QED
    BY <2>1, <2>2, <2>3, <2>5, <2>6, <1>6 DEF Moved, Pools
<1>8. CASE ~(mem[c].in /\ ~mem[c].ending)
  <2>1. mem' = m /\ job' = j
    BY <1>8 DEF terminalize
  <2> HIDE DEF m, j, run
  <2>2. ChildOK(m[c], j[c], row[c])
    <3>1. j[c]["spawn"].pc = "idle" => job[c]["spawn"].pc = "idle"
      BY <1>1, <1>2
    <3>2. job[c]["spawn"].pc = "done" => j[c]["spawn"].pc = "done"
      BY <1>1, <1>2
    <3>3. j[c]["end"] = job[c]["end"]
      BY <1>1, <1>2
    <3>4. \A u \in Threads : u # "end" /\ j[c][u].pc = "persist" => j[c][u].run.state \notin Done
      <4>1. TAKE u \in Threads
      <4>2. CASE u = t
        BY <4>2, <1>2
      <4>3. CASE u # t
        BY <4>3, <1>2, <1>5 DEF ChildOK
      <4> QED
        BY <4>2, <4>3
    <3> QED
      BY <3>1, <3>2, <3>3, <3>4, <1>4, <1>5 DEF ChildOK
  <2>3. job[c]["spawn"].pc = "done" => j[c]["spawn"].pc = "done"
    BY <1>1, <1>2
  <2> QED
    BY <2>1, <2>2, <2>3, <1>2, <1>4, <1>6 DEF Moved, Pools
<1> QED
  BY <1>7, <1>8

\* One thread of a child goes on, and the child neither comes, goes, ends nor
\* takes a slot.
LEMMA ThreadMoves ==
  ASSUME StateInv, NEW c \in Children, NEW t \in Threads,
         NEW m \in [Children -> Entries], NEW j \in [Children -> [Threads -> Jobs]],
         NEW r \in [Children -> Runs],
         \A d \in Children : d # c => m[d] = mem[d] /\ j[d] = job[d] /\ r[d] = row[d],
         \A u \in Threads : u # t => j[c][u] = job[c][u],
         m[c].in = mem[c].in, m[c].slot = mem[c].slot, m[c].ending = mem[c].ending,
         t = "spawn" => j[c][t].pc # "idle" /\ job[c][t].pc # "done",
         t = "end" => j[c][t].pc \in Saving /\ job[c][t].pc \in Saving,
         t # "end" /\ j[c][t].pc = "persist" => j[c][t].run.state \notin Done,
         r[c].state \in Done => (~mem[c].in \/ mem[c].ending) /\ j[c]["end"].pc # "persist",
         RowsKept(r)
  PROVE  Moved(c, m, j, r)
<1>1. ChildOK(mem[c], job[c], row[c])
  BY Pooled
<1>2. "spawn" \in Threads /\ "end" \in Threads
  BY DEF Threads
<1>3. j[c]["spawn"].pc = "idle" => ~m[c].in /\ j[c]["end"].pc = "idle"
  BY <1>1, <1>2 DEF ChildOK, Saving
<1>4. m[c].slot => m[c].in /\ j[c]["spawn"].pc = "done"
  BY <1>1, <1>2 DEF ChildOK
<1>5. m[c].in /\ j[c]["end"].pc \in Saving => m[c].ending
  BY <1>1, <1>2 DEF ChildOK
<1>6. \A u \in Threads : u # "end" /\ j[c][u].pc = "persist" => j[c][u].run.state \notin Done
  BY <1>1 DEF ChildOK
<1>7. ChildOK(m[c], j[c], r[c])
  BY <1>3, <1>4, <1>5, <1>6 DEF ChildOK
<1>8. job[c]["spawn"].pc = "done" => j[c]["spawn"].pc = "done"
  BY <1>2
<1> QED
  BY <1>7, <1>8 DEF Moved, Pools

\* The same, when the row is left alone.
LEMMA ThreadGoes ==
  ASSUME StateInv, NEW c \in Children, NEW t \in Threads \ {"end"},
         NEW m \in [Children -> Entries], NEW j \in [Children -> [Threads -> Jobs]],
         \A d \in Children : d # c => m[d] = mem[d] /\ j[d] = job[d],
         \A u \in Threads : u # t => j[c][u] = job[c][u],
         m[c].in = mem[c].in, m[c].slot = mem[c].slot, m[c].ending = mem[c].ending,
         t = "spawn" => j[c][t].pc # "idle" /\ job[c][t].pc # "done",
         j[c][t].pc = "persist" => j[c][t].run.state \notin Done
  PROVE  Moved(c, m, j, row)
<1>1. ChildOK(mem[c], job[c], row[c]) /\ row \in [Children -> Runs]
  BY Pooled
<1>2. RowsKept(row)
  BY RowsSame
<1>3. j[c]["end"] = job[c]["end"]
  BY DEF Threads
<1>4. row[c].state \in Done => (~mem[c].in \/ mem[c].ending) /\ j[c]["end"].pc # "persist"
  BY <1>1, <1>3 DEF ChildOK
<1> QED
  BY <1>1, <1>2, <1>4, ThreadMoves

LEMMA NothingMoves ==
  ASSUME StateInv, NEW c \in Children
  PROVE  Moved(c, mem, job, row)
BY Pooled, RowsSame DEF Moved, Pools

LEMMA ThreadWent ==
  ASSUME StateInv, NEW c \in Children, NEW t \in Threads \ {"end"}, NEW pc \in PCs \ {"persist"},
         t = "spawn" => pc # "idle" /\ job[c][t].pc # "done"
  PROVE  Moved(c, mem, Went(c, t, pc), row)
<1> DEFINE j == Went(c, t, pc)
<1>1. /\ j \in [Children -> [Threads -> Jobs]]
      /\ \A d \in Children : d # c => j[d] = job[d]
      /\ \A u \in Threads : u # t => j[c][u] = job[c][u]
      /\ j[c][t].pc = pc
  BY Pooled, WentJob
<1>2. mem \in [Children -> Entries]
  BY Pooled
<1> HIDE DEF j
<1>3. Moved(c, mem, j, row)
  BY <1>1, <1>2, ThreadGoes
<1> QED
  BY <1>3 DEF j

\* A thread goes on and writes the entry's run.
LEMMA ThreadWrote ==
  ASSUME StateInv, NEW c \in Children, NEW t \in Threads \ {"end"}, NEW pc \in PCs \ {"persist"},
         NEW run \in Runs, t = "spawn" => pc # "idle" /\ job[c][t].pc # "done"
  PROVE  Moved(c, [mem EXCEPT ![c].run = run], Went(c, t, pc), row)
<1> DEFINE j == Went(c, t, pc)
           m == [mem EXCEPT ![c].run = run]
<1>1. /\ j \in [Children -> [Threads -> Jobs]]
      /\ \A d \in Children : d # c => j[d] = job[d]
      /\ \A u \in Threads : u # t => j[c][u] = job[c][u]
      /\ j[c][t].pc = pc
  BY Pooled, WentJob
<1>2. /\ m \in [Children -> Entries]
      /\ m[c].run = run /\ m[c].in = mem[c].in /\ m[c].slot = mem[c].slot
      /\ m[c].ending = mem[c].ending
      /\ \A d \in Children : d # c => m[d] = mem[d]
  BY EntryRun
<1> HIDE DEF j, m
<1>3. Moved(c, m, j, row)
  BY <1>1, <1>2, ThreadGoes
<1> QED
  BY <1>3 DEF j, m

\* A thread takes a copy of what is not an end.
LEMMA ThreadCopies ==
  ASSUME StateInv, NEW c \in Children, NEW t \in Threads \ {"end"}, NEW run \in Runs,
         NEW tag \in Tags, run.state \notin Done,
         t = "spawn" => job[c][t].pc # "done"
  PROVE  /\ Moved(c, mem, Copied(c, t, run, tag), row)
         /\ Moved(c, [mem EXCEPT ![c].run = run], Copied(c, t, run, tag), row)
<1> DEFINE j == Copied(c, t, run, tag)
           m == [mem EXCEPT ![c].run = run]
<1>1. /\ j \in [Children -> [Threads -> Jobs]]
      /\ \A d \in Children : d # c => j[d] = job[d]
      /\ \A u \in Threads : u # t => j[c][u] = job[c][u]
      /\ j[c][t].pc = "persist" /\ j[c][t].run = run
  BY Pooled, CopiedJob
<1>2. /\ m \in [Children -> Entries]
      /\ m[c].run = run /\ m[c].in = mem[c].in /\ m[c].slot = mem[c].slot
      /\ m[c].ending = mem[c].ending
      /\ \A d \in Children : d # c => m[d] = mem[d]
  BY EntryRun
<1>3. mem \in [Children -> Entries]
  BY Pooled
<1> HIDE DEF j, m
<1>4. Moved(c, mem, j, row)
  BY <1>1, <1>3, ThreadGoes
<1>5. Moved(c, m, j, row)
  BY <1>1, <1>2, ThreadGoes
<1> QED
  BY <1>4, <1>5 DEF j, m

\* The primed pools are what the step says.
LEMMA QuietFrom ==
  ASSUME NEW c \in Children, NEW m, NEW j, NEW r, Moved(c, m, j, r),
         mem' = m, job' = j, row' = r, UNCHANGED <<pending, running, wake, log>>
  PROVE  Quiet(c)
BY DEF Quiet

LEMMA QuietEnds ==
  ASSUME StateInv, NEW c \in Children, NEW t \in {"spawn", "exec", "cancel"},
         NEW state \in {"completed", "failed", "cancelled"}, NEW live \in BOOLEAN,
         terminalize(c, t, state, live), UNCHANGED <<row, pending, running, wake, log>>
  PROVE  Quiet(c)
<1>1. state \in Done
  BY DEF Done, Terminal
<1>2. Moved(c, mem', job', row')
  BY <1>1, TerminalizeMoves
<1> QED
  BY <1>2 DEF Quiet

\* Nobody saves anything once the row has an end, and only terminalize saves one.
LEMMA SavedQuiet ==
  ASSUME StateInv, NEW c \in Children, NEW t \in Threads, persistActiveRun(c, t)
  PROVE  Quiet(c)
<1>1. /\ ChildOK(mem[c], job[c], row[c]) /\ mem \in [Children -> Entries]
      /\ job \in [Children -> [Threads -> Jobs]] /\ job[c][t].run \in Runs
  BY Pooled
<1>2. /\ job[c][t].pc = "persist"
      /\ mem' = mem /\ UNCHANGED <<pending, running, wake, log>>
  BY DEF persistActiveRun, At
<1>3. CASE Superseded(c, t)
  <2>1. t # "end" /\ "superseded" \in PCs \ {"persist"}
    BY <1>3 DEF Superseded, PCs
  <2>2. job' = Went(c, t, "superseded") /\ row' = row
    BY <1>3 DEF persistActiveRun
  <2>3. Moved(c, mem, Went(c, t, "superseded"), row)
    BY <2>1, <1>2, ThreadWent
  <2> QED
    BY <2>2, <2>3, <1>2, QuietFrom
<1>4. CASE ~Superseded(c, t)
  <2> DEFINE j == Went(c, t, "saved")
             r == [row EXCEPT ![c] = job[c][t].run]
  <2>1. job' = j /\ row' = r
    BY <1>4 DEF persistActiveRun
  <2>2. /\ j \in [Children -> [Threads -> Jobs]]
        /\ \A d \in Children : d # c => j[d] = job[d]
        /\ \A u \in Threads : u # t => j[c][u] = job[c][u]
        /\ j[c][t].pc = "saved"
    BY <1>1, WentJob DEF PCs
  <2>3. /\ r \in [Children -> Runs] /\ r[c] = job[c][t].run
        /\ \A d \in Children : d # c => r[d] = row[d]
    BY <1>1, RowAt
  <2> HIDE DEF j, r
  <2>4. row[c].state \notin Done
    <3>1. CASE t = "end"
      BY <3>1, <1>1, <1>2 DEF ChildOK
    <3>2. CASE t # "end"
      <4>1. mem[c].in /\ ~mem[c].ending
        BY <3>2, <1>4 DEF Superseded
      <4> QED
        BY <4>1, <1>1 DEF ChildOK
    <3> QED
      BY <3>1, <3>2
  <2>5. RowsKept(r)
    BY <2>3, <2>4 DEF RowsKept
  <2>6. r[c].state \in Done => (~mem[c].in \/ mem[c].ending) /\ j[c]["end"].pc # "persist"
    <3>1. CASE t = "end"
      BY <3>1, <1>1, <1>2, <2>2 DEF ChildOK, Saving
    <3>2. CASE t # "end"
      BY <3>2, <2>3, <1>1, <1>2 DEF ChildOK
    <3> QED
      BY <3>1, <3>2
  <2>7. Moved(c, mem, j, r)
    <3>1. t = "spawn" => j[c][t].pc # "idle" /\ job[c][t].pc # "done"
      BY <2>2, <1>2
    <3>2. t = "end" => j[c][t].pc \in Saving /\ job[c][t].pc \in Saving
      BY <2>2, <1>2 DEF Saving
    <3>3. t # "end" /\ j[c][t].pc = "persist" => j[c][t].run.state \notin Done
      BY <2>2
    <3> QED
      BY <3>1, <3>2, <3>3, <2>2, <2>3, <2>5, <2>6, <1>1, ThreadMoves
  <2> QED
    BY <2>1, <2>7, <1>2, QuietFrom
<1> QED
  BY <1>3, <1>4

LEMMA UnsavedQuiet ==
  ASSUME StateInv, NEW c \in Children, NEW t \in Threads, SaveFails(c, t)
  PROVE  Quiet(c)
<1>1. /\ ChildOK(mem[c], job[c], row[c]) /\ mem \in [Children -> Entries]
      /\ job \in [Children -> [Threads -> Jobs]] /\ row \in [Children -> Runs]
  BY Pooled
<1>2. /\ job[c][t].pc = "persist" /\ job' = Went(c, t, "failed")
      /\ mem' = mem /\ row' = row /\ UNCHANGED <<pending, running, wake, log>>
  BY DEF SaveFails, At
<1>3. CASE t # "end"
  <2>1. Moved(c, mem, Went(c, t, "failed"), row)
    BY <1>2, <1>3, ThreadWent DEF PCs
  <2> QED
    BY <2>1, <1>2, QuietFrom
<1>4. CASE t = "end"
  <2> DEFINE j == Went(c, t, "failed")
  <2>2. /\ j \in [Children -> [Threads -> Jobs]]
        /\ \A d \in Children : d # c => j[d] = job[d]
        /\ \A u \in Threads : u # t => j[c][u] = job[c][u]
        /\ j[c][t].pc = "failed"
    BY <1>1, WentJob DEF PCs
  <2> HIDE DEF j
  <2>3. row[c].state \notin Done
    BY <1>4, <1>1, <1>2 DEF ChildOK
  <2>4. RowsKept(row)
    BY RowsSame
  <2>5. j[c][t].pc \in Saving /\ job[c][t].pc \in Saving
    BY <2>2, <1>2 DEF Saving
  <2>6. Moved(c, mem, j, row)
    BY <2>2, <2>3, <2>4, <2>5, <1>1, <1>4, ThreadMoves
  <2> QED
    BY <2>6, <1>2, QuietFrom DEF j
<1> QED
  BY <1>3, <1>4

\* A child comes: by a spawn, or by the resume of its parent.
LEMMA ComesMoves ==
  ASSUME StateInv, NEW c \in Children, NEW run \in Runs, NEW j \in [Children -> [Threads -> Jobs]],
         NEW r \in [Children -> Runs],
         job[c]["spawn"].pc = "idle", row[c].state \notin Done, r[c].state \notin Done,
         \A d \in Children : d # c => j[d] = job[d] /\ r[d] = row[d],
         \A u \in Threads : u # "spawn" => j[c][u] = job[c][u],
         j[c]["spawn"].pc \notin {"idle", "done"}, run.state \notin Done,
         j[c]["spawn"].pc = "persist" => j[c]["spawn"].run = run
  PROVE  Moved(c, [mem EXCEPT ![c] = Entry(run)], j, r)
<1> DEFINE m == [mem EXCEPT ![c] = Entry(run)]
<1>1. /\ Entry(run) \in Entries /\ Entry(run).in /\ ~Entry(run).slot
      /\ ~Entry(run).ending
  BY RunTypes DEF Entry, Entries, NoEntry
<1>2. /\ m \in [Children -> Entries] /\ m[c].in /\ ~m[c].slot /\ ~m[c].ending
      /\ \A d \in Children : d # c => m[d] = mem[d]
  BY <1>1, EntryAt
<1>3. ChildOK(mem[c], job[c], row[c]) /\ mem[c].slot \in BOOLEAN /\ m[c].slot \in BOOLEAN
  BY <1>2, Pooled DEF Entries
<1>4. ~mem[c].slot /\ job[c]["end"].pc = "idle"
  BY <1>3 DEF ChildOK
<1>5. j[c]["end"] = job[c]["end"]
  BY DEF Threads
<1>6. \A u \in Threads : u # "end" /\ j[c][u].pc = "persist" => j[c][u].run.state \notin Done
  BY <1>3 DEF ChildOK
<1> HIDE DEF m
<1>7. ChildOK(m[c], j[c], r[c])
  BY <1>2, <1>4, <1>5, <1>6 DEF ChildOK, Saving
<1>8. RowsKept(r)
  BY DEF RowsKept
<1>9. m[c].slot = mem[c].slot /\ ~mem[c].slot
  BY <1>2, <1>3, <1>4
<1>10. Moved(c, m, j, r)
  BY <1>2, <1>7, <1>8, <1>9 DEF Moved, Pools
<1> QED
  BY <1>10 DEF m

LEMMA CreateQuiet ==
  ASSUME StateInv, NEW c \in Children, Create(c)
  PROVE  Quiet(c)
<1>1. row[c] = NoRun /\ job[c]["spawn"].pc = "idle"
  BY DEF Create, At
<1>2. PICK bg \in BOOLEAN :
        /\ row' = [row EXCEPT ![c] = [NoRun EXCEPT !.state = "initializing", !.bg = bg]]
        /\ mem' = [mem EXCEPT ![c] = Entry([NoRun EXCEPT !.state = "initializing", !.bg = bg])]
  BY DEF Create
<1> DEFINE run == [NoRun EXCEPT !.state = "initializing", !.bg = bg]
           j == Went(c, "spawn", "created")
           r == [row EXCEPT ![c] = run]
<1>3. run \in Runs /\ run.state = "initializing"
  BY DEF NoRun, Runs, Incomplete, Terminal
<1> HIDE DEF run
<1>4. /\ j \in [Children -> [Threads -> Jobs]]
      /\ \A d \in Children : d # c => j[d] = job[d]
      /\ \A u \in Threads : u # "spawn" => j[c][u] = job[c][u]
      /\ j[c]["spawn"].pc = "created"
  BY Pooled, WentJob DEF PCs, Threads
<1>5. /\ r \in [Children -> Runs] /\ r[c] = run
      /\ \A d \in Children : d # c => r[d] = row[d]
  BY <1>3, RowAt
<1>6. row[c].state \notin Done /\ run.state \notin Done
  BY <1>1, <1>3 DEF NoRun, Done, Terminal
<1>7. job' = j /\ UNCHANGED <<pending, running, wake, log>>
  BY DEF Create
<1> HIDE DEF j, r
<1>8. Moved(c, [mem EXCEPT ![c] = Entry(run)], j, r)
  BY <1>1, <1>3, <1>4, <1>5, <1>6, ComesMoves
<1> QED
  BY <1>2, <1>7, <1>8, QuietFrom DEF run, r

LEMMA RecoverQuiet ==
  ASSUME StateInv, NEW c \in Children, recoverInterrupted(c)
  PROVE  Quiet(c)
<1> DEFINE run == [row[c] EXCEPT !.state = "queued", !.bg = @ /\ c \notin Unsafe]
           j == Copied(c, "spawn", run, "recover")
<1>1. job[c]["spawn"].pc = "idle" /\ row[c].state = "interrupted"
  BY DEF recoverInterrupted, Recoverable, At
<1>2. run \in Runs /\ run.state = "queued"
  <2>1. row[c] \in Runs
    BY Pooled
  <2> QED
    BY <2>1 DEF Runs, Incomplete, Terminal
<1>3. /\ mem' = [mem EXCEPT ![c] = Entry(run)] /\ job' = j /\ row' = row
      /\ UNCHANGED <<pending, running, wake, log>>
  BY DEF recoverInterrupted
<1> HIDE DEF run
<1>4. /\ j \in [Children -> [Threads -> Jobs]]
      /\ \A d \in Children : d # c => j[d] = job[d]
      /\ \A u \in Threads : u # "spawn" => j[c][u] = job[c][u]
      /\ j[c]["spawn"].pc = "persist" /\ j[c]["spawn"].run = run
  <2>1. "spawn" \in Threads /\ "recover" \in Tags
    BY DEF Threads, Tags
  <2> QED
    BY <2>1, <1>2, Pooled, CopiedJob
<1>5. row[c].state \notin Done /\ run.state \notin Done
  BY <1>1, <1>2 DEF Done, Terminal
<1>6. row \in [Children -> Runs]
  BY Pooled
<1> HIDE DEF j
<1>8. Moved(c, [mem EXCEPT ![c] = Entry(run)], j, row)
  BY <1>1, <1>2, <1>4, <1>5, <1>6, ComesMoves
<1> QED
  BY <1>3, <1>8, QuietFrom

\* A child whose resume fails goes without an end.
LEMMA RecoverFailsQuiet ==
  ASSUME StateInv, NEW c \in Children, RecoverFails(c)
  PROVE  Quiet(c)
<1> DEFINE e == [NoEntry EXCEPT !.live = FALSE]
           m == [mem EXCEPT ![c] = e]
           j == Went(c, "spawn", "done")
<1>1. job[c]["spawn"].pc = "failed"
  BY DEF RecoverFails, At
<1>2. /\ mem' = m /\ job' = j /\ row' = row
      /\ UNCHANGED <<pending, running, wake, log>>
  BY DEF RecoverFails
<1>3. e \in Entries /\ ~e.in /\ ~e.slot
  BY RunTypes DEF Entries, NoEntry
<1> HIDE DEF e
<1>4. /\ m \in [Children -> Entries] /\ m[c] = e
      /\ \A d \in Children : d # c => m[d] = mem[d]
  BY <1>3, EntryAt
<1>5. /\ j \in [Children -> [Threads -> Jobs]]
      /\ \A d \in Children : d # c => j[d] = job[d]
      /\ \A u \in Threads : u # "spawn" => j[c][u] = job[c][u]
      /\ j[c]["spawn"].pc = "done"
  BY Pooled, WentJob DEF PCs, Threads
<1>6. ChildOK(mem[c], job[c], row[c]) /\ mem[c].slot \in BOOLEAN /\ m[c].slot \in BOOLEAN
  BY <1>3, <1>4, Pooled DEF Entries
<1>7. ~mem[c].slot
  BY <1>1, <1>6 DEF ChildOK
<1>8. j[c]["end"] = job[c]["end"]
  BY <1>5 DEF Threads
<1> HIDE DEF m, j
<1>9. \A u \in Threads : u # "end" /\ j[c][u].pc = "persist" => j[c][u].run.state \notin Done
  BY <1>5, <1>6 DEF ChildOK
<1>10. ChildOK(m[c], j[c], row[c])
  BY <1>3, <1>4, <1>5, <1>6, <1>8, <1>9 DEF ChildOK
<1>11. m[c].slot = mem[c].slot
  BY <1>3, <1>4, <1>6, <1>7
<1>12. RowsKept(row) /\ row \in [Children -> Runs]
  BY RowsSame, Pooled
<1>13. Moved(c, m, j, row)
  BY <1>4, <1>5, <1>7, <1>10, <1>11, <1>12 DEF Moved, Pools
<1> QED
  BY <1>2, <1>13, QuietFrom

LEMMA Names ==
  /\ {"spawn", "exec", "cancel", "detach"} \subseteq Threads \ {"end"} /\ "end" \in Threads
  /\ {"idle", "created", "ready", "preparing", "working", "saved", "superseded", "failed",
      "done"} \subseteq PCs \ {"persist"}
  /\ {"spawn", "exec", "cancel", "detach", "end", "recover", "begin", "pause", "slot",
      "queued", "window", "ctx"} \subseteq Tags
  /\ {"completed", "failed", "cancelled"} = Done
  /\ Done \cap ({"none"} \cup Incomplete) = {} /\ Done \subseteq Terminal
BY DEF Threads, PCs, Tags, Done, Terminal, Incomplete

LEMMA Undone ==
  ASSUME NEW run \in Runs, NEW state \in {"queued", "running", "cancelling"}
  PROVE  [run EXCEPT !.state = state] \in Runs /\ [run EXCEPT !.state = state].state \notin Done
BY DEF Runs, Incomplete, Terminal, Done

LEMMA MarkQueuedQuiet ==
  ASSUME StateInv, NEW c \in Children, MarkQueued(c)
  PROVE  Quiet(c)
<1> DEFINE run == [mem[c].run EXCEPT !.state = "queued"]
<1>1. /\ job[c]["spawn"].pc = "created"
      /\ mem' = (IF mem[c].in THEN [mem EXCEPT ![c].run = run] ELSE mem)
      /\ job' = Copied(c, "spawn", run, "spawn") /\ row' = row
      /\ UNCHANGED <<pending, running, wake, log>>
  BY DEF MarkQueued, At
<1>2. run \in Runs /\ run.state \notin Done
  BY Pooled, Undone
<1> HIDE DEF run
<1>3. /\ Moved(c, mem, Copied(c, "spawn", run, "spawn"), row)
      /\ Moved(c, [mem EXCEPT ![c].run = run], Copied(c, "spawn", run, "spawn"), row)
  BY <1>1, <1>2, Names, ThreadCopies
<1> QED
  BY <1>1, <1>3 DEF Quiet

LEMMA SpawnFailsQuiet ==
  ASSUME StateInv, NEW c \in Children, SpawnFails(c)
  PROVE  Quiet(c)
BY QuietEnds DEF SpawnFails

LEMMA SpawnEndsQuiet ==
  ASSUME StateInv, NEW c \in Children, SpawnEnds(c)
  PROVE  Quiet(c)
BY NothingMoves DEF SpawnEnds, Quiet

LEMMA SpawnSupersededQuiet ==
  ASSUME StateInv, NEW c \in Children, SpawnSuperseded(c)
  PROVE  Quiet(c)
<1>1. Moved(c, mem, Went(c, "spawn", "done"), row)
  BY Names, ThreadWent DEF SpawnSuperseded, At
<1> QED
  BY <1>1 DEF SpawnSuperseded, Quiet

LEMMA StartQuiet ==
  ASSUME StateInv, NEW c \in Children, Start(c)
  PROVE  Quiet(c)
<1> DEFINE pc == IF mem[c].in /\ ~mem[c].ending THEN "preparing" ELSE "done"
<1>1. pc \in PCs \ {"persist"}
  BY Names
<1> HIDE DEF pc
<1>2. Moved(c, mem, Went(c, "exec", pc), row)
  BY <1>1, Names, ThreadWent
<1> QED
  BY <1>2 DEF Start, Quiet, pc

LEMMA PreparedQuiet ==
  ASSUME StateInv, NEW c \in Children, Prepared(c)
  PROVE  Quiet(c)
<1> DEFINE run == [mem[c].run EXCEPT !.state = "running", !.child = TRUE]
<1>1. run \in Runs /\ run.state \notin Done
  <2>1. mem[c].run \in Runs
    BY Pooled
  <2> QED
    BY <2>1 DEF Runs, Incomplete, Done, Terminal
<1>2. Moved(c, mem, Went(c, "exec", "done"), row)
  BY Names, ThreadWent
<1>3. \/ /\ mem' = [mem EXCEPT ![c].run = run] /\ job' = Copied(c, "exec", run, "begin")
      \/ mem' = mem /\ job' = Went(c, "exec", "done")
  BY DEF Prepared
<1>4. row' = row /\ UNCHANGED <<pending, running, wake, log>>
  BY DEF Prepared
<1> HIDE DEF run
<1>5. Moved(c, [mem EXCEPT ![c].run = run], Copied(c, "exec", run, "begin"), row)
  BY <1>1, Names, ThreadCopies
<1> QED
  BY <1>2, <1>3, <1>4, <1>5 DEF Quiet

LEMMA PrepareFailsQuiet ==
  ASSUME StateInv, NEW c \in Children, PrepareFails(c)
  PROVE  Quiet(c)
BY QuietEnds DEF PrepareFails

LEMMA WrittenQuiet ==
  ASSUME StateInv, NEW c \in Children, NEW t \in {"exec", "detach"}, NEW pc \in PCs \ {"persist"}
  PROVE  Moved(c, WrittenBack(c, t), Went(c, t, pc), row)
<1>1. t \in Threads \ {"end"}
  BY Names
<1>2. job[c][t].run \in Runs
  BY <1>1, Pooled
<1>3. Moved(c, [mem EXCEPT ![c].run = job[c][t].run], Went(c, t, pc), row)
  BY <1>1, <1>2, ThreadWrote
<1>4. Moved(c, mem, Went(c, t, pc), row)
  BY <1>1, ThreadWent
<1> QED
  BY <1>3, <1>4 DEF WrittenBack

LEMMA ExecSavedQuiet ==
  ASSUME StateInv, NEW c \in Children, ExecSaved(c)
  PROVE  Quiet(c)
<1>1. Moved(c, WrittenBack(c, "exec"), Went(c, "exec", "working"), row)
  BY Names, WrittenQuiet
<1> QED
  BY <1>1 DEF ExecSaved, Quiet

LEMMA ExecSupersededQuiet ==
  ASSUME StateInv, NEW c \in Children, ExecSuperseded(c)
  PROVE  Quiet(c)
<1>1. CASE job[c]["exec"].tag = "begin"
  <2>1. Moved(c, mem, Went(c, "exec", "done"), row)
    BY Names, ThreadWent
  <2> QED
    BY <1>1, <2>1 DEF ExecSuperseded, Quiet
<1>2. CASE job[c]["exec"].tag # "begin"
  BY <1>2, QuietEnds DEF ExecSuperseded, EndState
<1> QED
  BY <1>1, <1>2

LEMMA ExecFailsQuiet ==
  ASSUME StateInv, NEW c \in Children, ExecFails(c)
  PROVE  Quiet(c)
BY QuietEnds DEF ExecFails, EndState

LEMMA PauseQuiet ==
  ASSUME StateInv, NEW c \in Children, Pause(c)
  PROVE  Quiet(c)
<1>1. CASE Current(c)
  <2> DEFINE run == [mem[c].run EXCEPT !.state = "running"]
  <2>1. run \in Runs /\ run.state \notin Done
    BY Pooled, Undone
  <2>2. mem' = mem /\ job' = Copied(c, "exec", run, "pause") /\ row' = row
        /\ UNCHANGED <<pending, running, wake, log>>
    BY <1>1 DEF Pause
  <2> HIDE DEF run
  <2>3. Moved(c, mem, Copied(c, "exec", run, "pause"), row)
    BY <2>1, Names, ThreadCopies
  <2> QED
    BY <2>2, <2>3 DEF Quiet
<1>2. CASE ~Current(c)
  BY <1>2, QuietEnds DEF Pause, EndState
<1> QED
  BY <1>1, <1>2

LEMMA FinishQuiet ==
  ASSUME StateInv, NEW c \in Children, Finish(c)
  PROVE  Quiet(c)
<1>1. PICK state \in {"completed", "failed", "cancelled"} : terminalize(c, "exec", state, TRUE)
  BY DEF Finish
<1>2. UNCHANGED <<row, pending, running, wake, log>>
  BY DEF Finish
<1> QED
  BY <1>1, <1>2, QuietEnds

LEMMA CancelQuiet ==
  ASSUME StateInv, NEW c \in Children, Cancel(c)
  PROVE  Quiet(c)
<1> DEFINE run == [mem[c].run EXCEPT !.state = "cancelling"]
           tag == IF mem[c].slot THEN "slot" ELSE "queued"
<1>1. run \in Runs /\ run.state \notin Done
  BY Pooled, Undone
<1>2. tag \in Tags
  BY Names
<1>3. mem' = [mem EXCEPT ![c].run = run] /\ job' = Copied(c, "cancel", run, tag) /\ row' = row
      /\ UNCHANGED <<pending, running, wake, log>>
  BY DEF Cancel
<1> HIDE DEF run, tag
<1>4. Moved(c, [mem EXCEPT ![c].run = run], Copied(c, "cancel", run, tag), row)
  BY <1>1, <1>2, Names, ThreadCopies
<1> QED
  BY <1>3, <1>4 DEF Quiet

LEMMA CancelSavedQuiet ==
  ASSUME StateInv, NEW c \in Children, CancelSaved(c)
  PROVE  Quiet(c)
<1>1. CASE job[c]["cancel"].tag = "queued"
  BY <1>1, QuietEnds DEF CancelSaved
<1>2. CASE job[c]["cancel"].tag # "queued"
  <2> DEFINE m == [mem EXCEPT ![c].live = FALSE]
             j == Went(c, "cancel", "idle")
  <2>1. mem' = m /\ job' = j /\ row' = row /\ UNCHANGED <<pending, running, wake, log>>
    BY <1>2 DEF CancelSaved
  <2>2. /\ m \in [Children -> Entries]
        /\ m[c].in = mem[c].in /\ m[c].slot = mem[c].slot /\ m[c].ending = mem[c].ending
        /\ \A d \in Children : d # c => m[d] = mem[d]
    BY EntryLive
  <2>3. /\ j \in [Children -> [Threads -> Jobs]]
        /\ \A d \in Children : d # c => j[d] = job[d]
        /\ \A u \in Threads : u # "cancel" => j[c][u] = job[c][u]
        /\ j[c]["cancel"].pc = "idle"
    BY Names, Pooled, WentJob
  <2> HIDE DEF m, j
  <2>4. Moved(c, m, j, row)
    BY <2>2, <2>3, Names, ThreadGoes
  <2> QED
    BY <2>1, <2>4 DEF Quiet
<1> QED
  BY <1>1, <1>2

LEMMA CancelFailsQuiet ==
  ASSUME StateInv, NEW c \in Children, CancelFails(c)
  PROVE  Quiet(c)
BY QuietEnds DEF CancelFails

LEMMA CancelSupersededQuiet ==
  ASSUME StateInv, NEW c \in Children, CancelSuperseded(c)
  PROVE  Quiet(c)
<1>1. Moved(c, mem, Went(c, "cancel", "idle"), row)
  BY Names, ThreadWent
<1> QED
  BY <1>1 DEF CancelSuperseded, Quiet

LEMMA BackgroundQuiet ==
  ASSUME StateInv, NEW c \in Children, NEW tag \in {"window", "ctx"}, continueInBackground(c, tag)
  PROVE  Quiet(c)
<1> DEFINE run == [mem[c].run EXCEPT !.bg = TRUE]
<1>1. mem' = mem /\ row' = row /\ UNCHANGED <<pending, running, wake, log>>
  BY DEF continueInBackground
<1>2. \/ /\ ~subagentTerminal(mem[c].run.state)
         /\ job' = Copied(c, "detach", run, tag)
      \/ job' = job
  BY DEF continueInBackground
<1>3. run \in Runs /\ run.state = mem[c].run.state
  <2>1. mem[c].run \in Runs
    BY Pooled
  <2> QED
    BY <2>1 DEF Runs
<1> HIDE DEF run
<1>4. CASE ~subagentTerminal(mem[c].run.state) /\ job' = Copied(c, "detach", run, tag)
  <2>1. run.state \notin Done
    BY <1>3, <1>4 DEF Done, subagentTerminal
  <2>2. Moved(c, mem, Copied(c, "detach", run, tag), row)
    BY <2>1, <1>3, Names, ThreadCopies
  <2> QED
    BY <2>2, <1>1, <1>4 DEF Quiet
<1>5. CASE job' = job
  BY <1>1, <1>5, NothingMoves DEF Quiet
<1> QED
  BY <1>2, <1>4, <1>5

LEMMA DetachSavedQuiet ==
  ASSUME StateInv, NEW c \in Children, DetachSaved(c)
  PROVE  Quiet(c)
<1>1. job[c]["detach"].run \in Runs
  BY Pooled, Names
<1>2. Moved(c, [mem EXCEPT ![c].run = job[c]["detach"].run], Went(c, "detach", "idle"), row)
  BY <1>1, Names, ThreadWrote
<1>3. Moved(c, mem, Went(c, "detach", "idle"), row)
  BY Names, ThreadWent
<1> QED
  BY <1>2, <1>3 DEF DetachSaved, Quiet

LEMMA DetachFailsQuiet ==
  ASSUME StateInv, NEW c \in Children, DetachFails(c)
  PROVE  Quiet(c)
<1>1. Moved(c, mem, Went(c, "detach", "idle"), row)
  BY Names, ThreadWent
<1> QED
  BY <1>1 DEF DetachFails, Quiet

-----------------------------------------------------------------------------
(* pumpLocked. *)

\* The k-th number of a set.
Nth(S, k) == CHOOSE i \in S : Cardinality(S \cap 1 .. i) = k

\* The numbers of a set in their order.
LEMMA NthNumber ==
  ASSUME NEW len \in Nat, NEW S \in SUBSET (1 .. len)
  PROVE  /\ Cardinality(S) \in Nat
         /\ \A k \in 1 .. Cardinality(S) : Nth(S, k) \in S
         /\ \A j, k \in 1 .. Cardinality(S) : j < k => Nth(S, j) < Nth(S, k)
         /\ \A i \in S : \E k \in 1 .. Cardinality(S) : Nth(S, k) = i
<1> DEFINE size == Cardinality(S)
           rank == [i \in S |-> Cardinality(S \cap 1 .. i)]
<1>1. IsFiniteSet(1 .. len)
  BY FS_Interval
<1>2. IsFiniteSet(S) /\ size \in Nat
  BY <1>1, FS_Subset, FS_CardinalityType
<1>3. \A i \in S : /\ IsFiniteSet(S \cap 1 .. i) /\ rank[i] = Cardinality(S \cap 1 .. i)
                   /\ Cardinality(S \cap 1 .. i) <= size
                   /\ Cardinality(S \cap 1 .. i) \in Nat
                   /\ Cardinality(S \cap 1 .. i) # 0
  <2> SUFFICES ASSUME NEW i \in S
               PROVE  /\ IsFiniteSet(S \cap 1 .. i) /\ rank[i] = Cardinality(S \cap 1 .. i)
                      /\ Cardinality(S \cap 1 .. i) <= size
                      /\ Cardinality(S \cap 1 .. i) \in Nat
                      /\ Cardinality(S \cap 1 .. i) # 0
    OBVIOUS
  <2>1. S \cap 1 .. i \in SUBSET S
    OBVIOUS
  <2>2. IsFiniteSet(S \cap 1 .. i) /\ Cardinality(S \cap 1 .. i) <= size
        /\ Cardinality(S \cap 1 .. i) \in Nat
    BY <1>2, <2>1, FS_Subset, FS_CardinalityType
  <2>3. i \in S \cap 1 .. i
    OBVIOUS
  <2>4. Cardinality(S \cap 1 .. i) # 0
    BY <2>2, <2>3, FS_EmptySet
  <2> QED
    BY <2>2, <2>4
<1> HIDE DEF size, rank
<1>4. ASSUME NEW i \in S, NEW j \in S, i < j
      PROVE  rank[i] < rank[j]
  <2> DEFINE low == S \cap 1 .. i
             high == S \cap 1 .. j
  <2>1. low \in SUBSET high /\ j \in high /\ j \notin low
    BY <1>4
  <2>2. /\ IsFiniteSet(high) /\ rank[i] = Cardinality(low) /\ rank[j] = Cardinality(high)
        /\ Cardinality(low) \in Nat /\ Cardinality(high) \in Nat
    BY <1>3
  <2> HIDE DEF low, high
  <2>3. Cardinality(low) <= Cardinality(high)
    BY <2>1, <2>2, FS_Subset
  <2>4. Cardinality(low) # Cardinality(high)
    BY <2>1, <2>2, FS_Subset
  <2> QED
    BY <2>2, <2>3, <2>4
<1>5. rank \in [S -> 1 .. size]
  <2>1. ASSUME NEW i \in S
        PROVE  rank[i] \in 1 .. size
    <3> DEFINE c == Cardinality(S \cap 1 .. i)
    <3>1. rank[i] = c /\ c <= size /\ c \in Nat /\ c # 0
      BY <1>3
    <3> HIDE DEF c
    <3> QED
      BY <1>2, <3>1
  <2> QED
    BY <2>1 DEF rank
<1>6. \A i, j \in S : rank[i] = rank[j] => i = j
  <2> SUFFICES ASSUME NEW i \in S, NEW j \in S, rank[i] = rank[j], i # j
               PROVE  FALSE
    OBVIOUS
  <2>1. i < j \/ j < i
    OBVIOUS
  <2>2. rank[i] \in 1 .. size /\ rank[j] \in 1 .. size
    BY <1>5
  <2> QED
    BY <1>2, <1>4, <2>1, <2>2
<1>7. \A k \in 1 .. size : \E i \in S : rank[i] = k
  <2> SUFFICES ASSUME NEW k \in 1 .. size, \A i \in S : rank[i] # k
               PROVE  FALSE
    OBVIOUS
  <2> DEFINE rest == (1 .. size) \ {k}
  <2>1. IsFiniteSet(1 .. size) /\ Cardinality(1 .. size) = size
    BY <1>2, FS_Interval
  <2>2. IsFiniteSet(rest) /\ Cardinality(rest) = size - 1
    BY <2>1, FS_RemoveElement
  <2>3. rank \in [S -> rest]
    BY <1>5
  <2>4. Cardinality(rest) < Cardinality(S)
    BY <1>2, <2>2 DEF size
  <2> HIDE DEF rest
  <2>5. \E i, j \in S : i # j /\ rank[i] = rank[j]
    BY <1>2, <2>2, <2>3, <2>4, FS_PigeonHole
  <2> QED
    BY <1>6, <2>5
<1>8. \A k \in 1 .. size : Nth(S, k) \in S /\ rank[Nth(S, k)] = k
  <2> SUFFICES ASSUME NEW k \in 1 .. size
               PROVE  Nth(S, k) \in S /\ rank[Nth(S, k)] = k
    OBVIOUS
  <2>1. \E i \in S : Cardinality(S \cap 1 .. i) = k
    BY <1>3, <1>7
  <2>2. Nth(S, k) \in S /\ Cardinality(S \cap 1 .. Nth(S, k)) = k
    BY <2>1 DEF Nth
  <2> QED
    BY <1>3, <2>2
<1>9. ASSUME NEW j \in 1 .. size, NEW k \in 1 .. size, j < k
      PROVE  Nth(S, j) < Nth(S, k)
  <2> DEFINE x == Nth(S, j)
             y == Nth(S, k)
  <2>1. x \in S /\ y \in S /\ rank[x] = j /\ rank[y] = k
    BY <1>8
  <2> HIDE DEF x, y
  <2>2. x \in Nat /\ y \in Nat
    BY <2>1
  <2>3. ~(y < x)
    <3>1. y < x => rank[y] < rank[x]
      BY <1>4, <2>1
    <3> QED
      BY <1>9, <2>1, <3>1
  <2>4. x # y
    BY <1>9, <2>1
  <2>5. x < y
    BY <2>2, <2>3, <2>4
  <2> QED
    BY <2>5 DEF x, y
<1>10. \A i \in S : \E k \in 1 .. size : Nth(S, k) = i
  BY <1>5, <1>6, <1>8
<1> QED
  BY <1>2, <1>8, <1>9, <1>10 DEF size

\* The entries that stay.
LEMMA DisjointUnion ==
  ASSUME NEW A, NEW B, IsFiniteSet(A), IsFiniteSet(B), A \cap B = {}
  PROVE  Cardinality(A \cup B) = Cardinality(A) + Cardinality(B)
<1>1. Cardinality(A) \in Nat /\ Cardinality(B) \in Nat /\ Cardinality(A \cap B) = 0
  BY FS_CardinalityType, FS_EmptySet
<1>2. Cardinality(A \cup B) = Cardinality(A) + Cardinality(B) - Cardinality(A \cap B)
  BY FS_Union
<1> QED
  BY <1>1, <1>2

\* What pumpLocked has before it, in the words of Starts.
Asked(m, q) == {i \in DOMAIN q : Runnable(m, q[i])}

Before(m, q, i) == {k \in Asked(m, q) : k < i}

Started(m, q, i) ==
  [c \in Children |-> IF \E k \in Before(m, q, i) : q[k] = c
                      THEN [m[c] EXCEPT !.slot = TRUE] ELSE m[c]]

Now(m, q, n) == {q[i] : i \in Starts(m, q, n)}

LEMMA StartsIs ==
  ASSUME NEW m, NEW q, NEW n
  PROVE  /\ Starts(m, q, n) =
              {i \in Asked(m, q) :
                 canStartLocked(Started(m, q, i), n + Cardinality(Before(m, q, i)), q[i])}
         /\ Stays(m, q, n) = Asked(m, q) \ Starts(m, q, n)
BY DEF Starts, Stays, Asked, Before, Started

\* The positions are numbers, and a child has one of them at most.
LEMMA Positions ==
  ASSUME NEW m, NEW j, NEW r, NEW q, NEW n, StateOK(m, j, r, q, n)
  PROVE  /\ Len(q) \in Nat /\ DOMAIN q = 1 .. Len(q)
         /\ Asked(m, q) \in SUBSET (1 .. Len(q)) /\ IsFiniteSet(Asked(m, q))
         /\ Starts(m, q, n) \in SUBSET Asked(m, q)
         /\ IsFiniteSet(Starts(m, q, n)) /\ Cardinality(Starts(m, q, n)) \in Nat
         /\ IsFiniteSet(Now(m, q, n))
         /\ Cardinality(Now(m, q, n)) = Cardinality(Starts(m, q, n))
         /\ \A c \in Now(m, q, n) : /\ c \in Children /\ m[c].in /\ ~m[c].ending /\ ~m[c].slot
                                    /\ j[c]["spawn"].pc = "done"
<1> DEFINE A == Asked(m, q)
           S == Starts(m, q, n)
           T == Now(m, q, n)
<1>1. /\ q \in Seq(Children) /\ Len(q) \in Nat /\ DOMAIN q = 1 .. Len(q) /\ QueueOK(m, j, q)
      /\ \A i \in DOMAIN q : q[i] \in Children
  BY DEF StateOK
<1>2. A \in SUBSET (1 .. Len(q)) /\ IsFiniteSet(A)
  <2>1. A \in SUBSET (1 .. Len(q))
    BY <1>1 DEF Asked
  <2>2. IsFiniteSet(1 .. Len(q))
    BY <1>1, FS_Interval
  <2> HIDE DEF A
  <2> QED
    BY <2>1, <2>2, FS_Subset
<1>3. S \in SUBSET A
  BY StartsIs
<1>4. IsFiniteSet(S) /\ Cardinality(S) \in Nat
  BY <1>2, <1>3, FS_Subset, FS_CardinalityType
<1> DEFINE f == [i \in S |-> q[i]]
<1>5. f \in Surjection(S, T) /\ f \in Injection(S, T)
  <2>1. \A i, k \in S : f[i] = f[k] => i = k
    BY <1>1, <1>2, <1>3 DEF QueueOK
  <2>2. T = {f[i] : i \in S}
    BY DEF Now
  <2>3. f \in [S -> T]
    BY DEF Now
  <2> HIDE DEF f, S, T
  <2> QED
    BY <2>1, <2>2, <2>3 DEF Surjection, Injection, IsInjective
<1>6. IsFiniteSet(T) /\ Cardinality(T) = Cardinality(S)
  <2> HIDE DEF f, S, T
  <2> QED
    BY <1>4, <1>5, FS_Surjection
<1>7. ASSUME NEW c \in T
      PROVE  /\ c \in Children /\ m[c].in /\ ~m[c].ending /\ ~m[c].slot
             /\ j[c]["spawn"].pc = "done"
  <2>1. PICK i \in S : c = q[i]
    BY DEF Now
  <2>2. i \in DOMAIN q /\ Runnable(m, q[i])
    BY <1>3 DEF Asked
  <2> QED
    BY <2>1, <2>2, <1>1 DEF Runnable, QueueOK
<1> QED
  BY <1>1, <1>2, <1>3, <1>4, <1>6, <1>7

\* The last of the positions that find the limit not reached: with what was
\* started before it, it fills the limit at most.
LEMMA RegularStarts ==
  ASSUME NEW len \in Nat, NEW A \in SUBSET (1 .. len), NEW n \in Nat, NEW max \in Nat,
         NEW F, F = {i \in A : n + Cardinality({k \in A : k < i}) < max}, F # {}
  PROVE  /\ IsFiniteSet(F) /\ Cardinality(F) \in Nat /\ n + Cardinality(F) <= max
<1>1. F \in SUBSET (1 .. len) /\ F \subseteq A
  OBVIOUS
<1>2. IsFiniteSet(A)
  <2>1. IsFiniteSet(1 .. len)
    BY FS_Interval
  <2> QED
    BY <2>1, FS_Subset
<1>3. IsFiniteSet(F) /\ Cardinality(F) \in Nat /\ Cardinality(F) # 0
  BY <1>1, <1>2, FS_Subset, FS_CardinalityType, FS_EmptySet
<1> DEFINE size == Cardinality(F)
           top == Nth(F, size)
           low == {k \in A : k < top}
<1>4. /\ \A k \in 1 .. size : Nth(F, k) \in F
      /\ \A i, k \in 1 .. size : i < k => Nth(F, i) < Nth(F, k)
      /\ \A i \in F : \E k \in 1 .. size : Nth(F, k) = i
  <2>1. F \in SUBSET (1 .. len)
    BY <1>1
  <2> HIDE DEF size
  <2> QED
    BY ONLY <2>1, len \in Nat, NthNumber DEF size
<1>5. size \in 1 .. size
  BY <1>3
<1>6. top \in F
  BY <1>4, <1>5
<1>7. \A i \in F : i = top \/ i < top
  <2>1. TAKE i \in F
  <2>2. PICK k \in 1 .. size : Nth(F, k) = i
    BY <1>4
  <2>3. k = size \/ k < size
    BY <1>3
  <2> QED
    BY <2>2, <2>3, <1>4, <1>5
<1>8. /\ n + Cardinality(low) < max /\ top \notin low
  <2> HIDE DEF top
  <2>1. top \in A
    BY <1>1, <1>6
  <2>2. top \notin low
    BY <2>1
  <2> QED
    BY <2>2, <1>6
<1>9. IsFiniteSet(low) /\ Cardinality(low) \in Nat
  <2>1. low \in SUBSET A
    OBVIOUS
  <2> QED
    BY <2>1, <1>2, FS_Subset, FS_CardinalityType
<1>10. F \in SUBSET (low \cup {top})
  BY <1>1, <1>7
<1> HIDE DEF low, top
<1>11. IsFiniteSet(low \cup {top}) /\ Cardinality(low \cup {top}) = Cardinality(low) + 1
  BY <1>8, <1>9, FS_AddElement
<1>12. Cardinality(F) <= Cardinality(low \cup {top})
  BY <1>10, <1>11, FS_Subset
<1> QED
  BY <1>3, <1>8, <1>9, <1>11, <1>12

\* A start beyond the limit is a nested child's, there is one, and no nested child
\* had a slot before.
LEMMA BeyondLimit ==
  ASSUME NEW m, NEW j, NEW r, NEW q, NEW n, StateOK(m, j, r, q, n), MaxConcurrency # 0,
         NEW x \in Starts(m, q, n), ~(n + Cardinality(Before(m, q, x)) < MaxConcurrency)
  PROVE  /\ q[x] \in Nested /\ RunsOf(m) \cap Nested = {}
         /\ \A y \in Asked(m, q) : y < x => q[y] \notin Nested
<1> DEFINE s == Started(m, q, x)
<1>1. /\ x \in Asked(m, q)
      /\ canStartLocked(s, n + Cardinality(Before(m, q, x)), q[x])
  BY StartsIs
<1>2. q[x] \in Nested /\ ~hasRunningChildForParentLocked(s, q[x])
  BY <1>1 DEF canStartLocked
<1>3. \A d \in Children : ~(s[d].in /\ s[d].slot /\ ~s[d].ending /\ d \in Nested)
  BY <1>2 DEF hasRunningChildForParentLocked
<1>4. m \in [Children -> Entries] /\ \A d \in Children : ChildOK(m[d], j[d], r[d])
  BY DEF StateOK
<1>5. \A d \in Children : /\ s[d].in = m[d].in /\ s[d].ending = m[d].ending
                          /\ m[d].slot => s[d].slot
                          /\ (\E k \in Before(m, q, x) : q[k] = d) => s[d].slot
  <2> SUFFICES ASSUME NEW d \in Children
               PROVE  /\ s[d].in = m[d].in /\ s[d].ending = m[d].ending
                      /\ m[d].slot => s[d].slot
                      /\ (\E k \in Before(m, q, x) : q[k] = d) => s[d].slot
    OBVIOUS
  <2>1. m[d] \in Entries
    BY <1>4
  <2>2. /\ [m[d] EXCEPT !.slot = TRUE].in = m[d].in
        /\ [m[d] EXCEPT !.slot = TRUE].ending = m[d].ending
        /\ [m[d] EXCEPT !.slot = TRUE].slot
    BY <2>1 DEF Entries
  <2>3. s[d] = IF \E k \in Before(m, q, x) : q[k] = d
               THEN [m[d] EXCEPT !.slot = TRUE] ELSE m[d]
    BY DEF Started
  <2> HIDE DEF s
  <2> QED
    BY <2>2, <2>3
<1> HIDE DEF s
<1>6. RunsOf(m) \cap Nested = {}
  <2>1. ASSUME NEW d \in RunsOf(m) \cap Nested
        PROVE  FALSE
    <3>1. d \in Children /\ m[d].slot /\ ~m[d].ending /\ d \in Nested
      BY <2>1 DEF RunsOf
    <3>2. m[d].in
      BY <3>1, <1>4 DEF ChildOK
    <3> QED
      BY <3>1, <3>2, <1>3, <1>5
  <2> QED
    BY <2>1
<1>7. ASSUME NEW y \in Asked(m, q), y < x, q[y] \in Nested
      PROVE  FALSE
  <2>1. y \in Before(m, q, x)
    BY <1>7 DEF Before
  <2>2. q[y] \in Children /\ m[q[y]].in /\ ~m[q[y]].ending
    <3>1. y \in DOMAIN q /\ Runnable(m, q[y])
      BY DEF Asked
    <3>2. q[y] \in Children
      BY <3>1 DEF StateOK
    <3> QED
      BY <3>1, <3>2 DEF Runnable
  <2>3. s[q[y]].slot /\ s[q[y]].in /\ ~s[q[y]].ending
    BY <2>1, <2>2, <1>5
  <2> QED
    BY <2>2, <2>3, <1>3, <1>7
<1> QED
  BY <1>2, <1>6, <1>7

\* The children that pumpLocked starts fit.
LEMMA PumpAdmits ==
  ASSUME MaxConcurrency \in Nat, NEW m, NEW j, NEW r, NEW q, NEW n, StateOK(m, j, r, q, n),
         NEW m1, SlotsOf(m1) = SlotsOf(m) \cup Now(m, q, n),
         RunsOf(m1) = RunsOf(m) \cup Now(m, q, n)
  PROVE  Admitted(m1, n + Cardinality(Starts(m, q, n)))
<1> DEFINE A == Asked(m, q)
           S == Starts(m, q, n)
           T == Now(m, q, n)
           F == {i \in A : n + Cardinality({k \in A : k < i}) < MaxConcurrency}
<1>1. /\ n \in Nat /\ IsFiniteSet(SlotsOf(m)) /\ n = Cardinality(SlotsOf(m))
      /\ MaxConcurrency > 0 =>
           Cardinality(RunsOf(m))
             <= MaxConcurrency + (IF RunsOf(m) \cap Nested = {} THEN 0 ELSE 1)
  BY DEF StateOK, Admitted
<1>2. /\ Len(q) \in Nat /\ A \in SUBSET (1 .. Len(q)) /\ S \in SUBSET A
      /\ IsFiniteSet(S) /\ Cardinality(S) \in Nat /\ IsFiniteSet(T)
      /\ Cardinality(T) = Cardinality(S)
      /\ \A c \in T : c \in Children /\ m[c].in /\ ~m[c].ending /\ ~m[c].slot
  BY Positions
<1>3. SlotsOf(m) \cap T = {} /\ RunsOf(m) \cap T = {} /\ RunsOf(m) \in SUBSET SlotsOf(m)
  BY <1>2 DEF SlotsOf, RunsOf
<1>4. IsFiniteSet(RunsOf(m)) /\ Cardinality(RunsOf(m)) \in Nat /\ Cardinality(RunsOf(m)) <= n
  BY <1>1, <1>3, FS_Subset, FS_CardinalityType
<1>5. IsFiniteSet(SlotsOf(m1)) /\ Cardinality(SlotsOf(m1)) = n + Cardinality(S)
  <2> HIDE DEF T, S
  <2>1. IsFiniteSet(SlotsOf(m) \cup T)
    BY <1>1, <1>2, FS_Union
  <2>2. Cardinality(SlotsOf(m) \cup T) = Cardinality(SlotsOf(m)) + Cardinality(T)
    BY <1>1, <1>2, <1>3, DisjointUnion
  <2> QED
    BY <2>1, <2>2, <1>1, <1>2 DEF T
<1>6. Cardinality(RunsOf(m1)) = Cardinality(RunsOf(m)) + Cardinality(S)
  <2> HIDE DEF T, S
  <2>1. Cardinality(RunsOf(m) \cup T) = Cardinality(RunsOf(m)) + Cardinality(T)
    BY <1>2, <1>3, <1>4, DisjointUnion
  <2> QED
    BY <2>1, <1>2 DEF T
<1>7. ASSUME MaxConcurrency > 0
      PROVE  Cardinality(RunsOf(m1))
               <= MaxConcurrency + (IF RunsOf(m1) \cap Nested = {} THEN 0 ELSE 1)
  <2>1. F # {} => IsFiniteSet(F) /\ Cardinality(F) \in Nat /\ n + Cardinality(F) <= MaxConcurrency
    <3> HIDE DEF A
    <3> QED
      BY <1>1, <1>2, RegularStarts
  <2>2. \A i \in S \ F : /\ i \in A /\ ~(n + Cardinality(Before(m, q, i)) < MaxConcurrency)
    BY <1>2 DEF Before
  <2>3. \A i \in S \ F : /\ q[i] \in Nested /\ RunsOf(m) \cap Nested = {}
                         /\ \A y \in A : y < i => q[y] \notin Nested
    BY <2>2, <1>7, BeyondLimit
  <2>4. \A i, k \in S \ F : i = k
    <3> SUFFICES ASSUME NEW i \in S \ F, NEW k \in S \ F, i # k
                 PROVE  FALSE
      OBVIOUS
    <3>1. i \in A /\ k \in A /\ i \in Nat /\ k \in Nat
      BY <1>2
    <3>2. i < k \/ k < i
      BY <3>1
    <3> HIDE DEF A, S, F
    <3> QED
      BY <2>3, <3>1, <3>2
  <2>5. CASE S \ F = {}
    <3>1. CASE S = {}
      <4>1. Cardinality(S) = 0 /\ T = {}
        BY <3>1, FS_EmptySet DEF Now
      <4>2. RunsOf(m1) = RunsOf(m)
        BY <4>1
      <4> QED
        BY <4>2, <1>1, <1>7
    <3>2. CASE S # {}
      <4>1. S \in SUBSET F /\ F # {}
        BY <2>5, <3>2
      <4>2. Cardinality(S) <= Cardinality(F) /\ Cardinality(F) \in Nat
            /\ n + Cardinality(F) <= MaxConcurrency
        <5> HIDE DEF S, F
        <5> QED
          BY <4>1, <2>1, FS_Subset
      <4> HIDE DEF S, F
      <4>3. Cardinality(RunsOf(m1)) <= MaxConcurrency /\ Cardinality(RunsOf(m1)) \in Nat
        BY <4>2, <1>1, <1>2, <1>4, <1>6
      <4> QED
        BY <4>3
    <3> QED
      BY <3>1, <3>2
  <2>6. CASE S \ F # {}
    <3>1. PICK x \in S \ F : TRUE
      BY <2>6
    <3>2. q[x] \in Nested /\ RunsOf(m) \cap Nested = {} /\ q[x] \in RunsOf(m1)
      <4>1. q[x] \in T
        BY DEF Now
      <4> QED
        BY <4>1, <2>3
    <3>3. S = (S \cap F) \cup {x} /\ x \notin S \cap F
      BY <2>4
    <3>4. IsFiniteSet(S \cap F) /\ Cardinality(S \cap F) \in Nat
          /\ Cardinality(S) = Cardinality(S \cap F) + 1
      <4> HIDE DEF S, F
      <4>1. IsFiniteSet(S \cap F) /\ Cardinality(S \cap F) \in Nat
        <5>1. S \cap F \in SUBSET S
          OBVIOUS
        <5> QED
          BY <5>1, <1>2, FS_Subset, FS_CardinalityType
      <4> QED
        BY <4>1, <3>3, FS_AddElement
    <3>5. Cardinality(RunsOf(m)) + Cardinality(S \cap F) <= MaxConcurrency
      <4>1. CASE F = {}
        <5>1. Cardinality(S \cap F) = 0
          BY <4>1, FS_EmptySet
        <5>2. Cardinality(RunsOf(m)) <= MaxConcurrency
          BY <3>2, <1>1, <1>7
        <5> HIDE DEF S, F
        <5> QED
          BY <5>1, <5>2, <1>4
      <4>2. CASE F # {}
        <5> HIDE DEF S, F
        <5>1. Cardinality(S \cap F) <= Cardinality(F)
          <6>1. S \cap F \in SUBSET F
            OBVIOUS
          <6> QED
            BY <6>1, <4>2, <2>1, FS_Subset
        <5> QED
          BY <5>1, <4>2, <2>1, <1>1, <1>4, <3>4
      <4> QED
        BY <4>1, <4>2
    <3> HIDE DEF S, F
    <3>6. RunsOf(m1) \cap Nested # {}
      BY <3>2
    <3>7. Cardinality(RunsOf(m1)) <= MaxConcurrency + 1
      BY <3>4, <3>5, <1>4, <1>6
    <3> QED
      BY <3>6, <3>7
  <2> QED
    BY <2>5, <2>6
<1> QED
  BY <1>5, <1>7 DEF Admitted

LEMMA PumpState ==
  ASSUME MaxConcurrency \in Nat, NEW m, NEW j, NEW r, NEW q, NEW n, StateOK(m, j, r, q, n),
         pumpLocked(m, j, q, n)
  PROVE  StateOK(mem', job', r, pending', running')
<1> DEFINE S == Starts(m, q, n)
           T == Now(m, q, n)
           stay == Stays(m, q, n)
           ready == [Idle EXCEPT !.pc = "ready"]
<1>1. /\ mem' = [c \in Children |-> IF c \in T THEN [m[c] EXCEPT !.slot = TRUE] ELSE m[c]]
      /\ job' = [c \in Children |-> IF c \in T THEN [j[c] EXCEPT !["exec"] = ready] ELSE j[c]]
      /\ pending' = Remaining(m, q, n)
      /\ running' = n + Cardinality(S)
  BY DEF pumpLocked, Now
<1>2. /\ m \in [Children -> Entries] /\ j \in [Children -> [Threads -> Jobs]]
      /\ r \in [Children -> Runs] /\ q \in Seq(Children) /\ n \in Nat
      /\ \A c \in Children : ChildOK(m[c], j[c], r[c])
      /\ QueueOK(m, j, q)
  BY DEF StateOK
<1>3. /\ Len(q) \in Nat /\ DOMAIN q = 1 .. Len(q) /\ Asked(m, q) \in SUBSET (1 .. Len(q))
      /\ Cardinality(S) \in Nat /\ S \in SUBSET Asked(m, q)
      /\ \A c \in T : /\ c \in Children /\ m[c].in /\ ~m[c].ending /\ ~m[c].slot
                      /\ j[c]["spawn"].pc = "done"
  BY Positions
<1>4. ready \in Jobs /\ ready.pc = "ready" /\ "exec" \in Threads
  BY RunTypes, Names DEF Jobs
<1> HIDE DEF T, S, stay, ready
<1>5. ASSUME NEW c \in Children
      PROVE  /\ mem'[c] \in Entries /\ mem'[c].in = m[c].in /\ mem'[c].ending = m[c].ending
             /\ mem'[c].slot = (m[c].slot \/ c \in T)
             /\ job'[c] \in [Threads -> Jobs]
             /\ \A t \in Threads : t # "exec" => job'[c][t] = j[c][t]
             /\ job'[c]["exec"] = j[c]["exec"] \/ job'[c]["exec"] = ready
  <2>1. m[c] \in Entries /\ j[c] \in [Threads -> Jobs]
    BY <1>2
  <2>2. CASE c \in T
    <3>1. mem'[c] = [m[c] EXCEPT !.slot = TRUE] /\ job'[c] = [j[c] EXCEPT !["exec"] = ready]
      BY <2>2, <1>1
    <3>2. /\ mem'[c] \in Entries /\ mem'[c].in = m[c].in /\ mem'[c].ending = m[c].ending
          /\ mem'[c].slot = TRUE
      BY <3>1, <2>1 DEF Entries
    <3>3. /\ job'[c] \in [Threads -> Jobs]
          /\ \A t \in Threads : t # "exec" => job'[c][t] = j[c][t]
          /\ job'[c]["exec"] = ready
      BY <3>1, <2>1, <1>4
    <3> QED
      BY <2>2, <3>2, <3>3
  <2>3. CASE c \notin T
    <3>1. mem'[c] = m[c] /\ job'[c] = j[c]
      BY <2>3, <1>1
    <3>2. m[c].slot \in BOOLEAN
      BY <2>1 DEF Entries
    <3> QED
      BY <2>1, <2>3, <3>1, <3>2
  <2> QED
    BY <2>2, <2>3
<1>6. mem' \in [Children -> Entries] /\ job' \in [Children -> [Threads -> Jobs]]
  <2>1. /\ mem' = [c \in Children |-> mem'[c]] /\ job' = [c \in Children |-> job'[c]]
    BY <1>1
  <2> QED
    BY <2>1, <1>5
<1>7. ASSUME NEW c \in Children
      PROVE  ChildOK(mem'[c], job'[c], r[c])
  <2>1. ChildOK(m[c], j[c], r[c])
    BY <1>2
  <2>2. job'[c]["spawn"] = j[c]["spawn"] /\ job'[c]["end"] = j[c]["end"]
    BY <1>5, Names
  <2>3. mem'[c].slot => mem'[c].in /\ job'[c]["spawn"].pc = "done"
    BY <2>1, <2>2, <1>3, <1>5 DEF ChildOK
  <2>4. \A t \in Threads : t # "end" /\ job'[c][t].pc = "persist" => job'[c][t].run.state \notin Done
    BY <2>1, <1>4, <1>5 DEF ChildOK
  <2> QED
    BY <2>1, <2>2, <2>3, <2>4, <1>5 DEF ChildOK
<1>8. /\ stay \in SUBSET (1 .. Len(q)) /\ Cardinality(stay) \in Nat /\ stay \cap S = {}
      /\ pending' = [k \in 1 .. Cardinality(stay) |-> q[Nth(stay, k)]]
      /\ \A k \in 1 .. Cardinality(stay) : Nth(stay, k) \in stay
      /\ \A i, k \in 1 .. Cardinality(stay) : Nth(stay, i) = Nth(stay, k) => i = k
  <2>1. stay \in SUBSET (1 .. Len(q)) /\ stay \cap S = {}
    BY <1>3, StartsIs DEF stay, S
  <2>2. /\ Cardinality(stay) \in Nat
        /\ \A k \in 1 .. Cardinality(stay) : Nth(stay, k) \in stay
        /\ \A i, k \in 1 .. Cardinality(stay) : i < k => Nth(stay, i) < Nth(stay, k)
    BY <2>1, <1>3, NthNumber
  <2>3. pending' = [k \in 1 .. Cardinality(stay) |-> q[Nth(stay, k)]]
    BY <1>1 DEF Remaining, stay, Nth
  <2>4. ASSUME NEW i \in 1 .. Cardinality(stay), NEW k \in 1 .. Cardinality(stay),
               Nth(stay, i) = Nth(stay, k)
        PROVE  i = k
    <3>1. Nth(stay, i) \in Nat /\ Nth(stay, k) \in Nat
      <4>1. Nth(stay, i) \in stay /\ Nth(stay, k) \in stay
        BY <2>2
      <4>2. \A x \in stay : x \in Nat
        BY <2>1, <1>3
      <4> QED
        BY <4>1, <4>2
    <3>2. i < k => FALSE
      BY <3>1, <2>2, <2>4
    <3>3. k < i => FALSE
      BY <3>1, <2>2, <2>4
    <3> QED
      BY <3>2, <3>3, <2>2
  <2> QED
    BY <2>1, <2>2, <2>3, <2>4
<1>9. /\ pending' \in Seq(Children) /\ DOMAIN pending' = 1 .. Cardinality(stay)
      /\ \A k \in DOMAIN pending' : pending'[k] = q[Nth(stay, k)] /\ Nth(stay, k) \in DOMAIN q
  <2>1. \A k \in 1 .. Cardinality(stay) : Nth(stay, k) \in DOMAIN q
    BY <1>3, <1>8
  <2>2. \A i \in DOMAIN q : q[i] \in Children
    BY <1>2
  <2>3. \A k \in 1 .. Cardinality(stay) : q[Nth(stay, k)] \in Children
    BY <2>1, <2>2
  <2> DEFINE p == [k \in 1 .. Cardinality(stay) |-> q[Nth(stay, k)]]
  <2>4. p \in [1 .. Cardinality(stay) -> Children]
    BY <2>3
  <2>5. p \in Seq(Children)
    BY <2>4, <1>8
  <2>6. DOMAIN p = 1 .. Cardinality(stay)
    OBVIOUS
  <2>7. \A k \in 1 .. Cardinality(stay) : p[k] = q[Nth(stay, k)]
    OBVIOUS
  <2>8. pending' = p
    BY <1>8
  <2> HIDE DEF p
  <2> QED
    BY <2>1, <2>5, <2>6, <2>7, <2>8
<1>10. QueueOK(mem', job', pending')
  <2>1. ASSUME NEW k \in DOMAIN pending'
        PROVE  ~mem'[pending'[k]].slot /\ job'[pending'[k]]["spawn"].pc = "done"
    <3> DEFINE i == Nth(stay, k)
               c == q[i]
    <3>1. pending'[k] = c /\ i \in DOMAIN q /\ i \in stay
      BY <2>1, <1>8, <1>9
    <3> HIDE DEF i
    <3>2. c \in Children /\ ~m[c].slot /\ j[c]["spawn"].pc = "done"
      BY <3>1, <1>2 DEF QueueOK
    <3>3. c \notin T
      <4>1. ASSUME c \in T
            PROVE  FALSE
        <5>1. PICK y \in S : q[y] = c
          BY <4>1 DEF T, S, Now
        <5>2. y \in DOMAIN q
          BY <5>1, <1>3
        <5>3. y = i
          BY <5>1, <5>2, <3>1, <1>2 DEF QueueOK
        <5> QED
          BY <5>1, <5>3, <3>1, <1>8
      <4> QED
        BY <4>1
    <3> HIDE DEF c
    <3>4. ~mem'[c].slot /\ job'[c]["spawn"] = j[c]["spawn"]
      BY <3>2, <3>3, <1>5, Names
    <3> QED
      BY <3>1, <3>2, <3>4
  <2>2. ASSUME NEW i \in DOMAIN pending', NEW k \in DOMAIN pending', pending'[i] = pending'[k]
        PROVE  i = k
    <3>1. Nth(stay, i) \in DOMAIN q /\ Nth(stay, k) \in DOMAIN q /\ q[Nth(stay, i)] = q[Nth(stay, k)]
      BY <2>2, <1>9
    <3>2. Nth(stay, i) = Nth(stay, k)
      BY <3>1, <1>2 DEF QueueOK
    <3> QED
      BY <3>2, <1>8, <1>9
  <2> QED
    BY <2>1, <2>2 DEF QueueOK
<1>11. Admitted(mem', running')
  <2>1. SlotsOf(mem') = SlotsOf(m) \cup T
    BY <1>3, <1>5 DEF SlotsOf
  <2>2. RunsOf(mem') = RunsOf(m) \cup T
    <3>1. \A c \in Children : (mem'[c].slot /\ ~mem'[c].ending)
                                <=> ((m[c].slot /\ ~m[c].ending) \/ c \in T)
      BY <1>3, <1>5
    <3> QED
      BY <3>1, <1>3 DEF RunsOf
  <2>3. Admitted(mem', n + Cardinality(S))
    BY <2>1, <2>2, PumpAdmits DEF T, S
  <2> QED
    BY <2>3, <1>1
<1>12. running' \in Nat
  BY <1>1, <1>2, <1>3
<1> QED
  BY <1>2, <1>6, <1>7, <1>9, <1>10, <1>11, <1>12 DEF StateOK

\* A child is queued once.
LEMMA QueueAppend ==
  ASSUME NEW m, NEW j, NEW r, NEW q, NEW n, StateOK(m, j, r, q, n), NEW c \in Children,
         \A i \in DOMAIN q : q[i] # c, ~m[c].slot, j[c]["spawn"].pc = "done"
  PROVE  StateOK(m, j, r, Append(q, c), n)
<1> DEFINE p == Append(q, c)
<1>1. q \in Seq(Children) /\ Len(q) \in Nat /\ DOMAIN q = 1 .. Len(q) /\ QueueOK(m, j, q)
  BY DEF StateOK
<1>2. /\ p \in Seq(Children) /\ DOMAIN p = 1 .. Len(q) + 1
      /\ p[Len(q) + 1] = c /\ \A i \in 1 .. Len(q) : p[i] = q[i]
  BY <1>1
<1>3. \A i \in DOMAIN p : (i \in DOMAIN q /\ p[i] = q[i]) \/ (i = Len(q) + 1 /\ p[i] = c)
  <2> HIDE DEF p
  <2>1. TAKE i \in DOMAIN p
  <2>2. i \in 1 .. Len(q) \/ i = Len(q) + 1
    BY <1>1, <1>2
  <2>3. CASE i \in 1 .. Len(q)
    BY <2>3, <1>1, <1>2
  <2>4. CASE i = Len(q) + 1
    BY <2>4, <1>2
  <2> QED
    BY <2>2, <2>3, <2>4
<1> HIDE DEF p
<1>4. QueueOK(m, j, p)
  BY <1>1, <1>3 DEF QueueOK
<1>5. StateOK(m, j, r, p, n)
  BY <1>2, <1>4 DEF StateOK
<1> QED
  BY <1>5 DEF p

LEMMA EnqueueState ==
  ASSUME StateInv, MaxConcurrency \in Nat, NEW c \in Children, Enqueue(c)
  PROVE  StateInv' /\ RowsKept(row')
<1> DEFINE spawned == job[c]["spawn"].tag = "spawn"
           m == IF spawned /\ mem[c].in /\ ~mem[c].ending
                THEN [mem EXCEPT ![c].run = job[c]["spawn"].run] ELSE mem
           q == IF spawned /\ (~mem[c].in \/ mem[c].ending) THEN pending
                ELSE Append(pending, c)
           j == Went(c, "spawn", "done")
<1>1. /\ job[c]["spawn"].pc = "saved" /\ pumpLocked(m, j, q, running) /\ row' = row
  BY DEF Enqueue, At
<1>2. job[c]["spawn"].run \in Runs
  BY Pooled, Names
<1>3. Moved(c, mem, j, row) /\ Moved(c, [mem EXCEPT ![c].run = job[c]["spawn"].run], j, row)
  BY <1>1, <1>2, Names, ThreadWent, ThreadWrote
<1>4. Moved(c, m, j, row)
  BY <1>3
<1>5. j[c]["spawn"].pc = "done"
  BY Names, Pooled, WentJob
<1>6. q = pending \/ q = Append(pending, c)
  OBVIOUS
<1> HIDE DEF m, j, q
<1>7. StateOK(m, j, row, pending, running)
  BY <1>4, MovedState DEF StateInv
<1>8. ~mem[c].slot /\ ~m[c].slot
  <2>1. ChildOK(mem[c], job[c], row[c]) /\ mem[c].slot \in BOOLEAN
    BY Pooled
  <2>2. ~mem[c].slot
    BY <2>1, <1>1 DEF ChildOK
  <2> QED
    BY <2>2, <1>4 DEF Moved
<1>9. \A i \in DOMAIN pending : pending[i] # c
  BY <1>1 DEF StateInv, StateOK, QueueOK
<1>10. StateOK(m, j, row, q, running)
  <2>1. StateOK(m, j, row, Append(pending, c), running)
    BY <1>5, <1>7, <1>8, <1>9, QueueAppend
  <2> QED
    BY <2>1, <1>6, <1>7
<1>11. StateOK(mem', job', row, pending', running')
  BY <1>1, <1>10, PumpState
<1>12. RowsKept(row')
  BY <1>1, RowsSame
<1> QED
  BY <1>1, <1>11, <1>12 DEF StateInv

\* The slot of a child that leaves is given back: terminalize had marked it, so it
\* was not among those that run.
LEMMA TerminalizedState ==
  ASSUME StateInv, MaxConcurrency \in Nat, NEW c \in Children, Terminalized(c)
  PROVE  StateInv' /\ RowsKept(row')
<1> DEFINE run == [job[c]["end"].run EXCEPT !.state = "failed"]
           e == IF At(c, "end") = "saved" THEN [NoEntry EXCEPT !.live = mem[c].live]
                ELSE [NoEntry EXCEPT !.live = mem[c].live, !.fallback = TRUE, !.run = run]
           m == [mem EXCEPT ![c] = e]
           j == Went(c, "end", "done")
           n == Freed(c)
<1>1. /\ job[c]["end"].pc \in {"saved", "failed"} /\ pumpLocked(m, j, pending, n)
      /\ row' = row
  BY DEF Terminalized, At
<1>2. e \in Entries /\ ~e.in /\ ~e.slot
  <2>1. job[c]["end"].run \in Runs /\ mem[c].live \in BOOLEAN
    BY Pooled, Names
  <2>2. run \in Runs
    BY <2>1 DEF Runs, Terminal
  <2> HIDE DEF run
  <2>3. /\ [NoEntry EXCEPT !.live = mem[c].live] \in Entries
        /\ ~[NoEntry EXCEPT !.live = mem[c].live].in
        /\ ~[NoEntry EXCEPT !.live = mem[c].live].slot
    BY <2>1, RunTypes DEF Entries, NoEntry
  <2>4. /\ [NoEntry EXCEPT !.live = mem[c].live, !.fallback = TRUE, !.run = run] \in Entries
        /\ ~[NoEntry EXCEPT !.live = mem[c].live, !.fallback = TRUE, !.run = run].in
        /\ ~[NoEntry EXCEPT !.live = mem[c].live, !.fallback = TRUE, !.run = run].slot
    BY <2>1, <2>2, RunTypes DEF Entries, NoEntry
  <2> QED
    BY <2>3, <2>4
<1> HIDE DEF e
<1>3. /\ m \in [Children -> Entries] /\ m[c] = e
      /\ \A d \in Children : d # c => m[d] = mem[d]
  BY <1>2, EntryAt
<1>4. /\ j \in [Children -> [Threads -> Jobs]]
      /\ \A d \in Children : d # c => j[d] = job[d]
      /\ \A u \in Threads : u # "end" => j[c][u] = job[c][u]
      /\ j[c]["end"].pc = "done"
  BY Names, Pooled, WentJob
<1>5. /\ ChildOK(mem[c], job[c], row[c]) /\ mem[c].slot \in BOOLEAN /\ row \in [Children -> Runs]
      /\ mem \in [Children -> Entries] /\ running \in Nat /\ pending \in Seq(Children)
      /\ Admitted(mem, running) /\ QueueOK(mem, job, pending)
      /\ \A d \in Children : ChildOK(mem[d], job[d], row[d])
  BY Pooled DEF StateInv, StateOK
<1> HIDE DEF m, j
<1>6. job[c]["spawn"].pc # "idle" /\ (mem[c].slot => mem[c].ending)
  BY <1>1, <1>5 DEF ChildOK, Saving
<1>7. \A d \in Children : j[d]["spawn"] = job[d]["spawn"]
  BY <1>4, Names
<1>8. \A d \in Children : ChildOK(m[d], j[d], row[d])
  <2>1. TAKE d \in Children
  <2>2. CASE d = c
    <3>1. \A t \in Threads : t # "end" /\ j[c][t].pc = "persist" => j[c][t].run.state \notin Done
      BY <1>4, <1>5 DEF ChildOK
    <3> QED
      BY <2>2, <3>1, <1>2, <1>3, <1>4, <1>6, <1>7 DEF ChildOK
  <2>3. CASE d # c
    BY <2>3, <1>3, <1>4, <1>5
  <2> QED
    BY <2>2, <2>3
<1>9. QueueOK(m, j, pending)
  <2>1. \A i \in DOMAIN pending : pending[i] \in Children
    BY <1>5
  <2>2. \A d \in Children : ~mem[d].slot => ~m[d].slot
    BY <1>2, <1>3
  <2> QED
    BY <2>1, <2>2, <1>5, <1>7 DEF QueueOK
<1>10. Admitted(m, n) /\ n \in Nat
  <2>1. RunsOf(m) = RunsOf(mem)
    BY <1>2, <1>3, <1>6 DEF RunsOf
  <2>2. CASE mem[c].slot
    <3>1. SlotsOf(m) = SlotsOf(mem) \ {c} /\ c \in SlotsOf(mem)
      BY <2>2, <1>2, <1>3 DEF SlotsOf
    <3>2. n = running - 1
      BY <2>2 DEF Freed
    <3>3. IsFiniteSet(SlotsOf(mem)) /\ running = Cardinality(SlotsOf(mem))
      BY <1>5 DEF Admitted
    <3>4. IsFiniteSet(SlotsOf(m)) /\ Cardinality(SlotsOf(m)) = running - 1
      BY <3>1, <3>3, FS_RemoveElement
    <3>5. running - 1 \in Nat
      BY <3>4, FS_CardinalityType
    <3> HIDE DEF n
    <3> QED
      BY <3>2, <3>4, <3>5, <2>1, <1>5 DEF Admitted
  <2>3. CASE ~mem[c].slot
    <3>1. SlotsOf(m) = SlotsOf(mem)
      BY <2>3, <1>2, <1>3 DEF SlotsOf
    <3>2. n = running
      BY <2>3 DEF Freed
    <3> HIDE DEF n
    <3> QED
      BY <3>1, <3>2, <2>1, <1>5 DEF Admitted
  <2> QED
    BY <2>2, <2>3, <1>5
<1> HIDE DEF n
<1>11. StateOK(m, j, row, pending, n)
  BY <1>3, <1>4, <1>5, <1>8, <1>9, <1>10 DEF StateOK
<1>12. StateOK(mem', job', row, pending', running')
  BY <1>1, <1>11, PumpState
<1>13. RowsKept(row')
  BY <1>1, RowsSame
<1> QED
  BY <1>1, <1>12, <1>13 DEF StateInv

-----------------------------------------------------------------------------
(* The marks, and the steps together. *)

\* A mark changes no end.
LEMMA MarkedState ==
  ASSUME StateInv, NEW C, row' = Delivered(C), UNCHANGED <<mem, job, pending, running>>
  PROVE  StateInv' /\ RowsKept(row')
<1>1. row \in [Children -> Runs]
  BY Pooled
<1>2. ASSUME NEW c \in Children
      PROVE  /\ row'[c] \in Runs /\ row'[c].state = row[c].state /\ row'[c].bg = row[c].bg
             /\ row[c].delivered => row'[c].delivered
             /\ c \in C => row'[c].delivered
  <2>1. row[c] \in Runs
    BY <1>1
  <2>2. row'[c] = IF c \in C THEN [row[c] EXCEPT !.delivered = TRUE] ELSE row[c]
    BY DEF Delivered
  <2>3. /\ [row[c] EXCEPT !.delivered = TRUE] \in Runs
        /\ [row[c] EXCEPT !.delivered = TRUE].state = row[c].state
        /\ [row[c] EXCEPT !.delivered = TRUE].bg = row[c].bg
        /\ [row[c] EXCEPT !.delivered = TRUE].delivered
    BY <2>1 DEF Runs
  <2> QED
    BY <2>1, <2>2, <2>3
<1>3. row' \in [Children -> Runs]
  <2>1. row' = [c \in Children |-> row'[c]]
    BY DEF Delivered
  <2> QED
    BY <2>1, <1>2
<1>4. \A c \in Children : ChildOK(mem[c], job[c], row'[c])
  BY <1>2, <1>3, Unmoved
<1>5. RowsKept(row')
  BY <1>2 DEF RowsKept
<1>6. StateOK(mem, job, row', pending, running)
  BY <1>3, <1>4 DEF StateInv, StateOK
<1> QED
  BY <1>5, <1>6 DEF StateInv

LEMMA HandedState ==
  ASSUME StateInv, NEW c \in Children, Handed(c), UNCHANGED <<mem, job, pending, running>>
  PROVE  StateInv' /\ RowsKept(row')
<1>1. CASE row' = Delivered({c})
  BY <1>1, MarkedState
<1>2. CASE row' = row
  BY <1>2, RowsSame DEF StateInv
<1> QED
  BY <1>1, <1>2 DEF Handed

LEMMA QuietState ==
  ASSUME StateInv, MaxConcurrency \in Nat, NEW c \in Children, Quiet(c)
  PROVE  StateInv' /\ RowsKept(row') /\ UNCHANGED <<wake, log>>
<1>1. Moved(c, mem', job', row') /\ UNCHANGED <<pending, running, wake, log>>
  BY DEF Quiet
<1>2. StateOK(mem', job', row', pending, running)
  BY <1>1, MovedState DEF StateInv
<1> QED
  BY <1>1, <1>2 DEF StateInv, Moved

\* The wakers are where they were, and claim what they claimed.
WakersStay ==
  /\ log' = log
  /\ \A v \in Wakers : wake'[v].pc = wake[v].pc /\ wake'[v].runs = wake[v].runs

SessionKept == StateInv' /\ RowsKept(row') /\ WakersOK' /\ WakersStay

LEMMA SameWakers ==
  ASSUME WakersOK, UNCHANGED <<wake, log>>
  PROVE  WakersOK' /\ WakersStay
BY DEF WakersOK, WakersStay

LEMMA DueWakers ==
  ASSUME WakersOK, OthersOK, NEW w \in Wakers, wake' = Due(w), log' = log
  PROVE  WakersOK' /\ WakersStay
<1>1. left.autoWake \in BOOLEAN
  BY DEF OthersOK, Scenarios
<1>2. wake \in [Wakers -> [due : BOOLEAN, pc : {"idle", "claimed", "started"},
                           runs : SUBSET Children]]
  BY DEF WakersOK
<1> DEFINE x == [wake[w] EXCEPT !.due = left.autoWake]
<1>3. /\ x \in [due : BOOLEAN, pc : {"idle", "claimed", "started"}, runs : SUBSET Children]
      /\ x.pc = wake[w].pc /\ x.runs = wake[w].runs
  BY <1>1, <1>2
<1>4. wake' = [wake EXCEPT ![w] = x]
  BY <1>2 DEF Due
<1> HIDE DEF x
<1>5. wake' \in [Wakers -> [due : BOOLEAN, pc : {"idle", "claimed", "started"},
                            runs : SUBSET Children]]
  BY <1>2, <1>3, <1>4
<1>6. \A v \in Wakers : wake'[v].pc = wake[v].pc /\ wake'[v].runs = wake[v].runs
  BY <1>2, <1>3, <1>4
<1> QED
  BY <1>5, <1>6 DEF WakersOK, WakersStay

\* The steps of a child.
LEMMA ChildSteps ==
  ASSUME SubagentInv, MaxConcurrency \in Nat, NEW c \in Children,
         \/ Create(c) \/ recoverInterrupted(c) \/ Pause(c) \/ Cancel(c) \/ GetOutput(c)
         \/ continueInBackground(c, "window") \/ Progress(c)
  PROVE  SessionKept
<1>1. StateInv /\ WakersOK /\ OthersOK
  BY DEF SubagentInv, StateInv
<1>2. ASSUME Quiet(c)
      PROVE  SessionKept
  <2>1. StateInv' /\ RowsKept(row') /\ UNCHANGED <<wake, log>>
    BY <1>1, <1>2, QuietState
  <2> QED
    BY <2>1, <1>1, SameWakers DEF SessionKept
<1>3. CASE Create(c) \/ recoverInterrupted(c) \/ Pause(c) \/ Cancel(c)
  BY <1>1, <1>2, <1>3, CreateQuiet, RecoverQuiet, PauseQuiet, CancelQuiet
<1>4. CASE GetOutput(c)
  <2>1. row' = Delivered({c}) /\ UNCHANGED <<mem, job, pending, running>>
        /\ UNCHANGED <<wake, log>>
    BY <1>4 DEF GetOutput
  <2> QED
    BY <2>1, <1>1, MarkedState, SameWakers DEF SessionKept
<1>5. CASE continueInBackground(c, "window") \/ continueInBackground(c, "ctx")
  BY <1>1, <1>2, <1>5, BackgroundQuiet
<1>6. CASE waitForForegroundStart(c) \/ foregroundCompletion(c)
  <2>1. Handed(c) /\ UNCHANGED <<mem, job, pending, running>> /\ UNCHANGED <<wake, log>>
    BY <1>6 DEF waitForForegroundStart, foregroundCompletion
  <2> QED
    BY <2>1, <1>1, HandedState, SameWakers DEF SessionKept
<1>7. CASE \E t \in Threads : persistActiveRun(c, t) \/ SaveFails(c, t)
  BY <1>1, <1>2, <1>7, SavedQuiet, UnsavedQuiet
<1>8. CASE \/ MarkQueued(c) \/ SpawnFails(c) \/ SpawnEnds(c) \/ SpawnSuperseded(c)
           \/ RecoverFails(c)
  BY <1>1, <1>2, <1>8, MarkQueuedQuiet, SpawnFailsQuiet, SpawnEndsQuiet, SpawnSupersededQuiet,
     RecoverFailsQuiet
<1>9. CASE Enqueue(c)
  <2>1. UNCHANGED <<wake, log>>
    BY <1>9 DEF Enqueue
  <2> QED
    BY <2>1, <1>1, <1>9, EnqueueState, SameWakers DEF SessionKept
<1>10. CASE \/ Start(c) \/ Prepared(c) \/ PrepareFails(c) \/ ExecSaved(c) \/ ExecSuperseded(c)
            \/ ExecFails(c) \/ Finish(c)
  BY <1>1, <1>2, <1>10, StartQuiet, PreparedQuiet, PrepareFailsQuiet, ExecSavedQuiet,
     ExecSupersededQuiet, ExecFailsQuiet, FinishQuiet
<1>11. CASE CancelSaved(c) \/ CancelFails(c) \/ CancelSuperseded(c)
  BY <1>1, <1>2, <1>11, CancelSavedQuiet, CancelFailsQuiet, CancelSupersededQuiet
<1>12. CASE Terminalized(c)
  <2>1. wake' = Due("child") /\ log' = log
    BY <1>12 DEF Terminalized
  <2>2. WakersOK' /\ WakersStay
    BY <2>1, <1>1, DueWakers DEF Wakers
  <2> QED
    BY <2>2, <1>1, <1>12, TerminalizedState DEF SessionKept
<1>13. CASE DetachSaved(c) \/ DetachFails(c)
  BY <1>1, <1>2, <1>13, DetachSavedQuiet, DetachFailsQuiet
<1>14. "spawn" \in Threads /\ "exec" \in Threads /\ "cancel" \in Threads /\ "end" \in Threads
       /\ "detach" \in Threads
  BY Names
<1>15. CASE Progress(c)
  <2>1. CASE SpawnStep(c)
    BY <2>1, <1>7, <1>8, <1>9, <1>14 DEF SpawnStep
  <2>2. CASE ExecStep(c)
    BY <2>2, <1>7, <1>10, <1>14 DEF ExecStep
  <2>3. CASE CancelStep(c)
    BY <2>3, <1>7, <1>11, <1>14 DEF CancelStep
  <2>4. CASE EndStep(c)
    BY <2>4, <1>7, <1>12, <1>14 DEF EndStep
  <2>5. CASE DetachStep(c)
    BY <2>5, <1>7, <1>13, <1>14 DEF DetachStep
  <2>6. CASE WaitStep(c)
    BY <2>6, <1>5, <1>6 DEF WaitStep
  <2> QED
    BY <1>15, <2>1, <2>2, <2>3, <2>4, <2>5, <2>6 DEF Progress
<1> QED
  BY <1>3, <1>4, <1>5, <1>15

-----------------------------------------------------------------------------
(* What else the steps change. *)

LEMMA LeftType ==
  ASSUME left \in Scenarios,
         \/ left' = left
         \/ left.faults > 0 /\ left' = [left EXCEPT !.faults = @ - 1]
         \/ left.pauses > 0 /\ left' = [left EXCEPT !.pauses = @ - 1]
         \/ left.cancels > 0 /\ left' = [left EXCEPT !.cancels = @ - 1]
         \/ left.stops > 0 /\ left' = [left EXCEPT !.stops = @ - 1]
         \/ left.crashes > 0 /\ left' = [left EXCEPT !.crashes = @ - 1]
  PROVE  left' \in Scenarios
BY DEF Scenarios

LEMMA ChildOthers ==
  ASSUME SubagentInv, NEW c \in Children,
         \/ Create(c) \/ recoverInterrupted(c) \/ Pause(c) \/ Cancel(c) \/ GetOutput(c)
         \/ continueInBackground(c, "window") \/ Progress(c)
  PROVE  OthersOK'
<1> DEFINE W == {"none", "spawning", "refusing", "failing", "starting",
                 "waiting", "unbounded", "detaching"}
<1>1. /\ wait \in [Children -> W] /\ left \in Scenarios
      /\ turn \in {"running", "stopping", "idle", "waking"}
  BY DEF SubagentInv, OthersOK
<1>2. ASSUME turn' = turn, wait' = wait, left' = left
      PROVE  OthersOK'
  BY <1>1, <1>2 DEF OthersOK
<1>3. ASSUME turn' = turn, left' = left, NEW x \in W, wait' = [wait EXCEPT ![c] = x]
      PROVE  OthersOK'
  BY <1>1, <1>3 DEF OthersOK
<1>4. ASSUME turn' = turn, wait' = wait,
             \/ left' = left
             \/ left.faults > 0 /\ left' = [left EXCEPT !.faults = @ - 1]
             \/ left.pauses > 0 /\ left' = [left EXCEPT !.pauses = @ - 1]
             \/ left.cancels > 0 /\ left' = [left EXCEPT !.cancels = @ - 1]
      PROVE  OthersOK'
  <2>1. left' \in Scenarios
    BY <1>1, <1>4, LeftType
  <2> QED
    BY <1>1, <1>4, <2>1 DEF OthersOK
<1>5. wait[c] \in W
  BY <1>1
<1> HIDE DEF W
<1>6. ASSUME turn' = turn, left' = left, SpawnReturns(c)
      PROVE  OthersOK'
  <2>1. wait' = [wait EXCEPT ![c] = IF wait[c] = "spawning" THEN "starting" ELSE wait[c]]
    BY <1>1, <1>6 DEF SpawnReturns
  <2>2. (IF wait[c] = "spawning" THEN "starting" ELSE wait[c]) \in W
    BY <1>5 DEF W
  <2> QED
    BY <2>1, <2>2, <1>3, <1>6
<1>7. ASSUME turn' = turn, left' = left, NEW tag, wait' = Kept(c, tag)
      PROVE  OthersOK'
  <2>1. (IF tag = "ctx" THEN "none" ELSE "unbounded") \in W
    BY DEF W
  <2> QED
    BY <2>1, <1>3, <1>7 DEF Kept
<1>8. CASE Create(c)
  <2>1. PICK bg \in BOOLEAN : wait' = [wait EXCEPT ![c] = IF bg THEN "none" ELSE "spawning"]
    BY <1>8 DEF Create
  <2>2. (IF bg THEN "none" ELSE "spawning") \in W /\ turn' = turn /\ left' = left
    BY <1>8 DEF W, Create
  <2> QED
    BY <2>1, <2>2, <1>3
<1>9. CASE recoverInterrupted(c) \/ GetOutput(c)
  BY <1>9, <1>2 DEF recoverInterrupted, GetOutput
<1>10. CASE Pause(c) \/ Cancel(c)
  BY <1>10, <1>4 DEF Pause, Cancel
<1>11. ASSUME NEW tag, continueInBackground(c, tag)
       PROVE  OthersOK'
  <2>1. turn' = turn /\ left' = left
    BY <1>11 DEF continueInBackground
  <2>2. \/ wait' = [wait EXCEPT ![c] = "detaching"]
        \/ wait' = [wait EXCEPT ![c] = "none"]
        \/ wait' = Kept(c, tag)
    BY <1>11 DEF continueInBackground
  <2>3. "detaching" \in W /\ "none" \in W
    BY DEF W
  <2> QED
    BY <2>1, <2>2, <2>3, <1>3, <1>7
<1>12. CASE waitForForegroundStart(c) \/ foregroundCompletion(c)
  <2>1. turn' = turn /\ left' = left
    BY <1>12 DEF waitForForegroundStart, foregroundCompletion
  <2>2. wait' = [wait EXCEPT ![c] = "none"] \/ wait' = [wait EXCEPT ![c] = "waiting"]
    BY <1>12 DEF waitForForegroundStart, foregroundCompletion
  <2>3. "waiting" \in W /\ "none" \in W
    BY DEF W
  <2> QED
    BY <2>1, <2>2, <2>3, <1>3
<1>13. CASE \E t \in Threads : persistActiveRun(c, t)
  BY <1>13, <1>2 DEF persistActiveRun
<1>14. CASE \E t \in Threads : SaveFails(c, t)
  BY <1>14, <1>4 DEF SaveFails
<1>15. CASE MarkQueued(c) \/ RecoverFails(c)
  BY <1>15, <1>2 DEF MarkQueued, RecoverFails
<1>16. CASE Enqueue(c) \/ SpawnSuperseded(c)
  BY <1>16, <1>6 DEF Enqueue, SpawnSuperseded
<1>17. CASE SpawnFails(c)
  <2> DEFINE x == IF wait[c] = "none" THEN wait[c]
                  ELSE IF At(c, "spawn") = "saved" THEN "refusing" ELSE "failing"
  <2>1. x \in W
    BY <1>5 DEF W
  <2>2. wait' = [wait EXCEPT ![c] = x] /\ turn' = turn /\ left' = left
    BY <1>1, <1>17 DEF SpawnFails
  <2> QED
    BY <2>1, <2>2, <1>3
<1>18. CASE SpawnEnds(c)
  <2> DEFINE x == IF wait[c] = "refusing" THEN "none" ELSE "starting"
  <2>1. x \in W
    BY DEF W
  <2>2. wait' = [wait EXCEPT ![c] = x] /\ turn' = turn /\ left' = left
    BY <1>1, <1>18 DEF SpawnEnds
  <2> QED
    BY <2>1, <2>2, <1>3
<1>19. CASE Start(c) \/ Prepared(c) \/ ExecSaved(c) \/ ExecSuperseded(c) \/ ExecFails(c) \/ Finish(c)
  BY <1>19, <1>2 DEF Start, Prepared, ExecSaved, ExecSuperseded, ExecFails, Finish
<1>20. CASE PrepareFails(c)
  BY <1>20, <1>4 DEF PrepareFails
<1>21. CASE CancelSaved(c) \/ CancelFails(c) \/ CancelSuperseded(c) \/ Terminalized(c)
  BY <1>21, <1>2 DEF CancelSaved, CancelFails, CancelSuperseded, Terminalized
<1>22. CASE DetachSaved(c) \/ DetachFails(c)
  <2>1. turn' = turn /\ left' = left
    BY <1>22 DEF DetachSaved, DetachFails
  <2>2. \/ wait' = [wait EXCEPT ![c] = "none"]
        \/ wait' = Kept(c, job[c]["detach"].tag)
    BY <1>22 DEF DetachSaved, DetachFails
  <2>3. "none" \in W
    BY DEF W
  <2> QED
    BY <2>1, <2>2, <2>3, <1>3, <1>7
<1>23. CASE Progress(c)
  <2>1. CASE SpawnStep(c)
    BY <2>1, <1>13, <1>14, <1>15, <1>16, <1>17, <1>18, Names DEF SpawnStep
  <2>2. CASE ExecStep(c)
    BY <2>2, <1>13, <1>14, <1>19, <1>20, Names DEF ExecStep
  <2>3. CASE CancelStep(c)
    BY <2>3, <1>13, <1>14, <1>21, Names DEF CancelStep
  <2>4. CASE EndStep(c)
    BY <2>4, <1>13, <1>14, <1>21, Names DEF EndStep
  <2>5. CASE DetachStep(c)
    BY <2>5, <1>13, <1>14, <1>22, Names DEF DetachStep
  <2>6. CASE WaitStep(c)
    BY <2>6, <1>11, <1>12 DEF WaitStep
  <2> QED
    BY <1>23, <2>1, <2>2, <2>3, <2>4, <2>5, <2>6 DEF Progress
<1> QED
  BY <1>8, <1>9, <1>10, <1>11, <1>23

-----------------------------------------------------------------------------
(* The turns, the wakers and a restart. *)

LEMMA TurnSteps ==
  ASSUME SubagentInv, TurnCompletes \/ TurnStops \/ TurnEnds
  PROVE  SessionKept /\ OthersOK'
<1>1. StateInv /\ WakersOK /\ OthersOK
  BY DEF SubagentInv, StateInv
<1>2. wait' = wait /\ turn' \in {"idle", "stopping"} /\ left' \in Scenarios
  <2>1. left \in Scenarios
    BY <1>1 DEF OthersOK
  <2>2. left' = left \/ (left.stops > 0 /\ left' = [left EXCEPT !.stops = @ - 1])
    BY DEF TurnCompletes, TurnStops, TurnEnds
  <2>3. left' \in Scenarios
    BY <2>1, <2>2, LeftType
  <2> QED
    BY <2>3 DEF TurnCompletes, TurnStops, TurnEnds
<1>3. OthersOK'
  BY <1>1, <1>2 DEF OthersOK
<1>4. CASE TurnCompletes
  <2>1. /\ row' = Delivered({c \in Direct : subagentTerminal(row[c].state)})
        /\ UNCHANGED <<mem, job, pending, running>> /\ wake' = Due("turn") /\ log' = log
    BY <1>4 DEF TurnCompletes
  <2>2. WakersOK' /\ WakersStay
    BY <2>1, <1>1, DueWakers DEF Wakers
  <2>3. StateInv' /\ RowsKept(row')
    BY <2>1, <1>1, MarkedState
  <2> QED
    BY <2>2, <2>3, <1>3 DEF SessionKept
<1>5. CASE TurnStops
  <2>1. UNCHANGED <<mem, row, job, pending, running>> /\ UNCHANGED <<wake, log>>
    BY <1>5 DEF TurnStops
  <2> QED
    BY <2>1, <1>1, <1>3, SameWakers, RowsSame DEF SessionKept, StateInv
<1>6. CASE TurnEnds
  <2>1. UNCHANGED <<mem, row, job, pending, running>> /\ wake' = Due("turn") /\ log' = log
    BY <1>6 DEF TurnEnds
  <2>2. WakersOK' /\ WakersStay
    BY <2>1, <1>1, DueWakers DEF Wakers
  <2> QED
    BY <2>1, <2>2, <1>1, <1>3, RowsSame DEF SessionKept, StateInv
<1> QED
  BY <1>4, <1>5, <1>6

\* The wake entry of one waker.
LEMMA WakerAt ==
  ASSUME WakersOK, NEW w \in Wakers, NEW x,
         x \in [due : BOOLEAN, pc : {"idle", "claimed", "started"}, runs : SUBSET Children],
         wake' = [wake EXCEPT ![w] = x]
  PROVE  /\ wake' \in [Wakers -> [due : BOOLEAN, pc : {"idle", "claimed", "started"},
                                  runs : SUBSET Children]]
         /\ wake'[w] = x /\ \A v \in Wakers : v # w => wake'[v] = wake[v]
BY DEF WakersOK

LEMMA Apart ==
  ASSUME NEW w, NEW x \in Wakers, NEW y, \A v \in Wakers : v # x => y[v] = w[v],
         w["child"].runs \cap w["turn"].runs = {},
         \A v \in Wakers : v # x => y[x].runs \cap w[v].runs = {}
  PROVE  y["child"].runs \cap y["turn"].runs = {}
BY DEF Wakers

LEMMA ClaimsWake ==
  ASSUME SubagentInv, NEW w \in Wakers, WakeClaims(w)
  PROVE  WakersOK' /\ WakeOK(row', wake', log')
<1> DEFINE claimed == undeliveredBackgroundCompletions \ wakeInFlight
           x == [due |-> FALSE, runs |-> claimed,
                 pc |-> IF claimed = {} THEN "idle" ELSE "claimed"]
<1>1. /\ wake[w].pc = "idle" /\ wake' = [wake EXCEPT ![w] = x] /\ row' = row /\ log' = log
  BY DEF WakeClaims
<1>2. WakersOK /\ WakeOK(row, wake, log)
  BY DEF SubagentInv
<1>3. claimed \in SUBSET Children
  BY DEF undeliveredBackgroundCompletions
<1>4. \A v \in Wakers : claimed \cap wake[v].runs = {}
  BY DEF wakeInFlight
<1> HIDE DEF claimed
<1>5. /\ x \in [due : BOOLEAN, pc : {"idle", "claimed", "started"}, runs : SUBSET Children]
      /\ x.runs = claimed
  BY <1>3
<1> HIDE DEF x
<1>6. /\ wake' \in [Wakers -> [due : BOOLEAN, pc : {"idle", "claimed", "started"},
                               runs : SUBSET Children]]
      /\ wake'[w] = x /\ \A v \in Wakers : v # w => wake'[v] = wake[v]
  BY <1>1, <1>2, <1>5, WakerAt
<1>7. wake'["child"].runs \cap wake'["turn"].runs = {}
  <2>1. wake["child"].runs \cap wake["turn"].runs = {}
    BY <1>2 DEF WakeOK
  <2>2. \A v \in Wakers : v # w => wake'[w].runs \cap wake[v].runs = {}
    BY <1>4, <1>5, <1>6
  <2> QED
    BY <2>1, <2>2, <1>6, Apart
<1>8. ASSUME NEW c \in Children, log[c] # 0
      PROVE  /\ log[c] = 1 /\ row[c].bg /\ row[c].state \in {"completed", "failed"}
             /\ row[c].delivered \/ \E v \in Wakers : wake'[v].pc = "started" /\ c \in wake'[v].runs
  <2>1. /\ log[c] = 1 /\ row[c].bg /\ row[c].state \in {"completed", "failed"}
        /\ row[c].delivered \/ \E v \in Wakers : wake[v].pc = "started" /\ c \in wake[v].runs
    BY <1>2, <1>8 DEF WakeOK
  <2>2. ASSUME NEW v \in Wakers, wake[v].pc = "started", c \in wake[v].runs
        PROVE  wake'[v].pc = "started" /\ c \in wake'[v].runs
    BY <2>2, <1>1, <1>6
  <2> QED
    BY <2>1, <2>2
<1>9. WakeOK(row, wake', log)
  BY <1>7, <1>8 DEF WakeOK
<1> QED
  BY <1>1, <1>2, <1>6, <1>9 DEF WakersOK

LEMMA StartsWake ==
  ASSUME SubagentInv, NEW w \in Wakers, StartSubagentAutoWake(w)
  PROVE  WakersOK' /\ WakeOK(row', wake', log')
<1> DEFINE current == wake[w].runs \cap undeliveredBackgroundCompletions
           new == {c \in current : row[c].state # "interrupted"}
<1>1. wake[w].pc = "claimed" /\ row' = row
  BY DEF StartSubagentAutoWake
<1>2. WakersOK /\ WakeOK(row, wake, log)
  BY DEF SubagentInv
<1>3. /\ wake \in [Wakers -> [due : BOOLEAN, pc : {"idle", "claimed", "started"},
                              runs : SUBSET Children]]
      /\ log \in [Children -> Nat]
  BY <1>2 DEF WakersOK
<1>4. wake["child"].runs \cap wake["turn"].runs = {}
  BY <1>2 DEF WakeOK
<1>5. \A v \in Wakers : v # w => wake[w].runs \cap wake[v].runs = {}
  BY <1>4 DEF Wakers
<1>6. ASSUME NEW c \in Children, log[c] # 0
      PROVE  /\ log[c] = 1 /\ row[c].bg /\ row[c].state \in {"completed", "failed"}
             /\ \/ row[c].delivered
                \/ \E v \in Wakers : v # w /\ wake[v].pc = "started" /\ c \in wake[v].runs
  BY <1>1, <1>2, <1>6 DEF WakeOK
<1>7. ASSUME NEW c \in new
      PROVE  /\ c \in Children /\ c \in wake[w].runs /\ log[c] = 0
             /\ row[c].bg /\ row[c].state \in {"completed", "failed"}
  <2>1. /\ c \in Children /\ c \in wake[w].runs /\ row[c].bg /\ ~row[c].delivered
        /\ row[c].state \in Terminal \ {"cancelled"} /\ row[c].state # "interrupted"
    BY <1>7 DEF undeliveredBackgroundCompletions
  <2>2. row[c].state \in {"completed", "failed"}
    BY <2>1 DEF Terminal
  <2>3. log[c] = 0
    BY <2>1, <1>5, <1>6
  <2> QED
    BY <2>1, <2>2, <2>3
<1>8. CASE turn = "idle" /\ current # {}
  <2> DEFINE x == [wake[w] EXCEPT !.pc = "started"]
  <2>1. /\ wake' = [wake EXCEPT ![w] = x]
        /\ log' = [c \in Children |-> IF c \in new THEN log[c] + 1 ELSE log[c]]
    <3>1. /\ wake' = [wake EXCEPT ![w].pc = "started"]
          /\ log' = [c \in Children |-> IF c \in current /\ row[c].state # "interrupted"
                                        THEN log[c] + 1 ELSE log[c]]
      BY <1>8 DEF StartSubagentAutoWake
    <3> QED
      BY <3>1, <1>3
  <2>2. /\ x \in [due : BOOLEAN, pc : {"idle", "claimed", "started"}, runs : SUBSET Children]
        /\ x.runs = wake[w].runs /\ x.pc = "started"
    BY <1>3
  <2> HIDE DEF x, current, new
  <2>3. /\ wake' \in [Wakers -> [due : BOOLEAN, pc : {"idle", "claimed", "started"},
                                 runs : SUBSET Children]]
        /\ wake'[w] = x /\ \A v \in Wakers : v # w => wake'[v] = wake[v]
    BY <1>2, <2>1, <2>2, WakerAt
  <2>4. log' \in [Children -> Nat]
    BY <2>1, <1>3
  <2>5. wake'["child"].runs \cap wake'["turn"].runs = {}
    <3>1. \A v \in Wakers : v # w => wake'[w].runs \cap wake[v].runs = {}
      BY <2>2, <2>3, <1>5
    <3> QED
      BY <3>1, <2>3, <1>4, Apart
  <2>6. ASSUME NEW c \in Children, log'[c] # 0
        PROVE  /\ log'[c] = 1 /\ row[c].bg /\ row[c].state \in {"completed", "failed"}
               /\ row[c].delivered \/ \E v \in Wakers : wake'[v].pc = "started" /\ c \in wake'[v].runs
    <3>1. CASE c \in new
      <4>1. log'[c] = 1
        BY <3>1, <1>7, <2>1
      <4>2. wake'[w].pc = "started" /\ c \in wake'[w].runs
        BY <3>1, <1>7, <2>2, <2>3
      <4> QED
        BY <4>1, <4>2, <3>1, <1>7
    <3>2. CASE c \notin new
      <4>1. log'[c] = log[c]
        BY <3>2, <2>1
      <4>2. /\ log[c] = 1 /\ row[c].bg /\ row[c].state \in {"completed", "failed"}
            /\ \/ row[c].delivered
               \/ \E v \in Wakers : v # w /\ wake[v].pc = "started" /\ c \in wake[v].runs
        BY <4>1, <2>6, <1>6
      <4> QED
        BY <4>1, <4>2, <2>3
    <3> QED
      BY <3>1, <3>2
  <2>7. WakeOK(row, wake', log')
    BY <2>5, <2>6 DEF WakeOK
  <2> QED
    BY <1>1, <2>3, <2>4, <2>7 DEF WakersOK
<1>9. CASE ~(turn = "idle" /\ current # {})
  <2> DEFINE x == [wake[w] EXCEPT !.pc = "idle", !.runs = {}]
  <2>1. wake' = [wake EXCEPT ![w] = x] /\ log' = log
    <3>1. wake' = [wake EXCEPT ![w].pc = "idle", ![w].runs = {}] /\ log' = log
      BY <1>9 DEF StartSubagentAutoWake
    <3> QED
      BY <3>1, <1>3
  <2>2. /\ x \in [due : BOOLEAN, pc : {"idle", "claimed", "started"}, runs : SUBSET Children]
        /\ x.runs = {}
    BY <1>3
  <2> HIDE DEF x, current, new
  <2>3. /\ wake' \in [Wakers -> [due : BOOLEAN, pc : {"idle", "claimed", "started"},
                                 runs : SUBSET Children]]
        /\ wake'[w] = x /\ \A v \in Wakers : v # w => wake'[v] = wake[v]
    BY <1>2, <2>1, <2>2, WakerAt
  <2>4. wake'["child"].runs \cap wake'["turn"].runs = {}
    <3>1. \A v \in Wakers : v # w => wake'[w].runs \cap wake[v].runs = {}
      BY <2>2, <2>3
    <3> QED
      BY <3>1, <2>3, <1>4, Apart
  <2>5. WakeOK(row, wake', log)
    BY <2>3, <2>4, <1>6 DEF WakeOK
  <2> QED
    BY <1>1, <1>3, <2>1, <2>3, <2>5 DEF WakersOK
<1> QED
  BY <1>8, <1>9

LEMMA DeliversWake ==
  ASSUME SubagentInv, NEW w \in Wakers, SetCompletionDelivered(w)
  PROVE  StateInv' /\ RowsKept(row') /\ WakersOK' /\ WakeOK(row', wake', log')
<1> DEFINE told == wake[w].runs \cap undeliveredBackgroundCompletions
           x == [wake[w] EXCEPT !.pc = "idle", !.runs = {}]
<1>1. /\ wake[w].pc = "started" /\ row' = Delivered(told) /\ log' = log
      /\ wake' = [wake EXCEPT ![w].pc = "idle", ![w].runs = {}]
      /\ UNCHANGED <<mem, job, pending, running>>
  BY DEF SetCompletionDelivered
<1>2. WakersOK /\ WakeOK(row, wake, log) /\ StateInv
  BY DEF SubagentInv, StateInv
<1>3. /\ wake \in [Wakers -> [due : BOOLEAN, pc : {"idle", "claimed", "started"},
                              runs : SUBSET Children]]
      /\ log \in [Children -> Nat]
  BY <1>2 DEF WakersOK
<1>4. wake' = [wake EXCEPT ![w] = x]
  BY <1>1, <1>3
<1>5. /\ x \in [due : BOOLEAN, pc : {"idle", "claimed", "started"}, runs : SUBSET Children]
      /\ x.runs = {}
  BY <1>3
<1>6. StateInv' /\ RowsKept(row')
  BY <1>1, <1>2, MarkedState
<1>7. ASSUME NEW c \in Children, c \in told
      PROVE  row'[c].delivered
  <2>1. row[c] \in Runs
    BY <1>2, Pooled
  <2>2. row'[c] = [row[c] EXCEPT !.delivered = TRUE]
    BY <1>1, <1>7 DEF Delivered
  <2> QED
    BY <2>1, <2>2 DEF Runs
<1> HIDE DEF x
<1>8. /\ wake' \in [Wakers -> [due : BOOLEAN, pc : {"idle", "claimed", "started"},
                               runs : SUBSET Children]]
      /\ wake'[w] = x /\ \A v \in Wakers : v # w => wake'[v] = wake[v]
  BY <1>2, <1>4, <1>5, WakerAt
<1>9. wake'["child"].runs \cap wake'["turn"].runs = {}
  <2>1. wake["child"].runs \cap wake["turn"].runs = {}
    BY <1>2 DEF WakeOK
  <2>2. \A v \in Wakers : v # w => wake'[w].runs \cap wake[v].runs = {}
    BY <1>5, <1>8
  <2> QED
    BY <2>1, <2>2, <1>8, Apart
<1>10. ASSUME NEW c \in Children, log[c] # 0
       PROVE  /\ log[c] = 1 /\ row'[c].bg /\ row'[c].state \in {"completed", "failed"}
              /\ row'[c].delivered \/ \E v \in Wakers : wake'[v].pc = "started" /\ c \in wake'[v].runs
  <2>1. /\ log[c] = 1 /\ row[c].bg /\ row[c].state \in {"completed", "failed"}
        /\ row[c].delivered \/ \E v \in Wakers : wake[v].pc = "started" /\ c \in wake[v].runs
    BY <1>2, <1>10 DEF WakeOK
  <2>2. row[c].state \in Done
    BY <2>1, Names
  <2>3. row'[c].state = row[c].state /\ row'[c].bg = row[c].bg /\ (row[c].delivered => row'[c].delivered)
    BY <2>2, <1>6 DEF RowsKept
  <2>4. ASSUME NEW v \in Wakers, wake[v].pc = "started", c \in wake[v].runs, ~row[c].delivered
        PROVE  row'[c].delivered \/ (wake'[v].pc = "started" /\ c \in wake'[v].runs)
    <3>1. CASE v = w
      <4>1. c \in undeliveredBackgroundCompletions
        BY <2>1, <2>4 DEF undeliveredBackgroundCompletions, Terminal
      <4> QED
        BY <4>1, <3>1, <2>4, <1>7
    <3>2. CASE v # w
      BY <3>2, <2>4, <1>8
    <3> QED
      BY <3>1, <3>2
  <2> QED
    BY <2>1, <2>3, <2>4
<1>11. WakeOK(row', wake', log)
  BY <1>9, <1>10 DEF WakeOK
<1> QED
  BY <1>1, <1>3, <1>6, <1>8, <1>11 DEF WakersOK

LEMMA WakeSteps ==
  ASSUME SubagentInv, NEW w \in Wakers, WakeStep(w)
  PROVE  SubagentInv' /\ RowsKept(row')
<1>1. StateInv /\ OthersOK
  BY DEF SubagentInv, StateInv
<1>2. turn' \in {turn, "waking"} /\ wait' = wait /\ left' = left
  BY DEF WakeStep, WakeClaims, StartSubagentAutoWake, SetCompletionDelivered
<1>3. OthersOK'
  BY <1>1, <1>2 DEF OthersOK
<1>4. CASE SetCompletionDelivered(w)
  BY <1>3, <1>4, DeliversWake DEF SubagentInv, StateInv
<1>5. CASE WakeClaims(w) \/ StartSubagentAutoWake(w)
  <2>1. UNCHANGED <<mem, row, job, pending, running>>
    BY <1>5 DEF WakeClaims, StartSubagentAutoWake
  <2>2. StateInv' /\ RowsKept(row')
    BY <2>1, <1>1, RowsSame DEF StateInv
  <2>3. WakersOK' /\ WakeOK(row', wake', log')
    BY <1>5, ClaimsWake, StartsWake
  <2> QED
    BY <2>2, <2>3, <1>3 DEF SubagentInv, StateInv
<1> QED
  BY <1>4, <1>5 DEF WakeStep

\* A process that has just started.
LEMMA FreshState ==
  ASSUME MaxConcurrency \in Nat, NEW r \in [Children -> Runs]
  PROVE  StateOK([c \in Children |-> NoEntry], [c \in Children |-> [t \in Threads |-> Idle]],
                 r, <<>>, 0)
<1> DEFINE m == [c \in Children |-> NoEntry]
           j == [c \in Children |-> [t \in Threads |-> Idle]]
           q == <<>>
<1>1. m \in [Children -> Entries] /\ j \in [Children -> [Threads -> Jobs]]
  BY RunTypes
<1>2. ~NoEntry.in /\ ~NoEntry.slot /\ Idle.pc = "idle"
  BY DEF NoEntry, Idle
<1>3. \A c \in Children : ChildOK(m[c], j[c], r[c])
  BY <1>2, Names DEF ChildOK, Saving
<1>4. q \in Seq(Children) /\ DOMAIN q = {}
  OBVIOUS
<1>5. QueueOK(m, j, q)
  BY <1>4 DEF QueueOK
<1>6. SlotsOf(m) = {} /\ RunsOf(m) = {}
  BY <1>2 DEF SlotsOf, RunsOf
<1>7. Admitted(m, 0)
  BY <1>6, FS_EmptySet DEF Admitted
<1> QED
  BY <1>1, <1>3, <1>4, <1>5, <1>7 DEF StateOK

LEMMA FreshWakers ==
  /\ NoWake \in [Wakers -> [due : BOOLEAN, pc : {"idle", "claimed", "started"},
                            runs : SUBSET Children]]
  /\ \A v \in Wakers : NoWake[v].runs = {}
  /\ [c \in Children |-> 0] \in [Children -> Nat]
  /\ \A r : WakeOK(r, NoWake, [c \in Children |-> 0])
<1>1. /\ NoWake \in [Wakers -> [due : BOOLEAN, pc : {"idle", "claimed", "started"},
                                runs : SUBSET Children]]
      /\ \A v \in Wakers : NoWake[v].runs = {}
      /\ [c \in Children |-> 0] \in [Children -> Nat]
  BY DEF NoWake
<1>2. NoWake["child"].runs \cap NoWake["turn"].runs = {}
  BY <1>1 DEF Wakers
<1> QED
  BY <1>1, <1>2 DEF WakeOK

LEMMA CrashStep ==
  ASSUME SubagentInv, MaxConcurrency \in Nat, Crash
  PROVE  SubagentInv' /\ RowsKept(row')
<1>1. StateInv /\ OthersOK
  BY DEF SubagentInv, StateInv
<1>2. ASSUME NEW c \in Children
      PROVE  /\ row'[c] \in Runs
             /\ row[c].state \in Done => row'[c] = row[c]
  <2>1. row[c] \in Runs
    BY <1>1, Pooled
  <2>2. row'[c] = IF row[c].state \in Incomplete
                  THEN [row[c] EXCEPT !.state = "interrupted"] ELSE row[c]
    BY DEF Crash, InterruptIncomplete
  <2>3. [row[c] EXCEPT !.state = "interrupted"] \in Runs
    BY <2>1 DEF Runs, Terminal
  <2> QED
    BY <2>1, <2>2, <2>3, Names
<1>3. row' \in [Children -> Runs] /\ RowsKept(row')
  <2>1. row' = [c \in Children |-> row'[c]]
    BY DEF Crash, InterruptIncomplete
  <2> QED
    BY <2>1, <1>2 DEF RowsKept
<1>4. StateInv'
  BY <1>3, FreshState DEF Crash, StateInv
<1>5. WakersOK' /\ WakeOK(row', wake', log')
  BY FreshWakers DEF Crash, WakersOK
<1>6. OthersOK'
  <2>1. left' \in Scenarios
    BY <1>1, LeftType DEF Crash, OthersOK
  <2>2. /\ wait' = [c \in Children |-> "none"]
        /\ turn' \in {"running", "idle"}
    BY DEF Crash
  <2> QED
    BY <2>1, <2>2 DEF OthersOK
<1> QED
  BY <1>3, <1>4, <1>5, <1>6 DEF SubagentInv, StateInv

LEMMA InitInv == Init => SubagentInv
<1> SUFFICES ASSUME Init
             PROVE  SubagentInv
  OBVIOUS
<1>1. MaxConcurrency \in Nat /\ left \in Scenarios
  BY SubagentAssumption DEF Init
<1>2. row \in [Children -> Runs]
  BY RunTypes DEF Init
<1>3. StateOK(mem, job, row, pending, running)
  BY <1>1, <1>2, FreshState DEF Init
<1>4. WakersOK /\ WakeOK(row, wake, log)
  BY FreshWakers DEF Init, WakersOK
<1>5. OthersOK
  BY <1>1 DEF Init, OthersOK
<1> QED
  BY <1>3, <1>4, <1>5 DEF SubagentInv

LEMMA NextInv == SubagentInv /\ [Next]_vars => SubagentInv' /\ RowsKept(row')
<1> SUFFICES ASSUME SubagentInv, [Next]_vars
             PROVE  SubagentInv' /\ RowsKept(row')
  OBVIOUS
<1>1. MaxConcurrency \in Nat
  BY SubagentAssumption
<1>2. ASSUME SessionKept, OthersOK'
      PROVE  SubagentInv' /\ RowsKept(row')
  <2>1. WakeOK(row, wake, log)
    BY DEF SubagentInv
  <2>2. WakeOK(row', wake', log)
    BY <2>1, <1>2, WakeKept DEF SessionKept, WakersStay
  <2>3. log' = log
    BY <1>2 DEF SessionKept, WakersStay
  <2> QED
    BY <2>2, <2>3, <1>2 DEF SessionKept, SubagentInv, StateInv
<1>3. ASSUME NEW c \in Children,
             \/ Create(c) \/ recoverInterrupted(c) \/ Pause(c) \/ Cancel(c) \/ GetOutput(c)
             \/ continueInBackground(c, "window") \/ Progress(c)
      PROVE  SubagentInv' /\ RowsKept(row')
  BY <1>1, <1>2, <1>3, ChildSteps, ChildOthers
<1>4. CASE TurnCompletes \/ TurnStops \/ TurnEnds
  BY <1>2, <1>4, TurnSteps
<1>5. CASE \E w \in Wakers : WakeStep(w)
  BY <1>5, WakeSteps
<1>6. CASE Crash
  BY <1>1, <1>6, CrashStep
<1>7. CASE UNCHANGED vars
  <2>1. /\ UNCHANGED <<mem, row, job, wait, pending, running, turn, wake, left, log>>
    BY <1>7 DEF vars
  <2>2. RowsKept(row')
    BY <2>1, RowsSame
  <2>3. SubagentInv'
    BY <2>1 DEF SubagentInv, OthersOK, WakersOK
  <2> QED
    BY <2>2, <2>3
<1> QED
  BY <1>3, <1>4, <1>5, <1>6, <1>7 DEF Next

-----------------------------------------------------------------------------
(* The theorems. *)

\* What the threads of each child, the queue, the slots and the wakers hold to
\* each other is kept by every step.
THEOREM SubagentInvariant == Spec => []SubagentInv
<1>1. SubagentInv /\ [Next]_vars => SubagentInv'
  BY NextInv
<1> QED
  BY <1>1, InitInv, PTL DEF Spec

\* Every variable has its type.
THEOREM SubagentTyped == Spec => []TypeOK
<1>1. SubagentInv => TypeOK
  BY DEF SubagentInv, StateOK, OthersOK, WakersOK, TypeOK, Entries
<1> QED
  BY <1>1, SubagentInvariant, PTL

\* r.running is the number of the children that hold a slot, each of them in
\* r.active; those that run keep the limit, but for one that a child delegates to.
THEOREM Admission == Spec => []AdmissionBound
<1>1. SubagentInv => AdmissionBound
  <2> SUFFICES ASSUME SubagentInv
               PROVE  AdmissionBound
    OBVIOUS
  <2> DEFINE Slots == {c \in Children : mem[c].slot}
             Run == {c \in Slots : ~mem[c].ending}
  <2>1. /\ Admitted(mem, running) /\ \A c \in Children : ChildOK(mem[c], job[c], row[c])
    BY DEF SubagentInv, StateOK
  <2>2. Slots = SlotsOf(mem) /\ Run = RunsOf(mem)
    BY DEF SlotsOf, RunsOf
  <2>3. \A c \in Slots : mem[c].in
    BY <2>1 DEF ChildOK
  <2>4. /\ running = Cardinality(Slots)
        /\ MaxConcurrency > 0 =>
             Cardinality(Run) <= MaxConcurrency + (IF Run \cap Nested = {} THEN 0 ELSE 1)
    <3> HIDE DEF Slots, Run
    <3> QED
      BY <2>1, <2>2 DEF Admitted
  <2> QED
    BY <2>3, <2>4 DEF AdmissionBound
<1> QED
  BY <1>1, SubagentInvariant, PTL

\* The end of a child starts one wake turn at most: whoever claimed it marks it
\* before it can be claimed again.
THEOREM OneWake == Spec => []NoSecondWake
<1>1. SubagentInv => NoSecondWake
  <2> SUFFICES ASSUME SubagentInv, NEW c \in Children
               PROVE  log[c] <= 1
    BY DEF NoSecondWake
  <2>1. log[c] \in Nat
    BY DEF SubagentInv, WakersOK
  <2>2. log[c] # 0 => log[c] = 1
    BY DEF SubagentInv, WakeOK
  <2> QED
    BY <2>1, <2>2
<1> QED
  BY <1>1, SubagentInvariant, PTL

\* No save of any thread undoes the end that terminalize wrote.
THEOREM EndsStick == Spec => TerminalSticks
<1>1. SubagentInv /\ [Next]_vars =>
        [\A c \in Children : row[c].state \in Terminal \ {"interrupted"}
                               => row'[c].state = row[c].state]_vars
  <2> SUFFICES ASSUME SubagentInv, [Next]_vars
               PROVE  \A c \in Children : row[c].state \in Terminal \ {"interrupted"}
                                            => row'[c].state = row[c].state
    OBVIOUS
  <2>1. RowsKept(row')
    BY NextInv
  <2> QED
    BY <2>1 DEF RowsKept, Done
<1> QED
  BY <1>1, SubagentInvariant, PTL DEF Spec, TerminalSticks

=============================================================================
