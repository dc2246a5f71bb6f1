--------------------------- MODULE BlobStoreProofs ---------------------------
(***************************************************************************)
(* Proofs that a committed row's payload can be read, that what an         *)
(* operation installed stays, and that no operation leaks a file, for any  *)
(* number of writers, rows and payloads.                                   *)
(*                                                                         *)
(* The argument is the writer lock.  An operation on any table but the     *)
(* queue's holds it from its start to its commit, and no file is deleted   *)
(* but under it, so nobody touches the files of such an operation.  Queue  *)
(* documents are installed without the lock; for them the argument is that *)
(* the link is made where there was no file, so that at most one operation *)
(* has created a document, and that a file which is new is in the hands of *)
(* no collection.  The checks before a deletion are enough because every   *)
(* table of the payload's kind is among those they look at.                *)
(***************************************************************************)
EXTENDS BlobStore, TLAPS

-----------------------------------------------------------------------------
(* The inductive invariant. *)

Installing == {"inspect", "link", "reinspect", "replace"}

\* The file of a payload is whole, or a collection took it.
Kept(d) == file[d].state = "valid" \/ d \in removed

\* Rows and operations hold payloads of their own kind; a row that was never
\* written holds none; a path without a file is in one state only.
PayloadInv ==
    /\ \A r \in Rows : /\ catalog[r] \in Payloads[r] \cup {NoDigest}
                       /\ revision[r] = 0 => catalog[r] = NoDigest
    /\ \A w \in Writers : op[w].digest \in Payloads[op[w].row] \cup {NoDigest}
    /\ \A d \in Digests : file[d].state = "none" => file[d] = Absent
    /\ gc.at = "off" => gc.hand = NoDigest

\* What an operation has done in which stage, and whether it holds the lock.
StageOK(o, table, held) ==
    /\ o.at = "idle" => o = Idle
    /\ o.at \notin {"idle", "cleanup"} /\ table # "queue" => held
    /\ o.at \in {"write", "tidy", "commit"} => held
    /\ o.at = "begin" => table = "queue"
    /\ o.at \in Installing => ~o.created /\ o.digest # NoDigest
    /\ o.created => o.digest # NoDigest
    /\ o.at = "cleanup" => /\ o.digest # NoDigest /\ ~o.wrote
                           /\ o.created \/ table = "durable"
    /\ table \in UnitTables =>
          /\ o.at # "tidy"
          /\ o.at = "write" => ~o.created
          /\ o.at \in Installing \cup {"commit"} => o.wrote
    /\ table = "queue" /\ o.at \in {"tidy", "commit"} => o.wrote

StageInv == \A w \in Writers : StageOK(op[w], Table(w), Holding(w))

\* What an operation that holds the lock knows of its file.
LockedOK(o) ==
    TableOf[o.row] # "queue" /\ o.digest # NoDigest =>
        /\ TableOf[o.row] \in SessionTables /\ o.at \in {"write", "tidy"}
              => Kept(o.digest)
        /\ o.at = "commit" /\ o.wrote => Kept(o.digest)
        /\ o.at = "commit" /\ o.created /\ ~o.wrote
              => file[o.digest] = Absent \/ \E r \in Rows : catalog[r] = o.digest

LockedFileInv == \A w \in Writers : LockedOK(op[w])

Author(w) == Table(w) = "queue" /\ op[w].created

\* A queue document that an operation created is new, in no collection's hands
\* and nobody else's; one that a collection is about to remove is still there.
QueueFileInv ==
    /\ \A w \in Writers : Author(w) =>
        /\ file[op[w].digest] = Fresh /\ gc.hand # op[w].digest
        /\ \A v \in Writers \ {w} : Author(v) => op[v].digest # op[w].digest
    /\ \A r \in Rows : TableOf[r] = "queue" /\ gc.hand \in Payloads[r]
        => file[gc.hand] # Absent

BlobInv ==
    /\ TypeOK /\ PayloadInv /\ StageInv /\ LockedFileInv /\ QueueFileInv
    /\ ReferencedExists /\ OrphansExplained

-----------------------------------------------------------------------------
(* Lemmas about the operators. *)

Operation == [at : Stages, row : Rows, digest : Digests \cup {NoDigest},
              created : BOOLEAN, wrote : BOOLEAN, expected : Nat]

\* An operation that has not begun has done nothing.
LEMMA IdleFields ==
    /\ Idle \in Operation
    /\ Idle.at = "idle" /\ Idle.digest = NoDigest /\ ~Idle.created /\ ~Idle.wrote
BY BlobAssumption DEF Idle, Operation, Stages

\* What changes when an operation goes to its next stage.
LEMMA StageMoves ==
    ASSUME op \in [Writers -> Operation], NEW w \in Writers,
           NEW stage \in Stages, NEW wrote \in BOOLEAN,
           op' = [op EXCEPT ![w] = [op[w] EXCEPT !.at = stage, !.wrote = wrote]]
    PROVE  /\ op[w] \in Operation /\ op' \in [Writers -> Operation]
           /\ op'[w].at = stage /\ op'[w].row = op[w].row
           /\ op'[w].digest = op[w].digest /\ op'[w].created = op[w].created
           /\ op'[w].wrote = wrote
           /\ \A v \in Writers \ {w} : op'[v] = op[v]
<1>1. op[w] \in Operation
  OBVIOUS
<1> DEFINE moved == [op[w] EXCEPT !.at = stage, !.wrote = wrote]
<1>2. /\ moved \in Operation
      /\ moved.at = stage /\ moved.row = op[w].row /\ moved.digest = op[w].digest
      /\ moved.created = op[w].created /\ moved.wrote = wrote
  BY <1>1 DEF Operation
<1> HIDE DEF moved
<1>3. op' = [op EXCEPT ![w] = moved]
  BY DEF moved
<1> QED
  BY <1>1, <1>2, <1>3

\* The same for a step that only goes on.
LEMMA GotoMoves ==
    ASSUME op \in [Writers -> Operation], NEW w \in Writers, NEW stage \in Stages,
           Goto(w, stage)
    PROVE  /\ op[w] \in Operation /\ op' \in [Writers -> Operation]
           /\ op'[w].at = stage /\ op'[w].row = op[w].row
           /\ op'[w].digest = op[w].digest /\ op'[w].created = op[w].created
           /\ op'[w].wrote = op[w].wrote
           /\ \A v \in Writers \ {w} : op'[v] = op[v]
<1>1. op[w] \in Operation
  OBVIOUS
<1> DEFINE moved == [op[w] EXCEPT !.at = stage]
<1>2. /\ moved \in Operation
      /\ moved.at = stage /\ moved.row = op[w].row /\ moved.digest = op[w].digest
      /\ moved.created = op[w].created /\ moved.wrote = op[w].wrote
  BY <1>1 DEF Operation
<1> HIDE DEF moved
<1>3. op' = [op EXCEPT ![w] = moved]
  BY DEF moved, Goto
<1> QED
  BY <1>1, <1>2, <1>3

\* A payload is of one kind: rows that may hold the same one are both of the queue
\* or both not, and the check of either looks at the table of the other.
LEMMA OneKind ==
    ASSUME NEW r \in Rows, NEW s \in Rows, NEW d \in Payloads[r], d \in Payloads[s]
    PROVE  /\ (TableOf[r] = "queue") = (TableOf[s] = "queue")
           /\ TableOf[s] \in Sees(TableOf[r])
<1>1. PICK k \in Kinds : {TableOf[r], TableOf[s]} \subseteq k
  BY BlobAssumption
<1> QED
  BY <1>1 DEF Kinds, Sees

\* Nothing is under way at the start, and every file that is there is a leftover.
LEMMA InitBlobInv == Init => BlobInv
<1> SUFFICES ASSUME Init
             PROVE  BlobInv
  OBVIOUS
<1> USE BlobAssumption, IdleFields
<1>1. TypeOK
  BY DEF Init, TypeOK, Operation, NoCollection
<1>2. PayloadInv
  BY DEF Init, PayloadInv, NoCollection
<1>3. StageInv
  BY DEF Init, StageInv, StageOK, Installing
<1>4. LockedFileInv /\ QueueFileInv
  BY DEF Init, LockedFileInv, LockedOK, QueueFileInv, Author, NoCollection
<1>5. ReferencedExists /\ OrphansExplained
  BY DEF Init, ReferencedExists, OrphansExplained
<1> QED
  BY <1>1, <1>2, <1>3, <1>4, <1>5 DEF BlobInv

-----------------------------------------------------------------------------
(* What a step of one operation leaves to be shown. *)

\* The stage of an operation is nobody else's business, as long as it takes the
\* lock from no other.
LEMMA OtherStages ==
    ASSUME StageInv, NEW w \in Writers,
           \A v \in Writers \ {w} : op'[v] = op[v] /\ (lock = v => lock' = v),
           StageOK(op[w], Table(w), Holding(w))'
    PROVE  StageInv'
BY DEF StageInv, StageOK, Table, Holding

\* An operation that moves on leaves the files, the rows and its payload as they
\* are.
LEMMA MoveKeeps ==
    ASSUME BlobInv, NEW w \in Writers, TypeOK',
           UNCHANGED <<file, removed, spilt, catalog, revision, gc>>,
           \A v \in Writers \ {w} : op'[v] = op[v] /\ (lock = v => lock' = v),
           op'[w].row = op[w].row, op'[w].digest = op[w].digest,
           op'[w].created = op[w].created, op[w].at # "cleanup",
           StageOK(op[w], Table(w), Holding(w))', LockedOK(op[w])'
    PROVE  BlobInv'
<1> USE DEF BlobInv
<1>1. PayloadInv'
  BY DEF PayloadInv
<1>2. StageInv'
  BY OtherStages
<1>3. LockedFileInv'
  BY DEF LockedFileInv, LockedOK, Kept
<1>4. QueueFileInv'
  BY DEF QueueFileInv, Author, Table
<1>5. ReferencedExists' /\ OrphansExplained'
  BY DEF ReferencedExists, OrphansExplained
<1> QED
  BY <1>1, <1>2, <1>3, <1>4, <1>5

\* InstallAt finds a valid file and adopts it, or goes on to make one.
LEMMA InspectKeeps ==
    ASSUME BlobInv, NEW w \in Writers, Inspect(w)
    PROVE  BlobInv'
<1>1. PICK s \in {"write", "begin", "commit", "replace", "link"} :
        /\ op' = [op EXCEPT ![w] = [op[w] EXCEPT !.at = s]]
        /\ s = "write" => Table(w) \in SessionTables
        /\ s = "begin" => Table(w) = "queue"
        /\ s = "commit" => Table(w) \in UnitTables
        /\ s \in {"write", "commit"} => file[op[w].digest].state = "valid"
  BY BlobAssumption
  DEF BlobInv, TypeOK, Inspect, AfterInstall, Goto, Tables, SessionTables, UnitTables,
      Table
<1>2. /\ op[w] \in Operation /\ op' \in [Writers -> Operation]
      /\ op'[w].at = s /\ op'[w].row = op[w].row /\ op'[w].digest = op[w].digest
      /\ op'[w].created = op[w].created /\ op'[w].wrote = op[w].wrote
      /\ \A v \in Writers \ {w} : op'[v] = op[v]
  BY <1>1 DEF BlobInv, TypeOK, Operation, Stages
<1>3. TypeOK'
  BY <1>2 DEF BlobInv, TypeOK, Operation, Inspect, KeepFiles, blobVars, dbVars, budgets
<1>4. StageOK(op[w], Table(w), Holding(w))
  BY DEF BlobInv, StageInv
<1>5. StageOK(op[w], Table(w), Holding(w))'
  BY <1>1, <1>2, <1>4
  DEF StageOK, Inspect, dbVars, Installing, Table, Holding, SessionTables, UnitTables
<1>6. LockedOK(op[w])'
  BY <1>1, <1>2, <1>4
  DEF LockedOK, Inspect, KeepFiles, blobVars, dbVars, Kept, StageOK, Installing
<1> QED
  BY <1>2, <1>3, <1>5, <1>6, MoveKeeps DEF Inspect, KeepFiles, blobVars, dbVars

\* A queue document gets the lock after it is installed.
LEMMA BeginQueueKeeps ==
    ASSUME BlobInv, NEW w \in Writers, BeginQueue(w)
    PROVE  BlobInv'
<1>1. /\ op[w] \in Operation /\ op' \in [Writers -> Operation]
      /\ op'[w].at = "write" /\ op'[w].row = op[w].row /\ op'[w].digest = op[w].digest
      /\ op'[w].created = op[w].created /\ op'[w].wrote = op[w].wrote
      /\ \A v \in Writers \ {w} : op'[v] = op[v]
  BY GotoMoves DEF BlobInv, TypeOK, Operation, Stages, BeginQueue
<1>2. TypeOK'
  BY <1>1 DEF BlobInv, TypeOK, Operation, BeginQueue, KeepFiles, blobVars, budgets
<1>3. StageOK(op[w], Table(w), Holding(w))
  BY DEF BlobInv, StageInv
<1>4. StageOK(op[w], Table(w), Holding(w))' /\ LockedOK(op[w])'
  BY <1>1, <1>3 DEF StageOK, LockedOK, BeginQueue, Installing, Table, Holding,
     UnitTables
<1> QED
  BY <1>1, <1>2, <1>4, MoveKeeps, BlobAssumption DEF BeginQueue, KeepFiles, blobVars

\* The row is written in the transaction, or found there and left.
LEMMA WriteKeeps ==
    ASSUME BlobInv, NEW w \in Writers, NEW wrote \in BOOLEAN, Write(w, wrote)
    PROVE  BlobInv'
<1>1. PICK s \in {"tidy", "commit", "inspect"} :
        /\ op' = [op EXCEPT ![w] = [op[w] EXCEPT !.at = s, !.wrote = wrote]]
        /\ (s = "tidy") = (Table(w) \notin UnitTables)
        /\ s = "commit" => op[w].digest = NoDigest
        /\ s = "inspect" => op[w].digest # NoDigest
  BY DEF Write
<1>2. /\ op[w] \in Operation /\ op' \in [Writers -> Operation]
      /\ op'[w].at = s /\ op'[w].row = op[w].row /\ op'[w].digest = op[w].digest
      /\ op'[w].created = op[w].created /\ op'[w].wrote = wrote
      /\ \A v \in Writers \ {w} : op'[v] = op[v]
  <2>1. op \in [Writers -> Operation] /\ s \in Stages
    BY DEF BlobInv, TypeOK, Operation, Stages
  <2> QED
    BY <1>1, <2>1, StageMoves
<1>3. TypeOK'
  BY <1>2 DEF BlobInv, TypeOK, Operation, Write, KeepFiles, blobVars, dbVars, budgets
<1>4. StageOK(op[w], Table(w), Holding(w)) /\ LockedOK(op[w])
  BY DEF BlobInv, StageInv, LockedFileInv
<1>5. StageOK(op[w], Table(w), Holding(w))'
  BY <1>1, <1>2, <1>4
  DEF StageOK, Write, dbVars, Installing, Table, Holding, UnitTables
<1>6. LockedOK(op[w])'
  BY <1>1, <1>2, <1>4, BlobAssumption
  DEF LockedOK, Write, KeepFiles, blobVars, dbVars, Kept, Table, SessionTables,
      UnitTables
<1> QED
  BY <1>2, <1>3, <1>5, <1>6, MoveKeeps DEF Write, KeepFiles, blobVars, dbVars

\* An operation begins: it has created and written nothing.
LEMMA StartKeeps ==
    ASSUME BlobInv, NEW w \in Writers, NEW r \in Rows,
           NEW d \in Payloads[r] \cup {NoDigest}, Start(w, r, d)
    PROVE  BlobInv'
<1> USE IdleFields
<1>1. PICK s \in {"write", "inspect", "begin"} :
        /\ op' = [op EXCEPT ![w] = [Idle EXCEPT !.at = s, !.row = r, !.digest = d,
                                                !.expected = revision[r]]]
        /\ s = "inspect" => TableOf[r] \notin UnitTables /\ d # NoDigest
        /\ s = "begin" => TableOf[r] = "queue"
        /\ s = "write" => TableOf[r] # "queue" /\ (TableOf[r] \in UnitTables \/ d = NoDigest)
  BY DEF Start, UnitTables
<1> DEFINE o == [Idle EXCEPT !.at = s, !.row = r, !.digest = d,
                         !.expected = revision[r]]
<1>2. /\ op[w] = Idle /\ d \in Digests \cup {NoDigest} /\ revision[r] \in Nat
      /\ lock = Nobody \/ lock' = lock
  BY BlobAssumption DEF BlobInv, TypeOK, Start
<1>3. /\ o \in Operation /\ o.at = s /\ o.row = r /\ o.digest = d
      /\ ~o.created /\ ~o.wrote
  BY <1>2 DEF Operation, Stages
<1>4. /\ op[w] = Idle /\ d \in Digests \cup {NoDigest}
      /\ op' \in [Writers -> Operation]
      /\ op'[w].at = s /\ op'[w].row = r /\ op'[w].digest = d
      /\ ~op'[w].created /\ ~op'[w].wrote
      /\ \A v \in Writers \ {w} : op'[v] = op[v] /\ (lock = v => lock' = v)
  BY <1>1, <1>2, <1>3, BlobAssumption DEF BlobInv, TypeOK, Operation
<1>5. TypeOK'
  BY <1>4, BlobAssumption DEF BlobInv, TypeOK, Operation, Start, KeepFiles, blobVars
<1>6. PayloadInv'
  BY <1>4 DEF BlobInv, PayloadInv, Start, KeepFiles, blobVars
<1>7. StageInv'
  <2>1. StageOK(op[w], Table(w), Holding(w))'
    BY <1>1, <1>4 DEF Start, StageOK, Table, Holding, Installing, UnitTables
  <2> QED
    BY <1>4, <2>1, OtherStages DEF BlobInv
<1>8. LockedFileInv'
  <2>1. LockedOK(op[w])'
    BY <1>1, <1>4 DEF LockedOK, SessionTables, UnitTables
  <2> QED
    BY <1>4, <2>1 DEF BlobInv, LockedFileInv, LockedOK, Kept, Start, KeepFiles, blobVars
<1>9. QueueFileInv'
  BY <1>4 DEF BlobInv, QueueFileInv, Author, Table, Start, KeepFiles, blobVars
<1>10. ReferencedExists' /\ OrphansExplained'
  BY <1>4 DEF BlobInv, ReferencedExists, OrphansExplained, Start, KeepFiles, blobVars
<1> QED
  BY <1>5, <1>6, <1>7, <1>8, <1>9, <1>10 DEF BlobInv

\* A file is installed where there was none, or in place of a corrupt one.
LEMMA InstalledKeeps ==
    ASSUME BlobInv, NEW w \in Writers, NEW created \in BOOLEAN,
           NEW owed \in SUBSET {op[w].digest}, Installed(w, created, owed),
           op[w].at \in {"link", "replace"},
           created => file[op[w].digest] = Absent,
           created \/ owed = {op[w].digest}
    PROVE  BlobInv'
<1> DEFINE d == op[w].digest
           s == AfterInstall(w)
<1>1. StageOK(op[w], Table(w), Holding(w))
  BY DEF BlobInv, StageInv
<1>2. /\ op[w] \in Operation /\ d \in Digests
      /\ d \in Payloads[op[w].row] /\ ~op[w].created
  BY <1>1 DEF BlobInv, TypeOK, Operation, PayloadInv, StageOK, Installing
<1>3. /\ s \in {"write", "begin", "commit"}
      /\ s = "write" => Table(w) \in SessionTables
      /\ s = "begin" => Table(w) = "queue"
      /\ s = "commit" => Table(w) \in UnitTables
  BY <1>2, BlobAssumption
  DEF AfterInstall, Table, Operation, Tables, SessionTables, UnitTables
<1>4. /\ op' \in [Writers -> Operation]
      /\ op'[w].at = s /\ op'[w].row = op[w].row /\ op'[w].digest = d
      /\ op'[w].created = created /\ op'[w].wrote = op[w].wrote
      /\ \A v \in Writers \ {w} : op'[v] = op[v] /\ (lock = v => lock' = v)
  BY <1>2, <1>3 DEF BlobInv, TypeOK, Operation, Stages, Installed, dbVars
<1>5. /\ file' = [file EXCEPT ![d] = Fresh] /\ removed' = removed \ {d}
      /\ spilt' = spilt \cup owed
      /\ UNCHANGED <<catalog, revision, lock, gc, writes, faults, collections>>
  BY DEF Installed, dbVars, budgets
<1>6. TypeOK'
  BY <1>2, <1>4, <1>5 DEF BlobInv, TypeOK, Operation, Fresh, FileStates
<1>7. /\ \A e \in Digests \ {d} : file'[e] = file[e] /\ (e \in removed' <=> e \in removed)
      /\ file'[d] = Fresh /\ file'[d].state = "valid" /\ file'[d] # Absent
  BY <1>2, <1>5 DEF BlobInv, TypeOK, Fresh, Absent
<1>8. PayloadInv'
  BY <1>2, <1>4, <1>5, <1>7 DEF BlobInv, PayloadInv
<1>9. StageInv'
  <2>1. StageOK(op[w], Table(w), Holding(w))'
    BY <1>1, <1>2, <1>3, <1>4, <1>5
    DEF StageOK, Table, Holding, Installing, SessionTables, UnitTables
  <2> QED
    BY <1>4, <2>1, OtherStages DEF BlobInv
<1>10. LockedFileInv'
  <2>1. LockedOK(op[w])'
    BY <1>3, <1>4, <1>7, <1>1
    DEF LockedOK, Kept, StageOK, Table, Installing, SessionTables, UnitTables
  <2>2. ASSUME NEW v \in Writers \ {w}
        PROVE  LockedOK(op[v])'
    <3>1. StageOK(op[v], Table(v), Holding(v)) /\ LockedOK(op[v])
      BY DEF BlobInv, StageInv, LockedFileInv
    <3>2. op[v] \in Operation /\ op[v].digest \in Payloads[op[v].row] \cup {NoDigest}
      BY DEF BlobInv, TypeOK, Operation, PayloadInv
    <3>3. CASE op[v].digest = d /\ op[v].at = "commit" /\ Table(v) # "queue"
      <4>1. Holding(v) /\ Table(w) # "queue"
        BY <1>2, <3>1, <3>2, <3>3, OneKind, BlobAssumption
        DEF StageOK, Table, Operation
      <4> QED
        BY <1>1, <4>1 DEF StageOK, Holding
    <3>4. CASE op[v].digest = d /\ ~(op[v].at = "commit" /\ Table(v) # "queue")
      BY <1>4, <1>7, <3>4 DEF LockedOK, Kept, Table
    <3>5. CASE op[v].digest # d
      BY <1>4, <1>5, <1>7, <3>1, <3>2, <3>5 DEF LockedOK, Kept, Operation
    <3> QED
      BY <3>3, <3>4, <3>5
  <2> QED
    BY <2>1, <2>2 DEF LockedFileInv
<1>11. QueueFileInv'
  <2>1. \A v \in Writers \ {w} : Author(v) /\ created => op[v].digest # d
    BY DEF BlobInv, QueueFileInv, Fresh, Absent
  <2>2. Table(w) = "queue" /\ created => gc.hand # d
    BY <1>2 DEF BlobInv, QueueFileInv, Table, Operation
  <2>3. ASSUME NEW r \in Rows, TableOf[r] = "queue", gc.hand \in Payloads[r]
        PROVE  file'[gc.hand] # Absent
    <3>1. gc.hand \in Digests /\ file[gc.hand] # Absent
      BY <2>3, BlobAssumption DEF BlobInv, QueueFileInv
    <3> QED
      BY <1>7, <3>1
  <2>4. ASSUME NEW v \in Writers, Author(v)'
        PROVE  /\ file'[op'[v].digest] = Fresh /\ gc.hand # op'[v].digest
               /\ \A u \in Writers \ {v} : Author(u)' => op'[u].digest # op'[v].digest
    <3>1. CASE v = w
      BY <1>4, <1>7, <2>1, <2>2, <2>4, <3>1 DEF Author, Table
    <3>2. CASE v # w
      <4>1. /\ Author(v) /\ file[op[v].digest] = Fresh /\ gc.hand # op[v].digest
            /\ \A u \in Writers \ {v} : Author(u) => op[u].digest # op[v].digest
            /\ op[v].digest \in Digests
        BY <1>4, <2>4, <3>2
        DEF BlobInv, QueueFileInv, Author, Table, TypeOK, StageInv, StageOK
      <4> QED
        BY <1>4, <1>7, <2>1, <3>2, <4>1 DEF Author, Table
    <3> QED
      BY <3>1, <3>2
  <2> QED
    BY <1>5, <2>3, <2>4 DEF QueueFileInv
<1>12. ReferencedExists'
  BY <1>5, <1>7 DEF BlobInv, ReferencedExists, TypeOK
<1>13. OrphansExplained'
  BY <1>1, <1>4, <1>5, <1>7 DEF BlobInv, OrphansExplained, StageOK
<1> QED
  BY <1>6, <1>8, <1>9, <1>10, <1>11, <1>12, <1>13 DEF BlobInv

\* os.Link creates the file, or finds one and looks again.
LEMMA LinkKeeps ==
    ASSUME BlobInv, NEW w \in Writers, Link(w)
    PROVE  BlobInv'
<1>1. CASE file[op[w].digest] = Absent /\ Installed(w, TRUE, {})
  BY <1>1, InstalledKeeps DEF Link
<1>2. CASE /\ Goto(w, "reinspect") /\ KeepFiles
           /\ UNCHANGED <<dbVars, gc, budgets>>
  <2>1. /\ op[w] \in Operation /\ op' \in [Writers -> Operation]
        /\ op'[w].at = "reinspect" /\ op'[w].row = op[w].row
        /\ op'[w].digest = op[w].digest /\ op'[w].created = op[w].created
        /\ op'[w].wrote = op[w].wrote
        /\ \A v \in Writers \ {w} : op'[v] = op[v]
    BY <1>2, GotoMoves DEF BlobInv, TypeOK, Operation, Stages
  <2>2. TypeOK'
    BY <1>2, <2>1 DEF BlobInv, TypeOK, Operation, KeepFiles, blobVars, dbVars, budgets
  <2>3. StageOK(op[w], Table(w), Holding(w))
    BY DEF BlobInv, StageInv
  <2>4. StageOK(op[w], Table(w), Holding(w))' /\ LockedOK(op[w])'
    BY <1>2, <2>1, <2>3
    DEF Link, StageOK, LockedOK, dbVars, Installing, Table, Holding, UnitTables
  <2> QED
    BY <1>2, <2>1, <2>2, <2>4, MoveKeeps DEF Link, KeepFiles, blobVars, dbVars
<1> QED
  BY <1>1, <1>2 DEF Link

\* A corrupt file is replaced.
LEMMA ReplaceKeeps ==
    ASSUME BlobInv, NEW w \in Writers, Replace(w)
    PROVE  BlobInv'
BY InstalledKeeps DEF Replace

\* A path without a file has the type of a path.
LEMMA DeletedType ==
    ASSUME BlobInv, NEW d, Delete(d) \/ KeepFiles
    PROVE  /\ file' \in [Digests -> [state : FileStates, old : BOOLEAN]]
           /\ removed' = removed /\ spilt' \subseteq spilt
<1>1. Absent \in [state : FileStates, old : BOOLEAN]
  BY DEF Absent, FileStates
<1> QED
  BY <1>1 DEF BlobInv, TypeOK, Delete, KeepFiles, blobVars

\* A deletion for which the reference check found no row: there is none.
LEMMA CheckIsEnough ==
    ASSUME BlobInv, NEW w \in Writers, op[w].digest # NoDigest,
           ~ReferencedIn(catalog, op[w].digest, Sees(Table(w)))
    PROVE  \A r \in Rows : catalog[r] # op[w].digest
<1> SUFFICES ASSUME NEW r \in Rows, catalog[r] = op[w].digest
             PROVE  FALSE
  OBVIOUS
<1>1. /\ op[w].row \in Rows /\ op[w].digest \in Payloads[op[w].row]
      /\ op[w].digest \in Payloads[r]
  BY DEF BlobInv, TypeOK, PayloadInv
<1>2. TableOf[r] \in Sees(Table(w))
  BY <1>1, OneKind DEF Table
<1> QED
  BY <1>2 DEF ReferencedIn

\* A file is deleted that no row refers to, under the lock of nobody else, and not
\* the document of another operation.
LEMMA DeleteKeeps ==
    ASSUME BlobInv, NEW w \in Writers, TypeOK', op[w].digest # NoDigest,
           Delete(op[w].digest), UNCHANGED <<catalog, revision, lock, gc>>,
           \A r \in Rows : catalog[r] # op[w].digest,
           \A v \in Writers \ {w} : op'[v] = op[v] /\ ~Holding(v),
           Table(w) = "queue" => Author(w),
           op'[w].digest \in Payloads[op'[w].row] \cup {NoDigest},
           Author(w)' = FALSE,
           StageOK(op[w], Table(w), Holding(w))', LockedOK(op[w])'
    PROVE  BlobInv'
<1> DEFINE d == op[w].digest
<1>1. /\ d \in Digests /\ d \in Payloads[op[w].row] /\ op[w].row \in Rows
  BY DEF BlobInv, TypeOK, PayloadInv
<1>2. /\ \A e \in Digests \ {d} : file'[e] = file[e]
      /\ file'[d] = Absent /\ removed' = removed /\ spilt' = spilt \ {d}
  BY <1>1 DEF BlobInv, TypeOK, Delete
<1>3. PayloadInv'
  BY <1>2 DEF BlobInv, PayloadInv
<1>4. StageInv'
  BY OtherStages DEF BlobInv
<1>5. LockedFileInv'
  <2>1. ASSUME NEW v \in Writers \ {w}
        PROVE  LockedOK(op[v])'
    <3>1. StageOK(op[v], Table(v), Holding(v)) /\ LockedOK(op[v])
      BY DEF BlobInv, StageInv, LockedFileInv
    <3> QED
      BY <3>1 DEF StageOK, LockedOK
  <2> QED
    BY <2>1 DEF LockedFileInv
<1>6. \A r \in Rows : TableOf[r] = "queue" /\ d \in Payloads[r] => Author(w)
  BY <1>1, OneKind DEF Table
<1>7. QueueFileInv'
  <2>1. ASSUME NEW r \in Rows, TableOf[r] = "queue", gc.hand \in Payloads[r]
        PROVE  file'[gc.hand] # Absent
    <3>1. gc.hand \in Digests /\ file[gc.hand] # Absent
      BY <2>1, BlobAssumption DEF BlobInv, QueueFileInv
    <3>2. gc.hand # d
      BY <1>6, <2>1 DEF BlobInv, QueueFileInv
    <3> QED
      BY <1>2, <3>1, <3>2
  <2>2. ASSUME NEW v \in Writers, Author(v)'
        PROVE  /\ file'[op'[v].digest] = Fresh /\ gc.hand # op'[v].digest
               /\ \A u \in Writers \ {v} : Author(u)' => op'[u].digest # op'[v].digest
    <3>1. v # w /\ Author(v) /\ op'[v] = op[v]
      BY <2>2 DEF Author, Table
    <3>2. /\ op[v].digest \in Digests /\ op[v].row \in Rows
          /\ op[v].digest \in Payloads[op[v].row]
      BY <3>1 DEF BlobInv, TypeOK, Author, StageInv, StageOK, PayloadInv
    <3>3. /\ file[op[v].digest] = Fresh /\ gc.hand # op[v].digest
          /\ \A u \in Writers \ {v} : Author(u) => op[u].digest # op[v].digest
      BY <3>1 DEF BlobInv, QueueFileInv
    <3>4. op[v].digest # d
      BY <1>6, <3>1, <3>2, <3>3 DEF Author, Table
    <3> QED
      BY <1>2, <3>1, <3>2, <3>3, <3>4 DEF Author, Table
  <2> QED
    BY <2>1, <2>2 DEF QueueFileInv
<1>8. ReferencedExists'
  BY <1>2 DEF BlobInv, ReferencedExists, TypeOK
<1>9. OrphansExplained'
  BY <1>2 DEF BlobInv, OrphansExplained
<1> QED
  BY <1>3, <1>4, <1>5, <1>7, <1>8, <1>9 DEF BlobInv

\* Before the commit: what was created and is referenced by no row is deleted.
LEMMA TidyKeeps ==
    ASSUME BlobInv, NEW w \in Writers, Tidy(w)
    PROVE  BlobInv'
<1> DEFINE d == op[w].digest
<1>1. /\ op[w] \in Operation /\ op' \in [Writers -> Operation]
      /\ op'[w].at = "commit" /\ op'[w].row = op[w].row /\ op'[w].digest = d
      /\ op'[w].created = op[w].created /\ op'[w].wrote = op[w].wrote
      /\ \A v \in Writers \ {w} : op'[v] = op[v]
  BY GotoMoves DEF BlobInv, TypeOK, Operation, Stages, Tidy
<1>2. TypeOK'
  <2>1. /\ file' \in [Digests -> [state : FileStates, old : BOOLEAN]]
        /\ removed' = removed /\ spilt' \subseteq spilt
    BY DeletedType DEF Tidy
  <2> QED
    BY <1>1, <2>1 DEF BlobInv, TypeOK, Operation, Tidy, dbVars, budgets
<1>3. StageOK(op[w], Table(w), Holding(w)) /\ LockedOK(op[w])
  BY DEF BlobInv, StageInv, LockedFileInv
<1>4. StageOK(op[w], Table(w), Holding(w))'
  BY <1>1, <1>3 DEF Tidy, StageOK, Table, Holding, Installing, UnitTables, dbVars
<1>5. op[w].wrote => ReferencedIn(View(w), d, Sees(Table(w)))
  BY <1>1, <1>3, BlobAssumption
  DEF BlobInv, TypeOK, Tidy, StageOK, ReferencedIn, View, Sees, Table, Operation, Tables,
      UnitTables
<1>6. CASE op[w].created /\ ~ReferencedIn(View(w), d, Sees(Table(w)))
  <2>1. /\ ~op[w].wrote /\ d # NoDigest /\ Table(w) # "queue"
        /\ ~ReferencedIn(catalog, d, Sees(Table(w)))
    BY <1>3, <1>5, <1>6 DEF View, StageOK, Tidy
  <2>2. \A r \in Rows : catalog[r] # d
    BY <2>1, CheckIsEnough
  <2>3. Delete(d)
    BY <1>6 DEF Tidy
  <2>4. file'[d] = Absent
    BY <2>1, <2>3, <1>1 DEF Delete, BlobInv, TypeOK, Operation
  <2>5. LockedOK(op[w])' /\ Author(w)' = FALSE
    BY <1>1, <2>1, <2>4 DEF LockedOK, Author, Table
  <2>6. \A v \in Writers \ {w} : op'[v] = op[v] /\ ~Holding(v)
    BY <1>1, <1>3 DEF StageOK, Holding, Tidy
  <2>7. op'[w].digest \in Payloads[op'[w].row] \cup {NoDigest}
    BY <1>1 DEF BlobInv, PayloadInv
  <2> QED
    BY <1>2, <1>4, <2>1, <2>2, <2>3, <2>5, <2>6, <2>7, DeleteKeeps
    DEF Tidy, dbVars
<1>7. CASE ~(op[w].created /\ ~ReferencedIn(View(w), d, Sees(Table(w))))
  <2>1. UNCHANGED <<file, removed, spilt, catalog, revision, lock, gc>>
    BY <1>7 DEF Tidy, KeepFiles, blobVars, dbVars
  <2>2. LockedOK(op[w])'
    BY <1>1, <1>3, <1>7, <2>1, BlobAssumption
    DEF LockedOK, Kept, Tidy, View, ReferencedIn, StageOK, Table, Tables, SessionTables,
        UnitTables, Operation
  <2> QED
    BY <1>1, <1>2, <1>4, <2>1, <2>2, MoveKeeps DEF Tidy
<1> QED
  BY <1>6, <1>7

\* After the transaction: the check and the deletion under the lock.
LEMMA CleanupKeeps ==
    ASSUME BlobInv, NEW w \in Writers, Cleanup(w)
    PROVE  BlobInv'
<1> DEFINE d == op[w].digest
<1> USE IdleFields
<1>1. /\ op[w] \in Operation /\ op' \in [Writers -> Operation] /\ op'[w] = Idle
      /\ \A v \in Writers \ {w} : op'[v] = op[v] /\ ~Holding(v)
  BY BlobAssumption DEF BlobInv, TypeOK, Operation, Cleanup, Holding
<1>2. TypeOK'
  <2>1. /\ file' \in [Digests -> [state : FileStates, old : BOOLEAN]]
        /\ removed' = removed /\ spilt' \subseteq spilt
    BY DeletedType DEF Cleanup
  <2> QED
    BY <1>1, <2>1 DEF BlobInv, TypeOK, Operation, Cleanup, dbVars, budgets
<1>3. StageOK(op[w], Table(w), Holding(w))
  BY DEF BlobInv, StageInv
<1>4. StageOK(op[w], Table(w), Holding(w))' /\ LockedOK(op[w])' /\ Author(w)' = FALSE
  BY <1>1 DEF StageOK, LockedOK, Author, Installing
<1>5. CASE ~ReferencedIn(catalog, d, Sees(Table(w)))
  <2>1. d # NoDigest /\ (Table(w) = "queue" => Author(w))
    BY <1>3 DEF StageOK, Cleanup, Author
  <2> QED
    BY <1>1, <1>2, <1>4, <1>5, <2>1, CheckIsEnough, DeleteKeeps DEF Cleanup, dbVars
<1>6. CASE ReferencedIn(catalog, d, Sees(Table(w)))
  <2>1. UNCHANGED <<file, removed, spilt, catalog, revision, lock, gc>>
    BY <1>6 DEF Cleanup, KeepFiles, blobVars, dbVars
  <2>2. PayloadInv'
    BY <1>1, <2>1 DEF BlobInv, PayloadInv
  <2>3. StageInv'
    BY <1>1, <1>4, <2>1, OtherStages DEF BlobInv
  <2>4. LockedFileInv'
    BY <1>1, <1>4, <2>1 DEF BlobInv, LockedFileInv, LockedOK, Kept
  <2>5. QueueFileInv'
    BY <1>1, <1>4, <2>1 DEF BlobInv, QueueFileInv, Author, Table
  <2>6. ReferencedExists' /\ OrphansExplained'
    BY <1>1, <1>6, <2>1 DEF BlobInv, ReferencedExists, OrphansExplained, ReferencedIn
  <2> QED
    BY <1>2, <2>2, <2>3, <2>4, <2>5, <2>6 DEF BlobInv
<1> QED
  BY <1>5, <1>6

\* The commit makes the operation's row visible and ends it, or goes on to delete
\* the durable payload that it replaced.
LEMMA CommitKeeps ==
    ASSUME BlobInv, NEW w \in Writers, Commit(w)
    PROVE  BlobInv'
<1> DEFINE row == op[w].row
           prior == catalog[row]
           replaced == op[w].wrote /\ prior \notin {NoDigest, op[w].digest}
           last == [Idle EXCEPT !.at = "cleanup", !.row = row, !.digest = prior]
<1> USE IdleFields
<1>1. /\ op[w] \in Operation /\ row \in Rows /\ prior \in Digests \cup {NoDigest}
      /\ prior \in Payloads[row] \cup {NoDigest} /\ op[w].at = "commit" /\ lock = w
      /\ StageOK(op[w], Table(w), Holding(w)) /\ LockedOK(op[w])
  BY DEF BlobInv, TypeOK, Operation, PayloadInv, Commit, Holding, StageInv,
     LockedFileInv
<1>2. /\ last \in Operation /\ last.at = "cleanup" /\ last.row = row
      /\ last.digest = prior /\ ~last.created /\ ~last.wrote
  BY <1>1 DEF Operation, Stages
<1>3. /\ op' \in [Writers -> Operation]
      /\ op'[w] = IF replaced /\ Table(w) = "durable" THEN last ELSE Idle
      /\ \A v \in Writers \ {w} : op'[v] = op[v] /\ ~Holding(v)
      /\ UNCHANGED <<file, removed, gc>>
  <2>1. op' = [op EXCEPT ![w] = IF replaced /\ Table(w) = "durable" THEN last ELSE Idle]
    BY DEF Commit
  <2>2. op \in [Writers -> Operation]
    BY DEF BlobInv, TypeOK, Operation
  <2> HIDE DEF last, replaced
  <2> QED
    BY <1>1, <1>2, <2>1, <2>2 DEF Commit, Holding
<1> HIDE DEF last
<1>4. /\ catalog' \in [Rows -> Digests \cup {NoDigest}]
      /\ catalog'[row] = (IF op[w].wrote THEN op[w].digest ELSE prior)
      /\ \A r \in Rows \ {row} : catalog'[r] = catalog[r]
  BY <1>1 DEF BlobInv, TypeOK, Operation, Commit, View
<1>5. /\ revision' \in [Rows -> Nat]
      /\ op[w].wrote => revision'[row] # 0
      /\ \A r \in Rows : revision'[r] = 0 => revision[r] = 0
  BY <1>1 DEF BlobInv, TypeOK, Commit
<1>6. spilt \subseteq spilt' /\ spilt' \subseteq Digests
  BY <1>1 DEF BlobInv, TypeOK, Commit
<1>7. TypeOK'
  BY <1>3, <1>4, <1>5, <1>6 DEF BlobInv, TypeOK, Operation, Commit, budgets
<1>8. PayloadInv'
  <2>1. \A r \in Rows : /\ catalog'[r] \in Payloads[r] \cup {NoDigest}
                        /\ revision'[r] = 0 => catalog'[r] = NoDigest
    BY <1>4, <1>5 DEF BlobInv, PayloadInv
  <2>2. \A v \in Writers : op'[v].digest \in Payloads[op'[v].row] \cup {NoDigest}
    BY <1>1, <1>2, <1>3 DEF BlobInv, PayloadInv
  <2> QED
    BY <2>1, <2>2 DEF BlobInv, PayloadInv, Commit
<1>9. StageInv'
  <2>1. StageOK(op[w], Table(w), Holding(w))'
    BY <1>2, <1>3 DEF StageOK, Table, Installing, UnitTables
  <2> QED
    BY <1>3, <2>1, OtherStages DEF BlobInv, Holding
<1>10. LockedFileInv'
  <2>1. LockedOK(op[w])'
    BY <1>2, <1>3 DEF LockedOK
  <2>2. ASSUME NEW v \in Writers \ {w}
        PROVE  LockedOK(op[v])'
    <3>1. StageOK(op[v], Table(v), Holding(v))
      BY DEF BlobInv, StageInv
    <3> QED
      BY <1>3, <3>1 DEF StageOK, LockedOK
  <2> QED
    BY <2>1, <2>2 DEF LockedFileInv
<1>11. QueueFileInv'
  <2>1. ~Author(w)'
    BY <1>2, <1>3 DEF Author
  <2> QED
    BY <1>3, <2>1 DEF BlobInv, QueueFileInv, Author, Table
<1>12. ReferencedExists'
  <2>1. op[w].wrote /\ op[w].digest # NoDigest /\ Table(w) # "queue" => Kept(op[w].digest)
    BY <1>1 DEF LockedOK, Table
  <2> QED
    BY <1>1, <1>4, <2>1 DEF BlobInv, ReferencedExists, Kept, Table, Commit
<1>13. OrphansExplained'
  <2> SUFFICES ASSUME NEW d \in Digests, file[d] # Absent,
                      \A r \in Rows : catalog'[r] # d
               PROVE  \/ d \in spilt'
                      \/ \E v \in Writers : /\ op'[v].digest = d
                                            /\ op'[v].created \/ op'[v].at = "cleanup"
    BY DEF OrphansExplained, Commit
  <2>1. CASE \E r \in Rows : catalog[r] = d
    <3>1. prior = d /\ replaced /\ \A r \in Rows : View(w)[r] # prior
      BY <1>4, <2>1, BlobAssumption DEF Commit
    <3>2. CASE Table(w) = "durable"
      BY <1>2, <1>3, <3>1, <3>2
    <3>3. CASE Table(w) # "durable"
      BY <3>1, <3>3 DEF Commit
    <3> QED
      BY <3>2, <3>3
  <2>2. CASE \A r \in Rows : catalog[r] # d
    <3>1. ~(op[w].created /\ op[w].digest = d)
      BY <1>1, <1>4, <2>2, BlobAssumption DEF StageOK, LockedOK, Table
    <3>2. \/ d \in spilt
          \/ \E v \in Writers : /\ op[v].digest = d
                                /\ op[v].created \/ op[v].at = "cleanup"
      BY <2>2 DEF BlobInv, OrphansExplained
    <3> QED
      BY <1>1, <1>3, <1>6, <3>1, <3>2
  <2> QED
    BY <2>1, <2>2
<1> QED
  BY <1>7, <1>8, <1>9, <1>10, <1>11, <1>12, <1>13 DEF BlobInv

\* An operation ends without a commit: it answers for what it created, or the file
\* is left for the collector.
LEMMA EndKeeps ==
    ASSUME BlobInv, NEW w \in Writers, TypeOK',
           UNCHANGED <<file, removed, catalog, revision, gc>>,
           spilt \subseteq spilt',
           \A v \in Writers \ {w} : op'[v] = op[v] /\ (lock = v => lock' = v),
           \/ op'[w] = Idle
           \/ /\ op'[w].at = "cleanup" /\ op'[w].row = op[w].row
              /\ op'[w].digest = op[w].digest
              /\ op[w].created /\ op'[w].created /\ ~op'[w].wrote,
           op[w].created \/ op[w].at = "cleanup" =>
              \/ op'[w].at = "cleanup"
              \/ op[w].digest \in Digests /\ file[op[w].digest] # Absent
                    => op[w].digest \in spilt'
    PROVE  BlobInv'
<1> USE IdleFields DEF BlobInv
<1>1. StageOK(op[w], Table(w), Holding(w))
  BY DEF StageInv
<1>2. PayloadInv'
  BY DEF PayloadInv
<1>3. StageInv'
  <2>1. StageOK(op[w], Table(w), Holding(w))'
    BY <1>1 DEF StageOK, Table, Installing, UnitTables
  <2> QED
    BY <2>1, OtherStages
<1>4. LockedFileInv'
  <2>1. LockedOK(op[w])'
    BY DEF LockedOK
  <2> QED
    BY <2>1 DEF LockedFileInv, LockedOK, Kept
<1>5. QueueFileInv'
  BY DEF QueueFileInv, Author, Table
<1>6. ReferencedExists'
  BY DEF ReferencedExists
<1>7. OrphansExplained'
  BY DEF OrphansExplained
<1> QED
  BY <1>2, <1>3, <1>4, <1>5, <1>6, <1>7

\* An operation that fails rolls back and cleans up after itself.
LEMMA RollBackKeeps ==
    ASSUME BlobInv, NEW w \in Writers, op[w].at \notin {"idle", "cleanup"}, RollBack(w),
           faults' \in 0..MaxFaults, UNCHANGED <<writes, collections>>
    PROVE  BlobInv'
<1> DEFINE last == [Idle EXCEPT !.at = "cleanup", !.row = op[w].row,
                                !.digest = op[w].digest, !.created = TRUE]
<1> USE IdleFields
<1>1. /\ last \in Operation /\ last.at = "cleanup" /\ last.row = op[w].row
      /\ last.digest = op[w].digest /\ last.created /\ ~last.wrote
  BY DEF BlobInv, TypeOK, Operation, Stages
<1>2. /\ op' \in [Writers -> Operation]
      /\ op'[w] = IF op[w].created THEN last ELSE Idle
      /\ \A v \in Writers \ {w} : op'[v] = op[v] /\ (lock = v => lock' = v)
      /\ lock' \in Writers \cup {Nobody}
  BY <1>1 DEF BlobInv, TypeOK, Operation, RollBack, Holding
<1>3. UNCHANGED <<file, removed, spilt, catalog, revision, gc>>
  BY DEF RollBack, KeepFiles, blobVars
<1>4. TypeOK'
  BY <1>2, <1>3 DEF BlobInv, TypeOK, Operation
<1> QED
  BY <1>1, <1>2, <1>3, <1>4, EndKeeps

\* A crash or a failed cleanup: nobody answers for the file any more.
LEMMA AbandonKeeps ==
    ASSUME BlobInv, NEW w \in Writers, Abandon(w),
           \A v \in Writers \ {w} : lock = v => lock' = v,
           lock' \in Writers \cup {Nobody}
    PROVE  BlobInv'
<1> USE IdleFields, BlobAssumption
<1>1. /\ op' \in [Writers -> Operation] /\ op'[w] = Idle
      /\ \A v \in Writers \ {w} : op'[v] = op[v]
  BY DEF BlobInv, TypeOK, Operation, Abandon
<1>2. /\ spilt \subseteq spilt' /\ spilt' \subseteq Digests
      /\ op[w].created \/ op[w].at = "cleanup" =>
            (op[w].digest \in Digests /\ file[op[w].digest] # Absent
                => op[w].digest \in spilt')
  BY DEF BlobInv, TypeOK, Abandon
<1>3. UNCHANGED <<file, removed, catalog, revision, gc>>
  BY DEF Abandon
<1>4. TypeOK'
  BY <1>1, <1>2, <1>3 DEF BlobInv, TypeOK, Operation, Abandon
<1> QED
  BY <1>1, <1>2, <1>3, <1>4, EndKeeps

\* A fork copies the digest of a row to one that was never written.
LEMMA ForkKeeps ==
    ASSUME BlobInv, NEW from \in Rows, NEW to \in Rows, Fork(from, to)
    PROVE  BlobInv'
<1> USE BlobAssumption DEF BlobInv
<1>1. /\ catalog' \in [Rows -> Digests \cup {NoDigest}] /\ catalog'[to] = catalog[from]
      /\ catalog[to] = NoDigest /\ \A r \in Rows \ {to} : catalog'[r] = catalog[r]
      /\ catalog[from] \in Payloads[to] /\ TableOf[from] = "session"
      /\ UNCHANGED <<file, removed, spilt, lock, op, gc>>
  BY DEF TypeOK, Fork, PayloadInv, KeepFiles, blobVars
<1>2. /\ revision' \in [Rows -> Nat] /\ revision'[to] # 0
      /\ \A r \in Rows \ {to} : revision'[r] = revision[r]
  BY DEF TypeOK, Fork
<1>3. TypeOK'
  BY <1>1, <1>2 DEF TypeOK, Fork
<1>4. PayloadInv'
  BY <1>1, <1>2 DEF PayloadInv
<1>5. StageInv'
  BY <1>1 DEF StageInv, Table, Holding
<1>6. LockedFileInv'
  <2>1. \A d \in Digests : (\E r \in Rows : catalog[r] = d) => \E r \in Rows : catalog'[r] = d
    BY <1>1
  <2>2. \A w \in Writers : op[w].digest \in Digests \cup {NoDigest}
    BY DEF TypeOK
  <2> QED
    BY <1>1, <2>1, <2>2 DEF LockedFileInv, LockedOK, Kept
<1>7. QueueFileInv'
  BY <1>1 DEF QueueFileInv, Author, Table
<1>8. ReferencedExists'
  BY <1>1 DEF ReferencedExists, Fork
<1>9. OrphansExplained'
  BY <1>1 DEF OrphansExplained
<1> QED
  BY <1>3, <1>4, <1>5, <1>6, <1>7, <1>8, <1>9

\* A collection reads the references and takes up a file that is old.
LEMMA LookKeeps ==
    ASSUME BlobInv, Scan \/ (\E d \in Digests : Visit(d)) \/ EndCollection
    PROVE  BlobInv'
<1> USE BlobAssumption DEF BlobInv
<1>1. /\ UNCHANGED <<file, removed, spilt, catalog, revision, lock, op>>
      /\ gc'.hand = NoDigest \/ \E d \in Digests : Visit(d)
  BY DEF Scan, Visit, EndCollection, NoCollection, KeepFiles, blobVars, dbVars
<1>2. TypeOK' /\ PayloadInv'
  <2>1. CASE Scan
    <3>1. gc' \in [at : {"off", "walk"}, refs : SUBSET Digests,
                   hand : Digests \cup {NoDigest}]
      BY <2>1 DEF Scan, TypeOK
    <3> QED
      BY <1>1, <2>1, <3>1 DEF Scan, TypeOK, PayloadInv
  <2>2. CASE \E d \in Digests : Visit(d)
    <3>1. PICK d \in Digests : Visit(d)
      BY <2>2
    <3>2. gc' \in [at : {"off", "walk"}, refs : SUBSET Digests,
                   hand : Digests \cup {NoDigest}] /\ gc'.at = "walk"
      BY <3>1 DEF Visit, TypeOK
    <3> QED
      BY <1>1, <3>1, <3>2 DEF Visit, TypeOK, PayloadInv, budgets
  <2>3. CASE EndCollection
    BY <1>1, <2>3 DEF EndCollection, NoCollection, TypeOK, PayloadInv, budgets
  <2> QED
    BY <2>1, <2>2, <2>3
<1>3. StageInv' /\ LockedFileInv'
  BY <1>1 DEF StageInv, Table, Holding, LockedFileInv, LockedOK, Kept
<1>4. QueueFileInv'
  <2>1. CASE gc'.hand = NoDigest
    BY <1>1, <2>1 DEF QueueFileInv, Author, Table, StageInv, StageOK
  <2>2. CASE \E d \in Digests : Visit(d)
    <3>1. PICK d \in Digests : Visit(d)
      BY <2>2
    <3>2. gc'.hand = d /\ file[d] # Absent /\ file[d] # Fresh
      BY <3>1 DEF Visit, TypeOK, Fresh
    <3> QED
      BY <1>1, <3>2 DEF QueueFileInv, Author, Table
  <2> QED
    BY <1>1, <2>1, <2>2
<1>5. ReferencedExists' /\ OrphansExplained'
  BY <1>1 DEF ReferencedExists, OrphansExplained
<1> QED
  BY <1>2, <1>3, <1>4, <1>5

\* A collection removes the file in its hands, whatever has happened to it since.
LEMMA ReclaimKeeps ==
    ASSUME BlobInv, Reclaim
    PROVE  BlobInv'
<1> DEFINE d == gc.hand
<1> USE BlobAssumption DEF BlobInv
<1>1. d \in Digests
  BY DEF Reclaim, TypeOK
<1>2. /\ \A e \in Digests \ {d} : file'[e] = file[e]
      /\ file'[d] = Absent /\ removed' = removed \cup {d} /\ spilt' = spilt \ {d}
      /\ UNCHANGED <<catalog, revision, lock, op>>
  BY <1>1 DEF Reclaim, TypeOK, dbVars
<1>3. /\ gc' \in [at : {"off", "walk"}, refs : SUBSET Digests,
                  hand : Digests \cup {NoDigest}]
      /\ gc'.hand = NoDigest
  BY DEF Reclaim, TypeOK
<1>4. TypeOK'
  <2>1. Absent \in [state : FileStates, old : BOOLEAN]
    BY DEF Absent, FileStates
  <2>2. file' \in [Digests -> [state : FileStates, old : BOOLEAN]]
    BY <2>1 DEF Reclaim, TypeOK
  <2> QED
    BY <1>1, <1>2, <1>3, <2>2 DEF TypeOK, Reclaim, budgets
<1>5. PayloadInv'
  BY <1>2, <1>3 DEF PayloadInv
<1>6. StageInv'
  BY <1>2 DEF StageInv, Table, Holding
<1>7. LockedFileInv'
  <2>1. \A w \in Writers : op[w].digest \in Digests \cup {NoDigest}
    BY DEF TypeOK
  <2> QED
    BY <1>2, <2>1 DEF LockedFileInv, LockedOK, Kept
<1>8. QueueFileInv'
  <2>1. \A w \in Writers : Author(w) => op[w].digest \in Digests
    BY DEF Author, TypeOK, StageInv, StageOK
  <2> QED
    BY <1>2, <1>3, <2>1 DEF QueueFileInv, Author, Table
<1>9. ReferencedExists'
  BY <1>2 DEF ReferencedExists, TypeOK
<1>10. OrphansExplained'
  BY <1>2 DEF OrphansExplained
<1> QED
  BY <1>4, <1>5, <1>6, <1>7, <1>8, <1>9, <1>10

\* Files get old while nothing is under way.
LEMMA DayPassesKeeps ==
    ASSUME BlobInv, DayPasses
    PROVE  BlobInv'
<1> USE BlobAssumption, IdleFields DEF BlobInv
<1>1. /\ file' \in [Digests -> [state : FileStates, old : BOOLEAN]]
      /\ \A d \in Digests : /\ file'[d].state = file[d].state
                            /\ file'[d] = Absent <=> file[d] = Absent
      /\ UNCHANGED <<removed, spilt, catalog, revision, lock, op, gc>>
  <2>1. ASSUME NEW d \in Digests
        PROVE  /\ file'[d] \in [state : FileStates, old : BOOLEAN]
               /\ file'[d].state = file[d].state
               /\ file'[d] = Absent <=> file[d] = Absent
    <3>1. file[d] \in [state : FileStates, old : BOOLEAN]
      BY DEF TypeOK
    <3>2. file'[d] = IF file[d] = Absent THEN Absent ELSE [file[d] EXCEPT !.old = TRUE]
      BY DEF DayPasses
    <3>3. CASE file[d] = Absent
      BY <3>1, <3>2, <3>3
    <3>4. CASE file[d] # Absent
      <4>1. /\ file'[d] \in [state : FileStates, old : BOOLEAN]
            /\ file'[d].state = file[d].state /\ file'[d].old = TRUE
        BY <3>1, <3>2, <3>4
      <4>2. Absent.old = FALSE
        BY DEF Absent
      <4> QED
        BY <3>4, <4>1, <4>2
    <3> QED
      BY <3>3, <3>4
  <2> QED
    BY <2>1 DEF DayPasses, dbVars
<1>2. TypeOK'
  BY <1>1 DEF TypeOK, DayPasses, budgets
<1>3. PayloadInv'
  BY <1>1 DEF PayloadInv, TypeOK
<1>4. StageInv'
  BY <1>1 DEF StageInv, Table, Holding
<1>5. LockedFileInv' /\ QueueFileInv'
  <2>1. \A w \in Writers : op'[w].at = "idle" /\ ~op'[w].created
    BY <1>1 DEF DayPasses
  <2>2. LockedFileInv'
    BY <2>1 DEF LockedFileInv, LockedOK
  <2>3. \A r \in Rows : Payloads[r] \subseteq Digests
    OBVIOUS
  <2> QED
    BY <1>1, <2>1, <2>2, <2>3 DEF QueueFileInv, Author
<1>6. ReferencedExists'
  BY <1>1 DEF ReferencedExists, TypeOK
<1>7. OrphansExplained'
  BY <1>1 DEF OrphansExplained
<1> QED
  BY <1>2, <1>3, <1>4, <1>5, <1>6, <1>7

-----------------------------------------------------------------------------
(* The theorems. *)

\* Every step keeps the invariant.
LEMMA StepBlobInv == BlobInv /\ [Next]_vars => BlobInv'
<1> SUFFICES ASSUME BlobInv, [Next]_vars
             PROVE  BlobInv'
  OBVIOUS
<1>1. ASSUME NEW w \in Writers, WriterStep(w)
      PROVE  BlobInv'
  <2>1. CASE \E r \in Rows : \E d \in Payloads[r] \cup {NoDigest} : Start(w, r, d)
    BY <2>1, StartKeeps
  <2>2. CASE BeginQueue(w) \/ Inspect(w) \/ Link(w) \/ Replace(w)
    BY <2>2, BeginQueueKeeps, InspectKeeps, LinkKeeps, ReplaceKeeps
  <2>3. CASE \E wrote \in BOOLEAN : Write(w, wrote)
    BY <2>3, WriteKeeps
  <2>4. CASE Tidy(w) \/ Commit(w) \/ Cleanup(w)
    BY <2>4, TidyKeeps, CommitKeeps, CleanupKeeps
  <2>5. faults \in 0..MaxFaults /\ MaxFaults \in Nat /\ lock \in Writers \cup {Nobody}
    BY BlobAssumption DEF BlobInv, TypeOK
  <2>6. CASE Conflict(w) \/ NotCreated(w)
    BY <2>5, <2>6, RollBackKeeps DEF Conflict, NotCreated, budgets
  <2>7. CASE Fail(w)
    BY <2>5, <2>7, RollBackKeeps DEF Fail
  <2>8. CASE CleanupFails(w) \/ Crash(w)
    BY <2>5, <2>8, AbandonKeeps DEF CleanupFails, Crash, Holding
  <2> QED
    BY <1>1, <2>1, <2>2, <2>3, <2>4, <2>6, <2>7, <2>8 DEF WriterStep
<1>2. CASE \E from, to \in Rows : Fork(from, to)
  BY <1>2, ForkKeeps
<1>3. CASE Collector
  BY <1>3, LookKeeps, ReclaimKeeps DEF Collector
<1>4. CASE DayPasses
  BY <1>4, DayPassesKeeps
<1>5. CASE UNCHANGED vars
  <2> USE DEF BlobInv, vars, blobVars, dbVars, budgets
  <2>1. TypeOK' /\ PayloadInv' /\ StageInv'
    BY <1>5 DEF TypeOK, PayloadInv, StageInv, Table, Holding
  <2>2. LockedFileInv' /\ QueueFileInv'
    BY <1>5 DEF LockedFileInv, LockedOK, Kept, QueueFileInv, Author, Table
  <2>3. ReferencedExists' /\ OrphansExplained'
    BY <1>5 DEF ReferencedExists, OrphansExplained
  <2> QED
    BY <2>1, <2>2, <2>3
<1> QED
  BY <1>1, <1>2, <1>3, <1>4, <1>5 DEF Next

\* The inductive invariant holds however installations, cleanups, forks and collections
\* interleave and crash (session/blobs.go, store/sqlite, maintenance/gc.go).
THEOREM BlobInvariant == Spec => []BlobInv
BY InitBlobInv, StepBlobInv, PTL DEF Spec

\* A committed row's payload can be read, unless a collection took it: the protocols
\* of session/blobs.go, agent/subagents.go and store/sqlite lose none.
THEOREM BlobReferencedExists == Spec => []ReferencedExists
<1>1. BlobInv => ReferencedExists
  BY DEF BlobInv
<1> QED
  BY <1>1, BlobInvariant, PTL

\* What an operation installed or adopted stays until it ends, whatever other
\* writers clean up (commitBlobInstalls, cleanupBlobInstalls, cleanupInstalled).
THEOREM BlobInstalledStays == Spec => []InstalledStays
<1>1. ASSUME BlobInv, NEW w \in Writers
      PROVE  LET created == op[w].created /\ (op[w].at \in {"commit", "cleanup"} => op[w].wrote)
                 underLock == /\ op[w].wrote /\ op[w].digest # NoDigest
                              /\ Table(w) # "queue" /\ op[w].at \in {"tidy", "commit"}
             IN  created \/ underLock
                    => file[op[w].digest].state = "valid" \/ op[w].digest \in removed
  <2>1. /\ op[w] \in Operation /\ StageOK(op[w], Table(w), Holding(w)) /\ LockedOK(op[w])
    BY <1>1 DEF BlobInv, TypeOK, Operation, StageInv, LockedFileInv
  <2>2. CASE Table(w) = "queue"
    <3>1. Author(w) => file[op[w].digest].state = "valid"
      BY <1>1 DEF BlobInv, QueueFileInv, Fresh
    <3> QED
      BY <2>2, <3>1 DEF Author
  <2>3. CASE Table(w) # "queue"
    <3>1. Table(w) \in SessionTables \cup UnitTables
      BY <2>1, <2>3, BlobAssumption DEF Table, Operation, Tables, SessionTables,
         UnitTables
    <3>2. op[w].created => op[w].at \in {"write", "tidy", "commit", "cleanup"}
      BY <2>1, <2>3, IdleFields DEF StageOK, Operation, Stages, Installing
    <3> QED
      BY <2>1, <2>3, <3>1, <3>2 DEF StageOK, LockedOK, Kept, Table
  <2> QED
    BY <2>2, <2>3
<1>2. BlobInv => InstalledStays
  BY <1>1 DEF InstalledStays
<1> QED
  BY <1>2, BlobInvariant, PTL

\* No operation leaks a file: every one that no row refers to is answered for or was
\* left by a crash, a failed cleanup, a repair or a replaced row.
THEOREM BlobOrphansExplained == Spec => []OrphansExplained
<1>1. BlobInv => OrphansExplained
  BY DEF BlobInv
<1> QED
  BY <1>1, BlobInvariant, PTL

=============================================================================
