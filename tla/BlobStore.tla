------------------------------ MODULE BlobStore ------------------------------
(***************************************************************************)
(* Large payloads live in files named by their digest; the rows of the     *)
(* database (the catalog) hold the digest.  Nothing makes a file and a row *)
(* change together, so every writer follows a protocol:                    *)
(*                                                                         *)
(*   session documents, model histories, children (session/blobs.go,       *)
(*     agent/subagents.go): take the database's writer lock, install the   *)
(*     file, write the row, delete what was installed and is not           *)
(*     referenced, commit;                                                 *)
(*   prompt queue documents (session/prompt_queue.go): install the file,   *)
(*     take the lock, compare the revision, write the row, commit;         *)
(*   framework records and durable executions (store/sqlite): take the     *)
(*     lock, write the rows, install the files, commit, and for durable    *)
(*     rows delete the payload that was replaced.                          *)
(*                                                                         *)
(* An operation that fails rolls back and deletes, in a transaction of its *)
(* own, the file that it created, unless a row refers to it.  `azem gc`    *)
(* reads the references once and removes old files outside any lock.       *)
(***************************************************************************)
EXTENDS Naturals, FiniteSets

CONSTANTS
    Writers,        \* goroutines and processes that write payloads
    Rows,           \* rows of the catalog
    Digests,        \* payloads, by their digest
    NoDigest,       \* the digest column of an inline payload
    Nobody,         \* the writer lock is free
    TableOf,        \* Rows -> Tables
    Payloads,       \* Rows -> SUBSET Digests: what may be written to a row
    Leftover,       \* digests whose file may exist at the start
    MaxWrites,      \* bound: operations
    MaxFaults,      \* bound: failures and crashes
    MaxCollections  \* bound: collections

Tables == {"session", "history", "subagent", "queue", "records", "durable"}

\* The kinds of payload are encoded differently, so a digest never belongs to
\* two of these groups.
Kinds == {{"session", "subagent"}, {"history"}, {"queue"}, {"records", "durable"}}

ASSUME BlobAssumption ==
    /\ IsFiniteSet(Writers) /\ IsFiniteSet(Digests) /\ IsFiniteSet(Rows) /\ Rows # {}
    /\ NoDigest \notin Digests /\ Nobody \notin Writers
    /\ TableOf \in [Rows -> Tables]
    /\ Payloads \in [Rows -> SUBSET Digests]
    /\ \A r, s \in Rows : Payloads[r] \cap Payloads[s] # {}
            => \E k \in Kinds : {TableOf[r], TableOf[s]} \subseteq k
    /\ Leftover \subseteq Digests
    /\ MaxWrites \in Nat /\ MaxFaults \in Nat /\ MaxCollections \in Nat

VARIABLES
    file,           \* [Digests -> state of the file at the digest's path]
    catalog,        \* [Rows -> digest the committed row holds]
    revision,       \* [Rows -> commits], compared for queue documents
    lock,           \* who holds SQLite's writer lock
    op,             \* [Writers -> the operation under way]
    gc,             \* the collection under way
    removed,        \* history: files taken by a collection and not installed since
    spilt,          \* history: files that only a collection will remove
    writes, faults, collections

blobVars == <<file, removed, spilt>>
dbVars == <<catalog, revision, lock>>
budgets == <<writes, faults, collections>>
vars == <<blobVars, dbVars, op, gc, budgets>>

Absent == [state |-> "none", old |-> FALSE]
Fresh == [state |-> "valid", old |-> FALSE]
FileStates == {"none", "corrupt", "valid"}

Idle == [at |-> "idle", row |-> CHOOSE r \in Rows : TRUE, digest |-> NoDigest,
         created |-> FALSE, wrote |-> FALSE, expected |-> 0]
NoCollection == [at |-> "off", refs |-> {}, hand |-> NoDigest]

Stages == {"idle", "begin", "inspect", "link", "reinspect", "replace", "write",
           "tidy", "commit", "cleanup"}

\* The operations that hold the lock from the start, and those of the unit of work.
SessionTables == {"session", "history", "subagent"}
UnitTables == {"records", "durable"}
Table(w) == TableOf[op[w].row]

Holding(w) == lock = w

-----------------------------------------------------------------------------
(* The reference checks.                                                   *)

\* The tables each owner's check before a deletion looks at.
Sees(table) ==
    CASE table \in {"session", "history", "queue"} ->
            {"session", "history", "subagent", "queue", "records"}
      [] table = "subagent" -> {"session", "history", "subagent", "records"}
      [] OTHER -> {"records", "durable"}

\* The collector's query.  Of a projection it reads model_history_sha256, which no
\* writer of the running program sets: histories are referenced by a stub in
\* model_history.
Listed == {"session", "subagent", "queue", "records"}

\* What a transaction of w reads: the committed rows and its own row.
View(w) == IF op[w].wrote THEN [catalog EXCEPT ![op[w].row] = op[w].digest] ELSE catalog

ReferencedIn(cat, d, tables) == \E r \in Rows : TableOf[r] \in tables /\ cat[r] = d

\* Directory.Delete
Delete(d) ==
    /\ file' = [file EXCEPT ![d] = Absent]
    /\ spilt' = spilt \ {d}
    /\ UNCHANGED removed

KeepFiles == UNCHANGED blobVars

-----------------------------------------------------------------------------
(* Operations of the writers.                                              *)

Goto(w, stage) == op' = [op EXCEPT ![w].at = stage]

\* Where an operation goes once its file is in place.
AfterInstall(w) ==
    CASE Table(w) \in SessionTables -> "write"
      [] Table(w) = "queue" -> "begin"
      [] OTHER -> "commit"

\* BeginTx takes the writer lock (_txlock=immediate).  A queue document is installed
\* before it: only the revision that the caller has loaded is remembered.
Start(w, r, d) ==
    /\ op[w] = Idle /\ writes < MaxWrites
    /\ LET first == IF TableOf[r] \in UnitTables THEN "write"
                    ELSE IF d # NoDigest THEN "inspect"
                    ELSE IF TableOf[r] = "queue" THEN "begin" ELSE "write"
       IN  op' = [op EXCEPT ![w] = [Idle EXCEPT !.at = first, !.row = r, !.digest = d,
                                                !.expected = revision[r]]]
    /\ IF TableOf[r] = "queue" THEN UNCHANGED lock ELSE lock = Nobody /\ lock' = w
    /\ writes' = writes + 1
    /\ KeepFiles
    /\ UNCHANGED <<catalog, revision, gc, faults, collections>>

\* savePromptQueueCAS takes the lock after the installation.
BeginQueue(w) ==
    /\ op[w].at = "begin" /\ lock = Nobody
    /\ lock' = w
    /\ Goto(w, "write")
    /\ KeepFiles
    /\ UNCHANGED <<catalog, revision, gc, budgets>>

\* InstallAt: a valid file is adopted, as it is and with the age it has.
Inspect(w) ==
    /\ op[w].at \in {"inspect", "reinspect"}
    /\ LET found == file[op[w].digest].state
       IN  \/ found = "valid" /\ Goto(w, AfterInstall(w))
           \/ found = "corrupt" /\ Goto(w, "replace")
           \/ found = "none" /\ op[w].at = "inspect" /\ Goto(w, "link")
    /\ KeepFiles
    /\ UNCHANGED <<dbVars, gc, budgets>>

\* A file came into being by this operation or was put right by it.
Installed(w, created, owed) ==
    /\ file' = [file EXCEPT ![op[w].digest] = Fresh]
    /\ removed' = removed \ {op[w].digest}
    /\ spilt' = spilt \cup owed
    /\ op' = [op EXCEPT ![w].at = AfterInstall(w), ![w].created = created]
    /\ UNCHANGED <<dbVars, gc, budgets>>

\* os.Link creates the path or fails because it exists.
Link(w) ==
    /\ op[w].at = "link"
    /\ \/ file[op[w].digest] = Absent /\ Installed(w, TRUE, {})
       \/ /\ file[op[w].digest] # Absent
          /\ Goto(w, "reinspect")
          /\ KeepFiles
          /\ UNCHANGED <<dbVars, gc, budgets>>

\* A corrupt file is replaced, and never reported as created.
Replace(w) ==
    /\ op[w].at = "replace"
    /\ Installed(w, FALSE, {op[w].digest})

\* The row is written, or the statement finds it there and leaves it (ON CONFLICT DO
\* NOTHING, a tool record that is already terminal).  The unit of work installs only
\* afterwards, and only what it then finds referenced.
Write(w, wrote) ==
    /\ op[w].at = "write"
    /\ Table(w) = "queue" => wrote /\ op[w].expected = revision[op[w].row]
    /\ Table(w) \in UnitTables => wrote
    /\ LET next == IF Table(w) \notin UnitTables THEN "tidy"
                   ELSE IF op[w].digest = NoDigest THEN "commit" ELSE "inspect"
       IN  op' = [op EXCEPT ![w].at = next, ![w].wrote = wrote]
    /\ KeepFiles
    /\ UNCHANGED <<dbVars, gc, budgets>>

\* commitBlobTransaction, commitBlobInstalls: before the commit, what was created
\* and is not referenced after all is deleted.
Tidy(w) ==
    /\ op[w].at = "tidy"
    /\ IF op[w].created /\ ~ReferencedIn(View(w), op[w].digest, Sees(Table(w)))
         THEN Delete(op[w].digest)
         ELSE KeepFiles
    /\ Goto(w, "commit")
    /\ UNCHANGED <<dbVars, gc, budgets>>

\* The commit.  A durable row's replaced payload is collected at once by its writer;
\* what other rows held stays for the collector.
Commit(w) ==
    /\ op[w].at = "commit" /\ Holding(w)
    /\ LET prior == catalog[op[w].row]
           replaced == op[w].wrote /\ prior \notin {NoDigest, op[w].digest}
           unused == replaced /\ \A r \in Rows : View(w)[r] # prior
       IN  IF replaced /\ Table(w) = "durable"
             THEN /\ op' = [op EXCEPT ![w] = [Idle EXCEPT !.at = "cleanup", !.row = op[w].row,
                                                          !.digest = prior]]
                  /\ UNCHANGED spilt
             ELSE /\ op' = [op EXCEPT ![w] = Idle]
                  /\ spilt' = IF unused THEN spilt \cup {prior} ELSE spilt
    /\ catalog' = View(w)
    /\ revision' = [revision EXCEPT ![op[w].row] = @ + (IF op[w].wrote THEN 1 ELSE 0)]
    /\ lock' = Nobody
    /\ UNCHANGED <<file, removed, gc, budgets>>

\* The operation returns its error and forgets the file.
RollBackForgets(w) ==
    /\ op' = [op EXCEPT ![w] = Idle]
    /\ lock' = IF Holding(w) THEN Nobody ELSE lock
    /\ KeepFiles
    /\ UNCHANGED <<catalog, revision, gc>>

\* The transaction is rolled back, and the file that the operation created is
\* cleaned up in a transaction of its own.
RollBack(w) ==
    /\ op' = [op EXCEPT ![w] = IF op[w].created
                                 THEN [Idle EXCEPT !.at = "cleanup", !.row = op[w].row,
                                                   !.digest = op[w].digest, !.created = TRUE]
                                 ELSE Idle]
    /\ lock' = IF Holding(w) THEN Nobody ELSE lock
    /\ KeepFiles
    /\ UNCHANGED <<catalog, revision, gc>>

\* Another writer has saved the queue since this one loaded it.
Conflict(w) ==
    /\ op[w].at = "write" /\ Table(w) = "queue" /\ op[w].expected # revision[op[w].row]
    /\ RollBack(w)
    /\ UNCHANGED budgets

\* The file that made os.Link fail is gone: "destination was not created".
NotCreated(w) ==
    /\ op[w].at = "reinspect" /\ file[op[w].digest].state = "none"
    /\ RollBack(w)
    /\ UNCHANGED budgets

\* Any step fails: a full disk, a busy database, a cancelled context, the commit.
Fail(w) ==
    /\ op[w].at \notin {"idle", "cleanup"} /\ faults < MaxFaults
    /\ RollBack(w)
    /\ faults' = faults + 1
    /\ UNCHANGED <<writes, collections>>

\* The file is deleted because this operation created or replaced it.
CleanupUnchecked(w) ==
    /\ op[w].at = "cleanup" /\ lock = Nobody
    /\ Delete(op[w].digest)
    /\ op' = [op EXCEPT ![w] = Idle]
    /\ UNCHANGED <<dbVars, gc, budgets>>

\* The check is an ordinary read, which waits for no writer.
CleanupUnlocked(w) ==
    /\ op[w].at = "cleanup"
    /\ IF ReferencedIn(catalog, op[w].digest, Sees(Table(w)))
         THEN KeepFiles
         ELSE Delete(op[w].digest)
    /\ op' = [op EXCEPT ![w] = Idle]
    /\ UNCHANGED <<dbVars, gc, budgets>>

\* cleanupBlobInstalls, cleanupInstalled: the check and the deletion are made under
\* the writer lock, which is held by nobody else.
Cleanup(w) ==
    /\ op[w].at = "cleanup" /\ lock = Nobody
    /\ IF ReferencedIn(catalog, op[w].digest, Sees(Table(w)))
         THEN KeepFiles
         ELSE Delete(op[w].digest)
    /\ op' = [op EXCEPT ![w] = Idle]
    /\ UNCHANGED <<dbVars, gc, budgets>>

\* The cleanup does not get the lock within five seconds, or the process dies: what
\* the operation had created stays.
Abandon(w) ==
    /\ op' = [op EXCEPT ![w] = Idle]
    /\ LET owed == {d \in {op[w].digest} \ {NoDigest} : file[d] # Absent}
       IN  spilt' = IF op[w].created \/ op[w].at = "cleanup" THEN spilt \cup owed ELSE spilt
    /\ faults < MaxFaults /\ faults' = faults + 1
    /\ UNCHANGED <<file, removed, catalog, revision, gc, writes, collections>>

CleanupFails(w) == op[w].at = "cleanup" /\ Abandon(w) /\ UNCHANGED lock

Crash(w) ==
    /\ op[w].at \notin {"idle", "cleanup"}
    /\ Abandon(w)
    /\ lock' = IF Holding(w) THEN Nobody ELSE lock

\* A fork copies the rows of a session, digests included, in one transaction.
Fork(from, to) ==
    /\ lock = Nobody /\ writes < MaxWrites
    /\ TableOf[from] = "session" /\ TableOf[to] = "session"
    /\ catalog[from] # NoDigest /\ revision[to] = 0 /\ catalog[from] \in Payloads[to]
    /\ catalog' = [catalog EXCEPT ![to] = catalog[from]]
    /\ revision' = [revision EXCEPT ![to] = @ + 1]
    /\ writes' = writes + 1
    /\ KeepFiles
    /\ UNCHANGED <<lock, op, gc, faults, collections>>

-----------------------------------------------------------------------------
(* `azem gc --apply`, another process.                                     *)

\* referencedBlobs: one query, and a cutoff.
Scan ==
    /\ gc.at = "off" /\ collections < MaxCollections
    /\ gc' = [at |-> "walk", hand |-> NoDigest,
              refs |-> {catalog[r] : r \in {s \in Rows : TableOf[s] \in Listed}} \ {NoDigest}]
    /\ collections' = collections + 1
    /\ KeepFiles
    /\ UNCHANGED <<dbVars, op, writes, faults>>

\* collectBlobCandidates comes to an old file that is not referenced, in whatever
\* order the walk has.  The others it passes over.
Visit(d) ==
    /\ gc.at = "walk" /\ gc.hand = NoDigest
    /\ file[d] # Absent /\ file[d].old /\ d \notin gc.refs
    /\ gc' = [gc EXCEPT !.hand = d]
    /\ KeepFiles
    /\ UNCHANGED <<dbVars, op, budgets>>

\* reclaimFile removes it by its path.
Reclaim ==
    /\ gc.hand # NoDigest
    /\ file' = [file EXCEPT ![gc.hand] = Absent]
    /\ removed' = removed \cup {gc.hand}
    /\ spilt' = spilt \ {gc.hand}
    /\ gc' = [gc EXCEPT !.hand = NoDigest]
    /\ UNCHANGED <<dbVars, op, budgets>>

\* The walk is over, or its context is cancelled.
EndCollection ==
    /\ gc.at = "walk" /\ gc.hand = NoDigest
    /\ gc' = NoCollection
    /\ KeepFiles
    /\ UNCHANGED <<dbVars, op, budgets>>

\* MinimumAge is a day; no operation and no collection lasts as long.
DayPasses ==
    /\ gc.at = "off" /\ \A w \in Writers : op[w] = Idle
    /\ \E d \in Digests : file[d] # Absent /\ ~file[d].old
    /\ file' = [d \in Digests |-> IF file[d] = Absent THEN Absent ELSE [file[d] EXCEPT !.old = TRUE]]
    /\ UNCHANGED <<removed, spilt, dbVars, op, gc, budgets>>

-----------------------------------------------------------------------------
\* Files may be left from crashes and replaced rows; rows start without payload.
Init ==
    /\ file \in [Digests -> [state : FileStates, old : BOOLEAN]]
    /\ \A d \in Digests :
            /\ file[d].state = "none" => file[d] = Absent
            /\ d \notin Leftover => file[d] = Absent
    /\ catalog = [r \in Rows |-> NoDigest]
    /\ revision = [r \in Rows |-> 0]
    /\ lock = Nobody
    /\ op = [w \in Writers |-> Idle]
    /\ gc = NoCollection
    /\ removed = {}
    /\ spilt = {d \in Digests : file[d] # Absent}
    /\ writes = 0 /\ faults = 0 /\ collections = 0

WriterStep(w) ==
    \/ \E r \in Rows : \E d \in Payloads[r] \cup {NoDigest} : Start(w, r, d)
    \/ BeginQueue(w) \/ Inspect(w) \/ Link(w) \/ Replace(w)
    \/ \E wrote \in BOOLEAN : Write(w, wrote)
    \/ Tidy(w) \/ Commit(w) \/ Conflict(w) \/ NotCreated(w)
    \/ Fail(w) \/ Cleanup(w) \/ CleanupFails(w) \/ Crash(w)

Collector == Scan \/ (\E d \in Digests : Visit(d)) \/ Reclaim \/ EndCollection

Next ==
    \/ \E w \in Writers : WriterStep(w)
    \/ \E from, to \in Rows : Fork(from, to)
    \/ Collector
    \/ DayPasses

Spec == Init /\ [][Next]_vars

-----------------------------------------------------------------------------
TypeOK ==
    /\ file \in [Digests -> [state : FileStates, old : BOOLEAN]]
    /\ catalog \in [Rows -> Digests \cup {NoDigest}]
    /\ revision \in [Rows -> Nat]
    /\ lock \in Writers \cup {Nobody}
    /\ op \in [Writers -> [at : Stages, row : Rows, digest : Digests \cup {NoDigest},
                           created : BOOLEAN, wrote : BOOLEAN, expected : Nat]]
    /\ gc \in [at : {"off", "walk"}, refs : SUBSET Digests,
               hand : Digests \cup {NoDigest}]
    /\ removed \subseteq Digests /\ spilt \subseteq Digests
    /\ writes \in 0..MaxWrites /\ faults \in 0..MaxFaults /\ collections \in 0..MaxCollections

\* A committed row's payload can be read: its file is there and whole, unless a
\* collection took it.  Queue documents, which are installed without the lock, are
\* not covered.
ReferencedExists ==
    \A r \in Rows : catalog[r] # NoDigest /\ TableOf[r] # "queue"
        => file[catalog[r]].state = "valid" \/ catalog[r] \in removed

\* What an operation installed, or took up under the lock, stays until it ends: no cleanup of another
\* writer deletes it, only a collection may.
InstalledStays ==
    \A w \in Writers :
        LET created == op[w].created /\ (op[w].at \in {"commit", "cleanup"} => op[w].wrote)
            underLock == /\ op[w].wrote /\ op[w].digest # NoDigest /\ Table(w) # "queue"
                         /\ op[w].at \in {"tidy", "commit"}
        IN  created \/ underLock
                => file[op[w].digest].state = "valid" \/ op[w].digest \in removed

\* No operation leaks a file: one to which no row refers and which no operation
\* answers for was left by a crash, a failed cleanup, a repair or a replaced row.
OrphansExplained ==
    \A d \in Digests :
        file[d] # Absent /\ (\A r \in Rows : catalog[r] # d)
            => d \in spilt \/ \E w \in Writers : op[w].digest = d /\ (op[w].created \/ op[w].at = "cleanup")

\* Collections keep referenced state: the file of a committed row is never removed.
CollectionPreservesReferenced == \A r \in Rows : catalog[r] \notin removed
=============================================================================
