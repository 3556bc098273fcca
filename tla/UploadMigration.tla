-------------------------- MODULE UploadMigration --------------------------
(***************************************************************************)
(* migrate_uploads_to_s3.py beside the running service, and the cutover to *)
(* the s3 backend that the runbook lets follow a clean report.             *)
(***************************************************************************)
EXTENDS DocumentStore

\* The SELECT of every row.  The runbook stops writes first.
StartMigration ==
  /\ backend = "local" /\ migration.phase = "idle"
  /\ WritesStopped => \A c \in Clients :
       reqs[c].work \notin {"saving", "inserting", "compensating", "deleting", "cleaning"}
  /\ migration' = [NoMigration EXCEPT !.phase = "running", !.todo = rows]
  /\ UNCHANGED <<rows, files, backend, reqs, answer, faulted, history>>

\* One row of the loop: its local bytes are read, and the object looked up.
ReadLocal(d) ==
  /\ migration.phase = "running" /\ migration.copying = {} /\ d \in migration.todo
  /\ migration' = [migration EXCEPT !.todo = @ \ {d},
       !.missing = IF d \in files["local"] THEN @ ELSE @ \cup {d},
       !.copying = IF d \in files["local"] \ files["s3"] THEN {d} ELSE {}]
  /\ UNCHANGED <<rows, files, backend, reqs, answer, faulted, history>>

\* save_bytes, and the read back that verifies it.
CopyToS3 ==
  /\ migration.copying # {}
  /\ files' = [files EXCEPT !["s3"] = @ \cup migration.copying]
  /\ migration' = [migration EXCEPT !.copying = {}]
  /\ UNCHANGED <<rows, backend, reqs, answer, faulted, history>>

\* Mutant: the loop may stop early.
FinishEarly ==
  /\ migration.phase = "running" /\ migration.copying = {}
  /\ migration' = [migration EXCEPT !.phase = "done"]
  /\ UNCHANGED <<rows, files, backend, reqs, answer, faulted, history>>

FinishMigration ==
  /\ migration.phase = "running" /\ migration.copying = {} /\ migration.todo = {}
  /\ migration' = [migration EXCEPT !.phase = "done"]
  /\ UNCHANGED <<rows, files, backend, reqs, answer, faulted, history>>

\* The script raises, a PutObject that may have taken effect included, or the
\* operator does not go on after it: writes are allowed again, and what it has
\* copied stays in the bucket.
AbandonMigration ==
  /\ migration.phase # "idle"
  /\ \/ UNCHANGED files
     \/ files' = [files EXCEPT !["s3"] = @ \cup migration.copying]
  /\ leftover' = leftover \cup files'["s3"]
  /\ migration' = NoMigration
  /\ UNCHANGED <<rows, backend, reqs, answer, faulted, unacked>>

\* Exit code 0, STORAGE_BACKEND=s3, redeploy: requests in flight end.
Cutover ==
  /\ migration.phase = "done" /\ migration.missing = {}
  /\ backend' = "s3"
  /\ reqs' = [c \in Clients |-> Idle]
  /\ faulted' = faulted \cup {d \in Documents : Working(d)}
  /\ migration' = NoMigration
  /\ UNCHANGED <<rows, files, answer, history>>

MigrationNext ==
  \/ StartMigration \/ CopyToS3 \/ FinishMigration \/ AbandonMigration \/ Cutover
  \/ \E d \in Documents : ReadLocal(d)

Next == StoreNext \/ MigrationNext

Spec == StoreInit /\ [][Next]_storeVars

-----------------------------------------------------------------------------
(* Properties.  A commit may take effect and raise all the same: the handler *)
(* of an upload then removes the file of a row that is there.              *)

\* No live document record points at a file that no longer exists, through
\* uploads, deletes, dying processes, lost acknowledgements and the migration:
\* unless its upload was answered with an error.
LiveRowHasFile == \A d \in rows \ Stored : answer[d] = "error"

\* A download, or an extraction, that finds a row and then no file raced
\* with the deletion of the document, or the storage failed, or the upload of
\* the document was answered with an error.
UnavailableOnlyIfDeleted ==
  \A c \in Clients : Doing(c, "unavailable") =>
    LET d == reqs[c].doc IN d \notin rows \/ d \in faulted \/ answer[d] = "error"

\* A PDF without a row, on which nobody works, needs a process that died, a
\* storage that failed, a deletion that was not acknowledged or a migration
\* that was abandoned: every error path of the handlers cleans up.
OrphanNeedsFault ==
  \A d \in Stored \ rows : Working(d) \/ d \in faulted \cup leftover

\* What an upload that was answered with an error may leave behind: its row
\* only if the commit of it raised after it took effect, its file, in whichever
\* backend, only if the storage failed or the process died.
FailedUploadLeavesAtMostItsRow ==
  \A d \in Documents : answer[d] = "error" =>
    /\ d \in rows => d \in unacked
    /\ \A b \in Backend : d \in files[b] => d \in faulted

=============================================================================
