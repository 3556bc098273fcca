--------------------------- MODULE DocumentStore ---------------------------
(***************************************************************************)
(* Where a document is kept: its documents row and its original PDF, two   *)
(* stores that no transaction spans.  A request is modelled step by step,  *)
(* one step per database transaction or storage call.  A PDF is present or *)
(* not: both backends write it atomically, under the document's own uuid.  *)
(***************************************************************************)
EXTENDS Naturals, FiniteSets

CONSTANTS
  Documents,      \* uuids
  Clients,        \* requests that can be in flight at once
  WritesStopped   \* nobody uploads or deletes while the files are migrated

ASSUME StoreAssumption ==
  /\ WritesStopped \in BOOLEAN
  /\ "none" \notin Documents

VARIABLES
  rows,       \* the documents that have a row
  files,      \* for each storage backend, the documents whose PDF it has
  backend,    \* STORAGE_BACKEND of the running service
  reqs,       \* for each client, where its request is
  answer,     \* what the client that uploaded a document was told
  faulted,    \* documents on which a process died, the storage failed or a
              \* deletion was committed and raised
  unacked,    \* documents whose row was committed by a commit that raised
  leftover,   \* documents an abandoned migration may have left a copy of
  migration   \* the run of migrate_uploads_to_s3.py, if any

history == <<unacked, leftover>>
storeVars == <<rows, files, backend, reqs, answer, faulted, history, migration>>

Backend == {"local", "s3"}
Work    == {"idle", "saving", "inserting", "compensating",
            "deleting", "cleaning", "reading", "unavailable"}
Request == [work : Work, doc : Documents \cup {"none"}]
Idle    == [work |-> "idle", doc |-> "none"]

NoMigration == [phase |-> "idle", todo |-> {}, missing |-> {}, copying |-> {}]

StoreTypeOK ==
  /\ rows \subseteq Documents
  /\ files \in [Backend -> SUBSET Documents]
  /\ backend \in Backend
  /\ reqs \in [Clients -> Request]
  /\ answer \in [Documents -> {"none", "created", "error"}]
  /\ faulted \subseteq Documents
  /\ unacked \subseteq Documents
  /\ leftover \subseteq Documents
  /\ migration \in [phase : {"idle", "running", "done"}, todo : SUBSET Documents,
                    missing : SUBSET Documents, copying : SUBSET Documents]

StoreInit ==
  /\ rows = {}
  /\ files = [b \in Backend |-> {}]
  /\ backend = "local"
  /\ reqs = [c \in Clients |-> Idle]
  /\ answer = [d \in Documents |-> "none"]
  /\ faulted = {}
  /\ unacked = {}
  /\ leftover = {}
  /\ migration = NoMigration

Stored == files[backend]

Doing(c, work) == reqs[c].work = work
To(c, work)    == reqs' = [reqs EXCEPT ![c].work = work]
End(c)         == reqs' = [reqs EXCEPT ![c] = Idle]
Take(c, d, work) == reqs' = [reqs EXCEPT ![c] = [work |-> work, doc |-> d]]
Working(d)     == \E c \in Clients : reqs[c].doc = d

Tell(d, what)  == answer' = [answer EXCEPT ![d] = what]
Blame(d)       == faulted' = faulted \cup {d}
Store(d)       == files' = [files EXCEPT ![backend] = @ \cup {d}]
Remove(d)      == files' = [files EXCEPT ![backend] = @ \ {d}]

WritesAllowed == WritesStopped => migration.phase = "idle"

-----------------------------------------------------------------------------
(* POST /documents *)

\* The checks of the upload passed and it has drawn a uuid never used before.
BeginUpload(c, d) ==
  /\ Doing(c, "idle") /\ WritesAllowed
  /\ answer[d] = "none" /\ ~Working(d) /\ d \notin rows \cup faulted
  /\ \A b \in Backend : d \notin files[b]
  /\ Take(c, d, "saving")
  /\ UNCHANGED <<rows, files, backend, answer, faulted, history, migration>>

SaveFile(c) ==
  /\ Doing(c, "saving")
  /\ Store(reqs[c].doc)
  /\ To(c, "inserting")
  /\ UNCHANGED <<rows, backend, answer, faulted, history, migration>>

\* Mutant: a failed write leaves what it wrote.
SaveLeavesPartial(c) ==
  /\ Doing(c, "saving")
  /\ Store(reqs[c].doc)
  /\ Tell(reqs[c].doc, "error")
  /\ End(c)
  /\ UNCHANGED <<rows, backend, faulted, history, migration>>

\* save_bytes raises, before the handler's try.  The local backend cleans up
\* after itself; a PutObject may have taken effect all the same.
SaveRaises(c) ==
  LET d == reqs[c].doc IN
  /\ Doing(c, "saving")
  /\ \/ UNCHANGED <<files, faulted>>
     \/ backend = "s3" /\ Store(d) /\ Blame(d)
  /\ Tell(d, "error")
  /\ End(c)
  /\ UNCHANGED <<rows, backend, history, migration>>

InsertRow(c) ==
  LET d == reqs[c].doc IN
  /\ Doing(c, "inserting")
  /\ rows' = rows \cup {d}
  /\ Tell(d, "created")
  /\ End(c)
  /\ UNCHANGED <<files, backend, faulted, history, migration>>

\* Mutant: the exception goes straight to the client.
InsertNotCompensated(c) ==
  /\ Doing(c, "inserting")
  /\ Tell(reqs[c].doc, "error")
  /\ End(c)
  /\ UNCHANGED <<rows, files, backend, faulted, history, migration>>

\* flush raises, or commit does: before it took effect or after.
InsertRaises(c) ==
  /\ Doing(c, "inserting")
  /\ \/ UNCHANGED <<rows, unacked>>
     \/ /\ rows' = rows \cup {reqs[c].doc}
        /\ unacked' = unacked \cup {reqs[c].doc}
  /\ To(c, "compensating")
  /\ UNCHANGED <<files, backend, answer, faulted, leftover, migration>>

\* The rollback and the compensating storage.delete, which may raise too.
Compensate(c) ==
  LET d == reqs[c].doc IN
  /\ Doing(c, "compensating")
  /\ \/ Remove(d) /\ UNCHANGED faulted
     \/ Blame(d) /\ UNCHANGED files
  /\ Tell(d, "error")
  /\ End(c)
  /\ UNCHANGED <<rows, backend, history, migration>>

-----------------------------------------------------------------------------
(* DELETE /documents/{document_id} *)

BeginDelete(c, d) ==
  /\ Doing(c, "idle") /\ WritesAllowed
  /\ d \in rows
  /\ Take(c, d, "deleting")
  /\ UNCHANGED <<rows, files, backend, answer, faulted, history, migration>>

\* Mutant: the file goes first.
DeleteFileFirst(c) ==
  LET d == reqs[c].doc IN
  /\ Doing(c, "deleting")
  /\ Remove(d)
  /\ To(c, "cleaning")
  /\ UNCHANGED <<rows, backend, answer, faulted, history, migration>>

\* The row is committed away; a second request's DELETE then finds none,
\* which is not an error.
DeleteRow(c) ==
  /\ Doing(c, "deleting")
  /\ rows' = rows \ {reqs[c].doc}
  /\ To(c, "cleaning")
  /\ UNCHANGED <<files, backend, answer, faulted, history, migration>>

\* The commit raises: the request ends and the file stays, whatever became
\* of the row.
DeleteRaises(c) ==
  LET d == reqs[c].doc IN
  /\ Doing(c, "deleting")
  /\ \/ UNCHANGED <<rows, faulted>>
     \/ rows' = rows \ {d} /\ Blame(d)
  /\ End(c)
  /\ UNCHANGED <<files, backend, answer, history, migration>>

\* Best effort: a failure is logged and the answer is the same.
CleanFile(c) ==
  LET d == reqs[c].doc IN
  /\ Doing(c, "cleaning")
  /\ \/ Remove(d) /\ UNCHANGED faulted
     \/ Blame(d) /\ UNCHANGED files
  /\ End(c)
  /\ UNCHANGED <<rows, backend, answer, history, migration>>

-----------------------------------------------------------------------------
(* GET /documents/{document_id}/file, and the extraction's preprocessing *)

BeginRead(c, d) ==
  /\ Doing(c, "idle")
  /\ d \in rows
  /\ Take(c, d, "reading")
  /\ UNCHANGED <<rows, files, backend, answer, faulted, history, migration>>

\* "unavailable": FILE_NOT_FOUND although the row was there, because there
\* is no file or because the storage did not answer.
ReadFile(c) ==
  LET d == reqs[c].doc IN
  /\ Doing(c, "reading")
  /\ \/ d \in Stored /\ End(c) /\ UNCHANGED faulted
     \/ d \notin Stored /\ To(c, "unavailable") /\ UNCHANGED faulted
     \/ To(c, "unavailable") /\ Blame(d)
  /\ UNCHANGED <<rows, files, backend, answer, history, migration>>

EndRead(c) ==
  /\ Doing(c, "unavailable")
  /\ End(c)
  /\ UNCHANGED <<rows, files, backend, answer, faulted, history, migration>>

-----------------------------------------------------------------------------

\* The process dies in the middle of a request.
RequestDies(c) ==
  /\ ~Doing(c, "idle")
  /\ Blame(reqs[c].doc)
  /\ End(c)
  /\ UNCHANGED <<rows, files, backend, answer, history, migration>>

StoreNext ==
  \E c \in Clients :
    \/ \E d \in Documents : BeginUpload(c, d) \/ BeginDelete(c, d) \/ BeginRead(c, d)
    \/ SaveFile(c) \/ SaveRaises(c) \/ InsertRow(c) \/ InsertRaises(c) \/ Compensate(c)
    \/ DeleteRow(c) \/ DeleteRaises(c) \/ CleanFile(c)
    \/ ReadFile(c) \/ EndRead(c)
    \/ RequestDies(c)

=============================================================================
