------------------------ MODULE DocumentStoreProofs ------------------------
(***************************************************************************)
(* With writes stopped during the migration a live row keeps its file,     *)
(* unless its upload was answered with an error: for any number of         *)
(* documents and requests, and with commits that take effect and raise.    *)
(***************************************************************************)
EXTENDS UploadMigration, TLAPS

Uploading(c) == reqs[c].work \in {"saving", "inserting"}
Writing(c)   == Uploading(c) \/ reqs[c].work \in {"compensating", "deleting", "cleaning"}

\* What each request knows about the document it works on.  Until the row is
\* tried the uuid is the upload's own.
RequestInv(c) ==
  LET d == reqs[c].doc IN
  /\ ~Doing(c, "idle") => d \in Documents
  /\ Doing(c, "idle") => d = "none"
  /\ Uploading(c) => /\ answer[d] = "none" /\ d \notin rows
                     /\ \A x \in Clients : reqs[x].doc = d => x = c
  /\ Doing(c, "inserting") => d \in Stored
  /\ Doing(c, "cleaning") => d \notin rows
  /\ Doing(c, "unavailable") => d \notin rows \/ d \in faulted \/ answer[d] = "error"

\* The migration never loses sight of a row: while it runs nothing is
\* written, and every row is still to be copied, being copied, reported
\* missing or in the bucket.
MigrationInv ==
  migration.phase # "idle" =>
    /\ backend = "local"
    /\ \A c \in Clients : ~Writing(c)
    /\ rows \subseteq migration.todo \cup migration.missing
                        \cup migration.copying \cup files["s3"]
    /\ migration.phase = "done" => migration.todo = {} /\ migration.copying = {}

StoreInv ==
  /\ StoreTypeOK
  /\ LiveRowHasFile
  /\ \A c \in Clients : RequestInv(c)
  /\ MigrationInv

-----------------------------------------------------------------------------

USE DEF Doing, To, End, Take, Tell, Blame, Store, Remove, Stored, Backend, Work,
        Idle, NoMigration, Request, history

LEMMA InitEstablishes ==
  StoreInit => StoreInv
BY StoreAssumption DEF StoreInit, StoreInv, StoreTypeOK, LiveRowHasFile, RequestInv,
   MigrationInv, Uploading, Writing

\* A new uuid: nobody else works on it and it has no row.
LEMMA BeginUploadKeeps ==
  ASSUME StoreInv, WritesStopped = TRUE, NEW c \in Clients, NEW d \in Documents, BeginUpload(c, d)
  PROVE  StoreInv'
<1>1. StoreTypeOK'
  BY DEF BeginUpload, StoreInv, StoreTypeOK
<1>2. LiveRowHasFile'
  BY DEF BeginUpload, StoreInv, LiveRowHasFile
<1>3. ASSUME NEW x \in Clients PROVE RequestInv(x)'
  BY StoreAssumption DEF BeginUpload, StoreInv, StoreTypeOK, RequestInv, Working, Uploading, Writing
<1>4. MigrationInv'
  BY DEF BeginUpload, MigrationInv, WritesAllowed, Uploading, Writing
<1> QED
  BY <1>1, <1>2, <1>3, <1>4 DEF StoreInv

LEMMA SaveFileKeeps ==
  ASSUME StoreInv, NEW c \in Clients, SaveFile(c)
  PROVE  StoreInv'
<1>1. StoreTypeOK'
  BY DEF SaveFile, StoreInv, StoreTypeOK, RequestInv
<1>2. LiveRowHasFile'
  BY DEF SaveFile, StoreInv, LiveRowHasFile
<1>3. ASSUME NEW x \in Clients PROVE RequestInv(x)'
  BY DEF SaveFile, StoreInv, StoreTypeOK, RequestInv, Uploading, Writing
<1>4. MigrationInv'
  BY DEF SaveFile, StoreInv, MigrationInv, Uploading, Writing
<1> QED
  BY <1>1, <1>2, <1>3, <1>4 DEF StoreInv

LEMMA SaveRaisesKeeps ==
  ASSUME StoreInv, NEW c \in Clients, SaveRaises(c)
  PROVE  StoreInv'
<1>1. StoreTypeOK'
  BY DEF SaveRaises, StoreInv, StoreTypeOK, RequestInv
<1>2. LiveRowHasFile'
  BY DEF SaveRaises, StoreInv, StoreTypeOK, LiveRowHasFile
<1>3. ASSUME NEW x \in Clients PROVE RequestInv(x)'
  BY StoreAssumption DEF SaveRaises, StoreInv, StoreTypeOK, RequestInv, Uploading, Writing
<1>4. MigrationInv'
  BY DEF SaveRaises, StoreInv, MigrationInv, Uploading, Writing
<1> QED
  BY <1>1, <1>2, <1>3, <1>4 DEF StoreInv

LEMMA InsertRowKeeps ==
  ASSUME StoreInv, NEW c \in Clients, InsertRow(c)
  PROVE  StoreInv'
<1>1. StoreTypeOK'
  BY DEF InsertRow, StoreInv, StoreTypeOK, RequestInv
<1>2. LiveRowHasFile'
  BY DEF InsertRow, StoreInv, RequestInv, LiveRowHasFile
<1>3. ASSUME NEW x \in Clients PROVE RequestInv(x)'
  BY StoreAssumption DEF InsertRow, StoreInv, StoreTypeOK, RequestInv, Uploading, Writing
<1>4. MigrationInv'
  BY DEF InsertRow, StoreInv, MigrationInv, Uploading, Writing
<1> QED
  BY <1>1, <1>2, <1>3, <1>4 DEF StoreInv

\* Whether the row is there or not, its file still is.
LEMMA InsertRaisesKeeps ==
  ASSUME StoreInv, NEW c \in Clients, InsertRaises(c)
  PROVE  StoreInv'
<1>1. StoreTypeOK'
  BY DEF InsertRaises, StoreInv, StoreTypeOK, RequestInv
<1>2. LiveRowHasFile'
  BY DEF InsertRaises, StoreInv, RequestInv, LiveRowHasFile
<1>3. ASSUME NEW x \in Clients PROVE RequestInv(x)'
  BY StoreAssumption DEF InsertRaises, StoreInv, StoreTypeOK, RequestInv, Uploading, Writing
<1>4. MigrationInv'
  BY DEF InsertRaises, StoreInv, MigrationInv, Uploading, Writing
<1> QED
  BY <1>1, <1>2, <1>3, <1>4 DEF StoreInv

\* The file that goes has no row, or the client is told of an error.
LEMMA CompensateKeeps ==
  ASSUME StoreInv, NEW c \in Clients, Compensate(c)
  PROVE  StoreInv'
<1>1. StoreTypeOK'
  BY DEF Compensate, StoreInv, StoreTypeOK, RequestInv
<1>2. LiveRowHasFile'
  BY DEF Compensate, StoreInv, StoreTypeOK, RequestInv, LiveRowHasFile,
     Uploading
<1>3. ASSUME NEW x \in Clients PROVE RequestInv(x)'
  BY StoreAssumption DEF Compensate, StoreInv, StoreTypeOK, RequestInv, Uploading, Writing
<1>4. MigrationInv'
  BY DEF Compensate, StoreInv, MigrationInv, Uploading, Writing
<1> QED
  BY <1>1, <1>2, <1>3, <1>4 DEF StoreInv

LEMMA BeginDeleteKeeps ==
  ASSUME StoreInv, WritesStopped = TRUE, NEW c \in Clients, NEW d \in Documents, BeginDelete(c, d)
  PROVE  StoreInv'
<1>1. StoreTypeOK'
  BY DEF BeginDelete, StoreInv, StoreTypeOK
<1>2. LiveRowHasFile'
  BY DEF BeginDelete, StoreInv, LiveRowHasFile
<1>3. ASSUME NEW x \in Clients PROVE RequestInv(x)'
  BY DEF BeginDelete, StoreInv, RequestInv, Uploading, Writing
<1>4. MigrationInv'
  BY DEF BeginDelete, MigrationInv, WritesAllowed, Uploading, Writing
<1> QED
  BY <1>1, <1>2, <1>3, <1>4 DEF StoreInv

LEMMA DeleteRowKeeps ==
  ASSUME StoreInv, NEW c \in Clients, DeleteRow(c)
  PROVE  StoreInv'
<1>1. StoreTypeOK'
  BY DEF DeleteRow, StoreInv, StoreTypeOK
<1>2. LiveRowHasFile'
  BY DEF DeleteRow, StoreInv, LiveRowHasFile
<1>3. ASSUME NEW x \in Clients PROVE RequestInv(x)'
  BY DEF DeleteRow, StoreInv, RequestInv, Uploading, Writing
<1>4. MigrationInv'
  BY DEF DeleteRow, StoreInv, MigrationInv, Uploading, Writing
<1> QED
  BY <1>1, <1>2, <1>3, <1>4 DEF StoreInv

LEMMA DeleteRaisesKeeps ==
  ASSUME StoreInv, NEW c \in Clients, DeleteRaises(c)
  PROVE  StoreInv'
<1>1. StoreTypeOK'
  BY DEF DeleteRaises, StoreInv, StoreTypeOK, RequestInv
<1>2. LiveRowHasFile'
  BY DEF DeleteRaises, StoreInv, LiveRowHasFile
<1>3. ASSUME NEW x \in Clients PROVE RequestInv(x)'
  BY StoreAssumption DEF DeleteRaises, StoreInv, StoreTypeOK, RequestInv, Uploading, Writing
<1>4. MigrationInv'
  BY DEF DeleteRaises, StoreInv, MigrationInv, Uploading, Writing
<1> QED
  BY <1>1, <1>2, <1>3, <1>4 DEF StoreInv

\* The file that goes has no row, and its uuid is never used again.
LEMMA CleanFileKeeps ==
  ASSUME StoreInv, NEW c \in Clients, CleanFile(c)
  PROVE  StoreInv'
<1>1. StoreTypeOK'
  BY DEF CleanFile, StoreInv, StoreTypeOK, RequestInv
<1>2. LiveRowHasFile'
  BY DEF CleanFile, StoreInv, StoreTypeOK, RequestInv, LiveRowHasFile
<1>3. ASSUME NEW x \in Clients PROVE RequestInv(x)'
  BY StoreAssumption DEF CleanFile, StoreInv, StoreTypeOK, RequestInv, Uploading, Writing
<1>4. MigrationInv'
  BY DEF CleanFile, StoreInv, MigrationInv, Uploading, Writing
<1> QED
  BY <1>1, <1>2, <1>3, <1>4 DEF StoreInv

LEMMA BeginReadKeeps ==
  ASSUME StoreInv, NEW c \in Clients, NEW d \in Documents, BeginRead(c, d)
  PROVE  StoreInv'
<1>1. StoreTypeOK'
  BY DEF BeginRead, StoreInv, StoreTypeOK
<1>2. LiveRowHasFile'
  BY DEF BeginRead, StoreInv, LiveRowHasFile
<1>3. ASSUME NEW x \in Clients PROVE RequestInv(x)'
  BY DEF BeginRead, StoreInv, RequestInv, Uploading, Writing
<1>4. MigrationInv'
  BY DEF BeginRead, StoreInv, MigrationInv, Uploading, Writing
<1> QED
  BY <1>1, <1>2, <1>3, <1>4 DEF StoreInv

LEMMA ReadFileKeeps ==
  ASSUME StoreInv, NEW c \in Clients, ReadFile(c)
  PROVE  StoreInv'
<1>1. StoreTypeOK'
  BY DEF ReadFile, StoreInv, StoreTypeOK, RequestInv
<1>2. LiveRowHasFile'
  BY DEF ReadFile, StoreInv, LiveRowHasFile
<1>3. ASSUME NEW x \in Clients PROVE RequestInv(x)'
  BY StoreAssumption DEF ReadFile, StoreInv, StoreTypeOK, RequestInv, LiveRowHasFile,
     Uploading, Writing
<1>4. MigrationInv'
  BY DEF ReadFile, StoreInv, StoreTypeOK, MigrationInv, Uploading, Writing
<1> QED
  BY <1>1, <1>2, <1>3, <1>4 DEF StoreInv

LEMMA EndReadKeeps ==
  ASSUME StoreInv, NEW c \in Clients, EndRead(c)
  PROVE  StoreInv'
<1>1. StoreTypeOK'
  BY DEF EndRead, StoreInv, StoreTypeOK
<1>2. LiveRowHasFile'
  BY DEF EndRead, StoreInv, LiveRowHasFile
<1>3. ASSUME NEW x \in Clients PROVE RequestInv(x)'
  BY StoreAssumption DEF EndRead, StoreInv, StoreTypeOK, RequestInv, Uploading, Writing
<1>4. MigrationInv'
  BY DEF EndRead, StoreInv, MigrationInv, Uploading, Writing
<1> QED
  BY <1>1, <1>2, <1>3, <1>4 DEF StoreInv

LEMMA RequestDiesKeeps ==
  ASSUME StoreInv, NEW c \in Clients, RequestDies(c)
  PROVE  StoreInv'
<1>1. StoreTypeOK'
  BY DEF RequestDies, StoreInv, StoreTypeOK, RequestInv
<1>2. LiveRowHasFile'
  BY DEF RequestDies, StoreInv, LiveRowHasFile
<1>3. ASSUME NEW x \in Clients PROVE RequestInv(x)'
  BY StoreAssumption DEF RequestDies, StoreInv, StoreTypeOK, RequestInv, Uploading, Writing
<1>4. MigrationInv'
  BY DEF RequestDies, StoreInv, MigrationInv, Uploading, Writing
<1> QED
  BY <1>1, <1>2, <1>3, <1>4 DEF StoreInv

\* Every row is still to be copied.
LEMMA StartMigrationKeeps ==
  ASSUME StoreInv, WritesStopped = TRUE, StartMigration
  PROVE  StoreInv'
<1>1. StoreTypeOK'
  BY DEF StartMigration, StoreInv, StoreTypeOK
<1>2. LiveRowHasFile'
  BY DEF StartMigration, StoreInv, LiveRowHasFile
<1>3. ASSUME NEW x \in Clients PROVE RequestInv(x)'
  BY DEF StartMigration, StoreInv, RequestInv, Uploading, Writing
<1>4. MigrationInv'
  BY DEF StartMigration, MigrationInv, Uploading, Writing
<1> QED
  BY <1>1, <1>2, <1>3, <1>4 DEF StoreInv

LEMMA ReadLocalKeeps ==
  ASSUME StoreInv, NEW d \in Documents, ReadLocal(d)
  PROVE  StoreInv'
<1>1. StoreTypeOK'
  BY DEF ReadLocal, StoreInv, StoreTypeOK
<1>2. LiveRowHasFile'
  BY DEF ReadLocal, StoreInv, LiveRowHasFile
<1>3. ASSUME NEW x \in Clients PROVE RequestInv(x)'
  BY DEF ReadLocal, StoreInv, RequestInv, Uploading, Writing
<1>4. MigrationInv'
  BY DEF ReadLocal, StoreInv, MigrationInv, Uploading, Writing
<1> QED
  BY <1>1, <1>2, <1>3, <1>4 DEF StoreInv

LEMMA CopyToS3Keeps ==
  ASSUME StoreInv, CopyToS3
  PROVE  StoreInv'
<1>1. StoreTypeOK'
  BY DEF CopyToS3, StoreInv, StoreTypeOK
<1>2. LiveRowHasFile'
  BY DEF CopyToS3, StoreInv, LiveRowHasFile
<1>3. ASSUME NEW x \in Clients PROVE RequestInv(x)'
  BY DEF CopyToS3, StoreInv, RequestInv, Uploading, Writing
<1>4. MigrationInv'
  BY DEF CopyToS3, StoreInv, StoreTypeOK, MigrationInv, Uploading, Writing
<1> QED
  BY <1>1, <1>2, <1>3, <1>4 DEF StoreInv

LEMMA FinishMigrationKeeps ==
  ASSUME StoreInv, FinishMigration
  PROVE  StoreInv'
<1>1. StoreTypeOK'
  BY DEF FinishMigration, StoreInv, StoreTypeOK
<1>2. LiveRowHasFile'
  BY DEF FinishMigration, StoreInv, LiveRowHasFile
<1>3. ASSUME NEW x \in Clients PROVE RequestInv(x)'
  BY DEF FinishMigration, StoreInv, RequestInv, Uploading, Writing
<1>4. MigrationInv'
  BY DEF FinishMigration, StoreInv, MigrationInv, Uploading, Writing
<1> QED
  BY <1>1, <1>2, <1>3, <1>4 DEF StoreInv

LEMMA AbandonMigrationKeeps ==
  ASSUME StoreInv, AbandonMigration
  PROVE  StoreInv'
<1>1. StoreTypeOK'
  BY DEF AbandonMigration, StoreInv, StoreTypeOK
<1>2. LiveRowHasFile'
  BY DEF AbandonMigration, StoreInv, StoreTypeOK, MigrationInv, LiveRowHasFile
<1>3. ASSUME NEW x \in Clients PROVE RequestInv(x)'
  BY StoreAssumption DEF AbandonMigration, StoreInv, StoreTypeOK, RequestInv, Uploading, Writing
<1>4. MigrationInv'
  BY DEF AbandonMigration, MigrationInv
<1> QED
  BY <1>1, <1>2, <1>3, <1>4 DEF StoreInv

\* Nothing missing: every row is in the bucket.
LEMMA CutoverKeeps ==
  ASSUME StoreInv, Cutover
  PROVE  StoreInv'
<1>1. StoreTypeOK'
  BY DEF Cutover, StoreInv, StoreTypeOK
<1>2. LiveRowHasFile'
  BY DEF Cutover, StoreInv, LiveRowHasFile, MigrationInv
<1>3. ASSUME NEW x \in Clients PROVE RequestInv(x)'
  BY DEF Cutover, RequestInv, Uploading, Writing
<1>4. MigrationInv'
  BY DEF Cutover, MigrationInv
<1> QED
  BY <1>1, <1>2, <1>3, <1>4 DEF StoreInv

-----------------------------------------------------------------------------

\* A step of request c.
StepOf(c) ==
  \/ \E d \in Documents : BeginUpload(c, d) \/ BeginDelete(c, d) \/ BeginRead(c, d)
  \/ SaveFile(c) \/ SaveRaises(c) \/ InsertRow(c) \/ InsertRaises(c) \/ Compensate(c)
  \/ DeleteRow(c) \/ DeleteRaises(c) \/ CleanFile(c)
  \/ ReadFile(c) \/ EndRead(c)
  \/ RequestDies(c)

LEMMA RequestStepKeeps ==
  ASSUME StoreInv, WritesStopped = TRUE, StoreNext
  PROVE  StoreInv'
<1> PICK c \in Clients : StepOf(c)
  BY DEF StoreNext, StepOf
<1>1. CASE \E d \in Documents : BeginUpload(c, d) \/ BeginDelete(c, d) \/ BeginRead(c, d)
  BY <1>1, BeginUploadKeeps, BeginDeleteKeeps, BeginReadKeeps
<1>2. CASE SaveFile(c) \/ SaveRaises(c) \/ InsertRow(c) \/ InsertRaises(c) \/ Compensate(c)
  BY <1>2, SaveFileKeeps, SaveRaisesKeeps, InsertRowKeeps, InsertRaisesKeeps, CompensateKeeps
<1>3. CASE DeleteRow(c) \/ DeleteRaises(c) \/ CleanFile(c)
  BY <1>3, DeleteRowKeeps, DeleteRaisesKeeps, CleanFileKeeps
<1>4. CASE ReadFile(c) \/ EndRead(c) \/ RequestDies(c)
  BY <1>4, ReadFileKeeps, EndReadKeeps, RequestDiesKeeps
<1> QED
  BY <1>1, <1>2, <1>3, <1>4 DEF StepOf

LEMMA MigrationStepKeeps ==
  ASSUME StoreInv, WritesStopped = TRUE, MigrationNext
  PROVE  StoreInv'
BY StartMigrationKeeps, ReadLocalKeeps, CopyToS3Keeps, FinishMigrationKeeps,
   AbandonMigrationKeeps, CutoverKeeps DEF MigrationNext

\* A stuttering step.
LEMMA StutterKeeps ==
  ASSUME StoreInv, UNCHANGED storeVars
  PROVE  StoreInv'
<1>1. StoreTypeOK' /\ LiveRowHasFile' /\ MigrationInv'
  BY DEF storeVars, StoreInv, StoreTypeOK, LiveRowHasFile, MigrationInv, Uploading, Writing
<1>2. \A c \in Clients : RequestInv(c)'
  BY DEF storeVars, StoreInv, RequestInv, Uploading, Writing
<1> QED
  BY <1>1, <1>2 DEF storeVars, StoreInv, Uploading

\* The invariant behind the two theorems below.
THEOREM StoreInvariant ==
  ASSUME WritesStopped = TRUE
  PROVE  Spec => []StoreInv
<1>1. StoreInv /\ [Next]_storeVars => StoreInv'
  BY RequestStepKeeps, MigrationStepKeeps, StutterKeeps DEF Next
<1> QED
  BY InitEstablishes, <1>1, PTL DEF Spec

\* A live row keeps its file: uploads, deletes, dying processes and the
\* migration never leave a documents row whose PDF the running service
\* cannot find, unless its upload was answered with an error.
THEOREM LiveRowsKeepTheirFiles ==
  ASSUME WritesStopped = TRUE
  PROVE  Spec => []LiveRowHasFile
<1>1. StoreInv => LiveRowHasFile
  BY DEF StoreInv
<1> QED
  BY <1>1, StoreInvariant, PTL

\* A read that finds no file is a read of a document deleted meanwhile, of a
\* storage that failed, or of a document whose upload was answered with an
\* error.
THEOREM UnavailableMeansDeleted ==
  ASSUME WritesStopped = TRUE
  PROVE  Spec => []UnavailableOnlyIfDeleted
<1>1. StoreInv => UnavailableOnlyIfDeleted
  BY DEF StoreInv, RequestInv, UnavailableOnlyIfDeleted
<1> QED
  BY <1>1, StoreInvariant, PTL

-----------------------------------------------------------------------------
(* Leftovers: which files have no row, and what a failed upload leaves     *)

\* Some request is between the file and the row of d.
Handled(d) == \E c \in Clients :
  reqs[c].doc = d /\ reqs[c].work \in {"inserting", "compensating", "cleaning"}

FilesHandled == \A d \in Stored \ rows : d \in faulted \cup leftover \/ Handled(d)

\* An upload's file is in no backend before it is saved, and then only in the
\* one the service uses.
UploadsAreFresh == \A c \in Clients :
  /\ Doing(c, "saving") => \A b \in Backend : reqs[c].doc \notin files[b]
  /\ reqs[c].work \in {"inserting", "compensating"} =>
       \A b \in Backend \ {backend} : reqs[c].doc \notin files[b]

\* What the bucket has before the cutover was copied from the local backend,
\* for a row, or is left over from an abandoned migration.
CopiesHaveRows ==
  /\ migration.copying \subseteq files["local"]
  /\ migration.phase = "idle" => migration.copying = {}
  /\ backend = "local" =>
       /\ files["s3"] \subseteq leftover \cup rows
       /\ migration.phase = "idle" => files["s3"] \subseteq leftover
       /\ migration.phase # "idle" => migration.todo \cup migration.copying \subseteq rows

\* A row under an upload that is being undone was committed and raised.
FailuresExplained ==
  /\ FailedUploadLeavesAtMostItsRow
  /\ \A c \in Clients : Doing(c, "compensating") /\ reqs[c].doc \in rows => reqs[c].doc \in unacked

LeftoverInv == FilesHandled /\ UploadsAreFresh /\ CopiesHaveRows /\ FailuresExplained

\* A request leaves its document to nobody only with the file gone, the row
\* there or the blame taken.
LEMMA RequestsHandle ==
  ASSUME StoreInv, LeftoverInv, NEW c \in Clients, StepOf(c)
  PROVE  FilesHandled'
<1> SUFFICES ASSUME NEW x \in Stored' \ rows', x \notin faulted' \cup leftover'
             PROVE  Handled(x)'
  BY DEF FilesHandled
<1> USE DEF StoreInv, StoreTypeOK, LeftoverInv, FilesHandled, Handled
<1>1. CASE \E d \in Documents : BeginUpload(c, d) \/ BeginDelete(c, d) \/ BeginRead(c, d)
  BY <1>1 DEF BeginUpload, BeginDelete, BeginRead
<1>2. CASE SaveFile(c)
  BY <1>2 DEF SaveFile
<1>3. CASE SaveRaises(c)
  BY <1>3 DEF SaveRaises, UploadsAreFresh
<1>4. CASE InsertRow(c) \/ InsertRaises(c)
  BY <1>4 DEF InsertRow, InsertRaises
<1>5. CASE Compensate(c)
  BY <1>5 DEF Compensate
<1>6. CASE DeleteRow(c) \/ DeleteRaises(c)
  BY <1>6 DEF DeleteRow, DeleteRaises
<1>7. CASE CleanFile(c)
  BY <1>7 DEF CleanFile
<1>8. CASE ReadFile(c) \/ EndRead(c)
  BY <1>8 DEF ReadFile, EndRead
<1>9. CASE RequestDies(c)
  BY <1>9 DEF RequestDies
<1> QED
  BY <1>1, <1>2, <1>3, <1>4, <1>5, <1>6, <1>7, <1>8, <1>9 DEF StepOf

\* Only an upload adds a file, its own, and to the backend in use.
LEMMA RequestsSaveFresh ==
  ASSUME StoreInv, LeftoverInv, NEW c \in Clients, StepOf(c)
  PROVE  UploadsAreFresh'
<1> SUFFICES ASSUME NEW x \in Clients
             PROVE  /\ Doing(x, "saving")' => \A b \in Backend : reqs'[x].doc \notin files'[b]
                    /\ reqs'[x].work \in {"inserting", "compensating"} =>
                         \A b \in Backend \ {backend'} : reqs'[x].doc \notin files'[b]
  BY DEF UploadsAreFresh
<1> USE DEF StoreInv, StoreTypeOK, RequestInv, LeftoverInv, UploadsAreFresh
<1>1. CASE \E d \in Documents : BeginUpload(c, d) \/ BeginDelete(c, d) \/ BeginRead(c, d)
  BY <1>1 DEF BeginUpload, BeginDelete, BeginRead
<1>2. CASE SaveFile(c)
  BY <1>2 DEF SaveFile, Uploading
<1>3. CASE SaveRaises(c)
  BY <1>3 DEF SaveRaises, Uploading
<1>4. CASE InsertRow(c) \/ InsertRaises(c)
  BY <1>4 DEF InsertRow, InsertRaises
<1>5. CASE Compensate(c)
  BY <1>5 DEF Compensate
<1>6. CASE DeleteRow(c) \/ DeleteRaises(c) \/ CleanFile(c)
  BY <1>6 DEF DeleteRow, DeleteRaises, CleanFile
<1>7. CASE ReadFile(c) \/ EndRead(c) \/ RequestDies(c)
  BY <1>7 DEF ReadFile, EndRead, RequestDies
<1> QED
  BY <1>1, <1>2, <1>3, <1>4, <1>5, <1>6, <1>7 DEF StepOf

\* Before the cutover no request touches the bucket, and none takes a row or
\* a local file away while files are copied.
LEMMA RequestsLeaveTheBucket ==
  ASSUME StoreInv, LeftoverInv, NEW c \in Clients, StepOf(c)
  PROVE  CopiesHaveRows'
<1>1. /\ UNCHANGED <<backend, leftover, migration>>
      /\ backend = "local" => files'["s3"] = files["s3"]
  BY DEF StepOf, StoreInv, StoreTypeOK, BeginUpload, BeginDelete, BeginRead, SaveFile,
     SaveRaises, InsertRow, InsertRaises, Compensate, DeleteRow, DeleteRaises, CleanFile, ReadFile,
     EndRead, RequestDies
<1>2. migration.phase # "idle" => rows \subseteq rows' /\ files' = files
  BY DEF StepOf, StoreInv, MigrationInv, Uploading, Writing, BeginUpload, BeginDelete, BeginRead,
     SaveFile, SaveRaises, InsertRow, InsertRaises, Compensate, DeleteRow, DeleteRaises, CleanFile,
     ReadFile, EndRead, RequestDies
<1> QED
  BY <1>1, <1>2 DEF LeftoverInv, CopiesHaveRows

\* An upload is answered with an error with its file gone or the blame taken,
\* and with a row only if the commit of it raised.
LEMMA RequestsExplain ==
  ASSUME StoreInv, LeftoverInv, NEW c \in Clients, StepOf(c)
  PROVE  FailuresExplained'
<1> USE DEF StoreInv, StoreTypeOK, RequestInv, LeftoverInv, FailuresExplained,
        FailedUploadLeavesAtMostItsRow
<1>1. CASE \E d \in Documents : BeginUpload(c, d) \/ BeginDelete(c, d) \/ BeginRead(c, d)
  BY <1>1 DEF BeginUpload, BeginDelete, BeginRead
<1>2. CASE SaveFile(c)
  BY <1>2 DEF SaveFile, Uploading
<1>3. CASE SaveRaises(c)
  BY <1>3 DEF SaveRaises, Uploading, UploadsAreFresh
<1>4. CASE InsertRow(c)
  BY <1>4 DEF InsertRow, Uploading
<1>5. CASE InsertRaises(c)
  BY <1>5 DEF InsertRaises, Uploading
<1>6. CASE Compensate(c)
  BY <1>6 DEF Compensate, UploadsAreFresh
<1>7. CASE DeleteRow(c) \/ DeleteRaises(c) \/ CleanFile(c)
  BY <1>7 DEF DeleteRow, DeleteRaises, CleanFile
<1>8. CASE ReadFile(c) \/ EndRead(c) \/ RequestDies(c)
  BY <1>8 DEF ReadFile, EndRead, RequestDies
<1> QED
  BY <1>1, <1>2, <1>3, <1>4, <1>5, <1>6, <1>7, <1>8 DEF StepOf

LEMMA MigrationLeavesNothing ==
  ASSUME StoreInv, LeftoverInv, MigrationNext
  PROVE  LeftoverInv'
<1> USE DEF StoreInv, StoreTypeOK, LeftoverInv
<1>1. ASSUME StartMigration \/ (\E d \in Documents : ReadLocal(d)) \/ FinishMigration
      PROVE  FilesHandled' /\ UploadsAreFresh' /\ FailuresExplained'
  <2>1. UNCHANGED <<rows, files, backend, reqs, answer, faulted, history>>
    BY <1>1 DEF StartMigration, ReadLocal, FinishMigration
  <2> QED
    BY <2>1 DEF FilesHandled, UploadsAreFresh, FailuresExplained, FailedUploadLeavesAtMostItsRow,
       Handled
<1>2. ASSUME CopyToS3 \/ AbandonMigration
      PROVE  FilesHandled' /\ UploadsAreFresh' /\ FailuresExplained'
  <2>1. /\ UNCHANGED <<rows, backend, reqs, answer, faulted, unacked>>
        /\ backend = "local" /\ \A c \in Clients : ~Writing(c)
        /\ leftover \subseteq leftover'
        /\ files'["local"] = files["local"]
        /\ files'["s3"] \subseteq files["s3"] \cup files["local"]
    BY <1>2 DEF CopyToS3, AbandonMigration, MigrationInv, CopiesHaveRows
  <2>2. FilesHandled'
    BY <2>1 DEF FilesHandled, Handled
  <2>3. UploadsAreFresh'
    BY <2>1 DEF UploadsAreFresh, Writing, Uploading
  <2>4. FailuresExplained'
    BY <2>1 DEF FailuresExplained, FailedUploadLeavesAtMostItsRow
  <2> QED
    BY <2>2, <2>3, <2>4
<1>3. ASSUME Cutover PROVE FilesHandled' /\ UploadsAreFresh' /\ FailuresExplained'
  BY <1>3 DEF Cutover, MigrationInv, CopiesHaveRows, FilesHandled, UploadsAreFresh,
     FailuresExplained, FailedUploadLeavesAtMostItsRow, Handled
<1>4. ASSUME StartMigration PROVE CopiesHaveRows'
  BY <1>4 DEF StartMigration, CopiesHaveRows
<1>5. ASSUME \E d \in Documents : ReadLocal(d) PROVE CopiesHaveRows'
  BY <1>5 DEF ReadLocal, CopiesHaveRows
<1>6. ASSUME CopyToS3 PROVE CopiesHaveRows'
  BY <1>6 DEF CopyToS3, CopiesHaveRows
<1>7. ASSUME FinishMigration PROVE CopiesHaveRows'
  BY <1>7 DEF FinishMigration, CopiesHaveRows
<1>8. ASSUME AbandonMigration PROVE CopiesHaveRows'
  BY <1>8 DEF AbandonMigration, CopiesHaveRows
<1>9. ASSUME Cutover PROVE CopiesHaveRows'
  BY <1>9 DEF Cutover, CopiesHaveRows
<1> QED
  BY <1>1, <1>2, <1>3, <1>4, <1>5, <1>6, <1>7, <1>8, <1>9 DEF MigrationNext

LEMMA LeftoverInvariant ==
  ASSUME WritesStopped = TRUE
  PROVE  Spec => []LeftoverInv
<1>1. StoreInit => LeftoverInv
  BY DEF StoreInit, LeftoverInv, FilesHandled, UploadsAreFresh, CopiesHaveRows, FailuresExplained,
     FailedUploadLeavesAtMostItsRow
<1>2. StoreInv /\ LeftoverInv /\ [Next]_storeVars => LeftoverInv'
  <2> SUFFICES ASSUME StoreInv, LeftoverInv, [Next]_storeVars PROVE LeftoverInv'
    OBVIOUS
  <2>1. CASE StoreNext
    <3> PICK c \in Clients : StepOf(c)
      BY <2>1 DEF StoreNext, StepOf
    <3> QED
      BY RequestsHandle, RequestsSaveFresh, RequestsLeaveTheBucket, RequestsExplain DEF LeftoverInv
  <2>2. CASE MigrationNext
    BY <2>2, MigrationLeavesNothing
  <2>3. CASE UNCHANGED storeVars
    BY <2>3 DEF storeVars, LeftoverInv, FilesHandled, UploadsAreFresh, CopiesHaveRows,
       FailuresExplained, FailedUploadLeavesAtMostItsRow, Handled
  <2> QED
    BY <2>1, <2>2, <2>3 DEF Next
<1> QED
  BY <1>1, <1>2, StoreInvariant, PTL DEF Spec

\* A PDF without a row, on which nobody works, needs a process that died, a
\* storage that failed, an unacknowledged deletion or an abandoned migration.
THEOREM OrphansAreExplained ==
  ASSUME WritesStopped = TRUE
  PROVE  Spec => []OrphanNeedsFault
<1>1. LeftoverInv => OrphanNeedsFault
  BY DEF LeftoverInv, FilesHandled, Handled, OrphanNeedsFault, Working
<1> QED
  BY <1>1, LeftoverInvariant, PTL

\* An upload answered with an error leaves a row only if its commit raised
\* after it took effect, and a file only where the storage failed too.
THEOREM FailedUploadsAreExplained ==
  ASSUME WritesStopped = TRUE
  PROVE  Spec => []FailedUploadLeavesAtMostItsRow
<1>1. LeftoverInv => FailedUploadLeavesAtMostItsRow
  BY DEF LeftoverInv, FailuresExplained
<1> QED
  BY <1>1, LeftoverInvariant, PTL

=============================================================================
