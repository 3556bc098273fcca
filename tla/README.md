# A verification of LedgerDrop

LedgerDrop takes PDF invoices through extraction, normalization, validation,
decision, human review and correction, and keeps every attempt in an
append-only ledger.  This directory holds TLA+ models of that workflow, the TLC
configurations that check them on small instances, and TLAPS proofs of what
holds for every instance.  Paths are relative to the repository; `P` is
`backend/app/services/processing`.

## 1. Inventory

| Part | State | Operations | What makes it hard | What makes it correct |
|---|---|---|---|---|
| Tables and session (`app/models`, `app/database/session.py`) | `documents.status`; one append-only table of attempts per stage; reviews; corrections | `SELECT ... FOR UPDATE`, insert, update, commit | the session's identity map survives commits (`expire_on_commit=False`) and is not refreshed by `FOR UPDATE`; CHECK constraints are the last guard | rows keep their terminal status; a row was made from a COMPLETED source |
| Extraction (`P/extraction`) | `invoice_extractions`, `documents.status` | start, retry | two transactions around a provider call that takes minutes; the process may die in between; a commit may succeed and look failed; an exception may leave the service outside every `try` | the document says what its newest attempt says |
| Normalization (`P/normalization`) | `invoice_normalizations` | start, retry | lock on the source row only | one result per source |
| Validation (`P/validation`) | `invoice_validations` | start, retry; duplicate search over other documents | accepts a superseded normalization | one result per source |
| Decision (`P/decision`) | `invoice_decisions`, `documents.status` | start, retry | the chain may move on while the decision is evaluated, and while it is committed | no judgement overrides one on newer data |
| Review (`P/review`) | `invoice_reviews`, `documents.status` | submit, queue | two reviewers; a correction under way, whose projection takes no lock | one verdict per escalated decision, and it stands |
| Correction (`P/correction`) | `invoice_corrections`, a projected normalization, a validation, a decision, `documents.status` | submit, retry | up to nine transactions in one session, the document's lock held in four of them; writes between the stages that no `try` covers | corrections build on each other; a COMPLETED one owns one consistent chain |
| Pipeline (`P/pipeline.py`) | none | run, retry | refused stages are adopted | goes on from COMPLETED attempts only |
| Recovery (`scripts/recover_stuck_attempts.py`) | none | `--apply` | the worker may still be alive | a dead worker's document can be retried |
| Document store (`app/api/documents.py`, `app/services/storage`, `scripts/migrate_uploads_to_s3.py`) | the file of each document in one of two backends, `documents` rows, the migration's worklist | upload, download, delete; copy to S3 and cut over | no transaction spans file and row; compensation after a failed commit, which may have taken effect; the script works on a list of rows read once | a live row has its file, and what an error leaves behind is explained |
| Duplicate search (`P/validation/engine.py`) | none of its own: reads every other document's newest COMPLETED extraction and normalization | part of a validation | rows are stamped before they are committed, the search runs some time after the stamp it compares with, and corrections replace rows meanwhile; no lock spans two documents | of two copies of one invoice at least one goes to a human |
| Rules and decision engine (`P/validation/rules.py`, `policy.py`, `P/decision/engine.py`) | none | pure functions | tolerances that add up over lines, rounding, signs, absent amounts, leap years | an honest invoice is not held for its rounding, an accepted one adds up |
| Normalizers, correction projection (`P/normalization/normalizers.py`, `engine.py`, `P/correction/projection.py`) | none: an invoice's rows, and the entries a correction leaves | normalize a text; merge a submission over its source | separators, signs, date order, clean-up that is applied again with every correction; lines added and removed while entries are recorded | a value is kept as it was meant or flagged; the entries replay to the invoice |
| Review page (`frontend/src/components/review-detail.tsx`) | a draft of the invoice and the decision it was loaded for | load, edit, add and remove lines, submit | two reviewers with one chain; a draft made of two sources | what nobody touched is not changed |
| Row locks and connections (`app/database/session.py`, every service's locking reads and flush order) | the locks of open transactions; ten connections | lock, wait, commit, be aborted | locks taken in different orders; cascades and foreign keys lock rows nobody names | no failure handler is aborted; everybody is answered |
| Provider, PDF, API schemas, core, migrations, evaluation, dashboard | configuration, caches | I/O | third-party behaviour | out of scope (section 8) |

The services interact through the tables alone: a stage reads its source row,
locks it, and writes its own row.  Extraction, decision, review and correction
also write `documents.status`.  The pipeline and the correction call other
services inside one request and one session.  A validation is the only stage
that reads other documents' rows.

There are five models, which share no variables:

* the *workflow* of one document (`Ledger` ... `Workflow`): which attempts exist,
  who may make and finish them, and what they do to the document's status;
* the *document store* (`DocumentStore`, `UploadMigration`): many documents, each
  only a row and a file;
* the *duplicate search* (`ValidationRules`, `DecisionEngine`, `DuplicateSearch`):
  many documents with their invoices, each going through a simplified life of
  normalizations, validations and decisions, with every rule computed;
* the *row locks* (`RowLocks`): what a transaction, one step of the workflow,
  does inside: the locks it takes one by one, and the connection it needs;
* the *fields* (`Normalizers`, `CorrectionProjection`, `Writers`, `ReviewScreen`): what is
  written at each place of one document's invoice, from the vendor's text over
  the review page to the next correction.

Above the workflow stands `DocumentLife`, a specification of what the outside
sees of a document; `Workflow` implements it (`LifeCycle`).

## 2. The modules

In the workflow model, `Ledger` holds the state: one document's status, the rows of the six tables and,
per worker, the place of the request it runs.  A table is a sequence, so an
attempt is its index and "highest attempt number for a source" is the greatest
index with that source.  One action is one database transaction; a request
between two transactions is a record with the stage and step it is at, who
called the stage, the attempt it works on, and `seen`, the status its session
believes the document to have.

| Module | Code | Actions |
|---|---|---|
| `Ledger` | the models, the repositories' queries, `database/session.py` | `GiveUp`, `Escapes`; `WriteStatus` is an attribute assignment on the session's Document, `MayBecomeCompleted` the tables' CHECK |
| `ExtractionService` | `P/extraction` | `BeginExtraction`, `CompleteExtraction`, `ExtractionRaises`, `MarkExtractionFailed`, `ExtractionEscapes` |
| `NormalizationService`, `ValidationService`, `DecisionService` | `P/normalization`, `P/validation`, `P/decision` | the same five each; a decision completes in two, `RecheckSource` and `CompleteDecision` |
| `ReviewService` | `P/review` | `LockForReview`, `SubmitReview`, `RollBackReview`; `InQueue` is the queue's query |
| `CorrectionService` | `P/correction` | `SubmitCorrection`, `RetryCorrection` (lock and read), `BeginCorrection`, `RejectCorrection`, `ProjectCorrection`, `RecordValidation`, `FinalizeCorrection`, `CorrectionRaises`, `MarkCorrectionFailed`, `CorrectionEscapes` |
| `Pipeline` | `P/pipeline.py` and the stage calls of a correction | `StartPipeline`, `ContinueToNormalization`, `ContinueToValidation`, `ContinueToDecision`, `CorrectionStageRefused` |
| `Recovery` | the recovery script, a dying process | `Crash`, `Recover` |
| `Workflow` | all of it | `Next`, the specifications |
| `WorkflowProperties` | | the properties, and the inductive invariant `IInv` |
| `DocumentedClaims` | | statements of the repository's documents that the code contradicts |
| `DocumentStore` | `app/api/documents.py`, `app/services/storage` | upload: `BeginUpload`, `SaveFile`, `SaveRaises`, `InsertRow`, `InsertRaises`, `Compensate`; delete: `BeginDelete`, `DeleteRow`, `DeleteRaises`, `CleanFile`; read: `BeginRead`, `ReadFile`, `EndRead`; `RequestDies` |
| `UploadMigration` | `scripts/migrate_uploads_to_s3.py` beside the store | `StartMigration`, `ReadLocal`, `CopyToS3`, `FinishMigration`, `AbandonMigration`, `Cutover`; the store's properties |
| `ValidationRules` | `P/validation/rules.py`, `policy.py` | none: one operator per rule, `RunRules` |
| `DecisionEngine` | `P/decision/engine.py`, the catalogue | none: `Decide` |
| `DuplicateSearch` | `P/validation/engine.py`, and what of the stages its reads depend on | `Tick`, `Extract`, `Normalize`, `Project`, `CommitNormalization`, `NormalizationRaises`, `StartValidation`, `Evaluate`, `CompleteValidation`, `ValidationFails`, `DecideInvoice` |
| `InvoiceProperties` | | the properties of the last three, and the inductive invariant `SearchIInv` |
| `DocumentLife` | the status as `GET /documents` shows it, decisions, reviews and corrections as records | `Extract`, `ExtractionEnds`, `Escalate`, `Settle`, `Correct` |
| `RowLocks` | the locking reads, flushes and cascades of every service, in order; `app/database/session.py` | `Want`, `Checkout`, `CheckoutTimesOut`, `Acquire`, `PassOver`, `Finish`, `Abort`; one *plan*, a sequence of locks, per kind of transaction |
| `Normalizers` | `P/normalization/normalizers.py` | none: `normalize_text`, `normalize_date`, `normalize_currency`, `normalize_decimal` |
| `CorrectionProjection` | `P/normalization/engine.py`, `P/correction/projection.py`, `app/schemas/normalization_persistence.py` | none: `normalize_invoice`, rows and back, `merge_correction` |
| `Writers` | external: what vendors print and reviewers type, and what they mean by it | none: `Amount`, `DateWriting`, `IsMeant` |
| `ReviewScreen` | `frontend/src/components/review-detail.tsx`, the correction request | `Load`, `Type`, `AddLine`, `RemoveLine`, `Refuse`, `Apply` |
| `MCWorkflow`, `MCClaims`, `MCStore`, `MCInvoices`, `MCRowLocks`, `MCFields` | | symmetry and sets of inputs for TLC |
| `SequenceLemmas`, `LedgerProofs`, `HistoryProofs`, `ChainProofs`, `DocumentStoreProofs`, `InvoiceProofs`, `LockProofs`, `FieldProofs` | | proofs (section 6) |

Choices worth knowing when comparing the workflow model with the code:

* A transaction is one step where nothing that others can commit between its
  reads and its commit changes what it reads or what it does.  Three things are
  committed without the document's lock: a correction's projection and its
  failure, the other stages' results, and what the recovery script writes.
  - A *stage's start* locks its source row, and the guard reads that row and
    the attempts made from it, which only a holder of that lock inserts.
    (Normalizations are also inserted by projections; a COMPLETED one exists
    then, and a normalization is refused before and after.)  An attempt that
    fails or completes meanwhile can only have made a refusal out of date.
    A decision's start also reads whether its chain is current.  It changes no
    status and is checked again, so a projection that comes between is the same
    as one that comes right after it.
  - A *completion* of an extraction, a normalization or a validation writes its
    own row; what refuses it is a CHECK constraint at the write.
  - A *completing decision* and a *review* check that their chain is current
    and then write the document's status.  The document's lock keeps every
    decision and review and every first and last step of a correction out, but
    not a projection: it may be committed between the check
    (`decision/service.py:276`, `review/service.py:110`) and the commit
    (`:288`, `:141`).  So each is two steps, with the locks held in between:
    `RecheckSource` and `CompleteDecision`, `LockForReview` and `SubmitReview`
    (or `RollBackReview`; the variable `reviewing` is the decision whose review
    is open).  The lock admits one of them at a time.
  - A *correction's first transaction* reads the source chain before it looks
    for an active correction, and a projection or a failure may be committed in
    between.  It is two steps too.  `DocumentLocked` says that a transaction
    which is two steps holds the document.
  - A *correction's last transaction* reads nothing but its own row and what the
    request carries.
* A commit may take effect and still raise; the service then goes to its failure
  handler with the row already COMPLETED.  Every completing action has this
  second ending.
* Not every exception has a handler.  The commit that makes an attempt
  PROCESSING, the first reads of every `_complete`, the reload, `record_partial`
  and commit after a correction's validation (`correction/service.py:294-298`)
  and every `_mark_failed` lie outside the `try` blocks.  `Escapes`, and the
  actions named after it, are these: the request ends, or goes back to the
  correction that called the stage, and the row stays PROCESSING without a
  process having died.  `RecordValidation` has the ending in which its commit
  took effect first.
* The transition guard of `_complete` looks at the session's copy of the
  attempt, which still says PROCESSING; what refuses a late result is the CHECK
  constraint of the table, and the model says so.
* `WriteStatus` emits no UPDATE when the session already believes the status to
  be the new one.  This is how SQLAlchemy treats a same-value assignment, and it
  matters in both directions: it loses an escalation (finding 1), and it keeps a
  verdict given between a correction's re-decision and its last transaction
  (`VerdictStands`; the mutant `WriteFresh` shows it).

In the document store:

* A request is modelled step by step, one step per transaction or storage call,
  so that it can die in between, or meet another request.  A file is present or
  not: the local backend writes a temporary file and renames it, and an object
  is put whole.  `faulted` remembers the documents on which a process died or
  the storage failed, which is what leftovers may be blamed on.
* A commit may take effect and raise.  Of an upload, the handler then removes
  the file of a row that is there and answers with an error; `unacked` remembers
  these rows.  Of a deletion, the row is gone and the file stays, which
  `faulted` remembers.
* `leftover` are the documents of which an abandoned migration may have left a
  copy in the bucket.  `WritesStopped` is the runbook's order to stop uploads and
  deletions before the migration.

In the duplicate search:

* A row has two times: `completed_at`, which the code stamps before it flushes,
  and the moment its commit makes it visible to others' queries
  (`committed_at`, no column of the code).  The search compares the first with
  the validation's `started_at` and sees only rows that are past the second.
  One clock serves all processes: the model assumes that their clocks agree to
  the clock's resolution.
* A document has one COMPLETED extraction and a list of normalizations: the
  stage's, then those of corrections, which project over the same extraction.
  Everything happens on one date, `RunDate`, a parameter.
* Amounts are integers, in thousandths of the currency unit, so that exact
  products of quantity and price and their rounding to a cent can be told apart.
  Dates are year, month and day, counted as `datetime.date` counts them.
* Deleting a document is not in this model: a deleted document is not decided.

In the row locks:

* A table is one row: a document has many attempts of a stage, but those that
  two transactions of the same document meet on are the current ones, and
  taking all of them for one row only makes more of them wait.
* A plan holds the locks in the order the statements, the unit of work's flush
  (which writes `documents` before the tables that refer to it), the foreign
  keys and the cascades take them.  A transaction may end after any of them, as
  its guards refuse.  What it reads and writes is left out.
* Waits on a unique index are left out.  They close no cycle: whoever inserts an
  attempt holds its source row `FOR UPDATE`, except a projection, and a
  normalization that could collide with one is refused before it inserts, since
  a COMPLETED one exists.
* Only one correction of a document is PROCESSING at a time, so only one client
  runs a correction's later transactions; that is taken from the workflow model
  (`OfTheCorrection`).

In the fields:

* A text is what the code tells apart in it: of a number its sign forms, the
  runs of digits, the separators between them and what is around them; of a date
  its numbers, their order and suffixes; of other text a word and whether
  cleaning changes it.  What is written is a text together with what its writer
  meant by it, which no operator that models code looks at.  `NumberTexts`,
  `DateTexts` and the like are all the texts there are, of any length; `Cases`
  names those of an instance.
* A decimal is a coefficient and a scale, as Python's are.  The blank between
  groups of digits is written `"space"`.
* A correction is one step: what its transactions do to each other is the
  workflow model's subject.  A field left blank is sent as null, as the page
  does.  Retrying a failed correction is not in this model.

## 3. Properties

* `DocumentTracksExtraction`: documents.status and the newest extraction agree.
* `OneResultPerSource`: a second attempt only after the first failed.
* `VerdictStands`: the verdict on the current decision is the document's status.
* `ReviewsResolveEscalations`: a review answers one escalation, once.
* `EscalationSticks`: after an escalation, never merely COMPLETED again.
* `StatusHasReason`: a final status has its reason on record.
* `NoCorrectionLost`: a correction starts from data with every earlier
  completed correction's merge in it.
* `CorrectionHasItsChain`: a COMPLETED correction points at one chain.
* `HistoryIsImmutable`: no terminal row changes, no row disappears.
* `NewestJudgementWins`: a document enters NEEDS_REVIEW, APPROVED or REJECTED
  only as its newest judgement says.  The data may be newer: a projection that is
  committed while a decision or a review is being written is overtaken by it, and
  the document is then APPROVED, say, with its current normalization undecided.
  What never happens is that a judgement on old data overrides one, finished or
  begun, on newer data.
* `VerdictReopenedOnlyByCorrection`: a verdict is reopened by new data only.
* `OnlyEscapesAbandon`: while no process dies, a step leaves a PROCESSING row
  behind, with no request at work on it, only if an exception escaped every
  `try`, and then one row: a correction outlives the stage it was running.
* `LifeCycle`: the whole of it is a life of a document as the outside knows it:
  an extraction is followed by its end; each escalation, verdict and correction
  happens once, and only they move a document that a person is in charge of.
* `RequestsEnd`, `DocumentLeavesProcessing`: liveness.

Of the document store:

* `LiveRowHasFile`: a row's file is in the backend the service uses, through
  failing commits, deletions and the cutover, unless the upload was answered
  with an error.
* `UnavailableOnlyIfDeleted`: a reader that found a row and then no file raced
  with a deletion, met a failing storage, or reads what an upload answered with
  an error left.
* `OrphanNeedsFault`: a file without a row on which nobody works needs a process
  that died, a storage that failed, a deletion that was not acknowledged or a
  migration that was abandoned.
* `FailedUploadLeavesAtMostItsRow`: what an upload answered with an error may
  leave: its row, only if the commit took effect and raised, and its file, in
  either backend, only if the storage failed or the process died.

Of the duplicate search, the rules and the decision:

* `DuplicatesAreReviewed`: of two decided documents that carry one invoice, at
  least one was sent to a human, however the requests interleave and whatever
  corrections replaced.
* `MatchesAreLive`: a match is another document's invoice, finished when the
  search's attempt started and not replaced by then.
* `RoundingIsTolerated`: the three arithmetic rules never hold an invoice whose
  vendor rounded exact amounts to the cent, for any number of lines.
* `AcceptedInvoiceAddsUp`: an accepted invoice whose lines all have totals adds
  up from them, with or without a subtotal and a tax: the lines and the tax, none
  if it is absent, make the total, to a cent for each line and one for the total.
  The exception is in the code: where a subtotal is printed and no tax, the lines
  are compared with the subtotal (`LineSumTarget`) and the totals are not compared
  (`TotalsDoNotReconcile` needs all three), so nothing ties either to the total.
  If all three totals are known they add up, whatever the lines say.
* `CreditNoteIsTreatedAlike`: an invoice with all amounts negated gets the same
  findings.

Of the row locks:

* `DeadlocksNeedAnOutsider`: stages and corrections alone never deadlock.
* `HandlersAreNotAborted`: the transaction that records a failure is in no
  deadlock except with the recovery script, for nothing would record *its*
  failure.
* `TransactionsEnd`: whoever asks for a connection is answered.

Of the fields:

* `AuditLogReplays`: the entries of all corrections, applied to the first
  normalization, give the current invoice.
* `UntouchedFieldsKeep`: a field whose text the reviewer left as the page showed
  it keeps its value and its error, whoever else corrects the invoice.
* `MeaningIsKeptOrFlagged`: a text written as the policy documents is read as it
  was meant; any other is read as it was meant, flagged, or ambiguous in the two
  ways the policy decides (`ReadByPolicy`).

## 4. Runs

The workflow runs use one document and interchangeable workers; the bounds limit
how many attempts clients may *start* per table (the pipeline and corrections
add theirs within the bounds on extractions and corrections).

| Run | Bounds (extr., norm., val., dec., corr.) | Shows |
|---|---|---|
| `live_recovery` | 2 workers; 2, 2, 2, 2, 1; recovery beside running workers | types and `IInv`; no source gets two results, the document follows its extraction and no terminal row changes, however starts, retries, late results, crashes and recoveries interleave |
| `corrections` | 2 workers; 1, 0, 0, 0, 3 | everything about reviews and corrections, crashes and recovery included |
| `current_chain` | 2 workers; 2, 0, 0, 2, 2; recovery, no crash (`AttendedSpec`) | direct decision requests and reviews racing with corrections whose projections come between check and commit; what an escaped exception costs; that the workflow implements `DocumentLife` |
| `service` | 2 workers; 2, 0, 0, 0, 2; `FairSpec`, crashes included | every request ends; with an operator, neither a crash nor an escaped exception leaves the document PROCESSING |
| `claim_queued` | 2 workers; small | finding 1 of section 5 |
| `claim_failed` | 2 workers; 1, 0, 0, 0, 1; no crash, no recovery (`ServiceSpec`) | finding 2 |

| Run | Instance | Shows |
|---|---|---|
| `store` | 3 documents, 2 requests at a time; `WritesStopped` true; any commit may take effect and raise | row and file stay in step, or the reason is on record, through races, failures, lost acknowledgements, dying requests, the migration and the cutover |
| `duplicates` | 2 documents, 3 invoices of which two are copies; clock 0..1, 2 normalizations per document, 1 validation of each | of two copies one goes to a human; `SearchIInv`, which section 6 proves inductive |
| `rules` | 1 document, one validation; invoices with up to 4 lines whose amounts are exact, rounded, off by less or more than the tolerances, absent, or large; dates at both ends of each rule's range around a 29 February | the rules together with the decision |
| `locks` | 3 clients, 2 connections; any transaction, any number of times | who can deadlock, who cannot, and that everybody ends |
| `fields` | 2 reviewers, 2 corrections, 2 edits of each draft; a behaviour per way to write an amount or a date, and invoices with up to 2 lines | what is read, shown, typed, merged and recorded; `ScreenIInv`, which section 6 proves inductive |
| `claim_draft` | 1 reviewer, 2 corrections | finding 3 |

Why the bounds are enough: the races of the workflow are between two requests,
with a reviewer and the recovery script as further actors that need no worker.
Two extractions are one failure and its retry, after which no extraction can
start; two corrections are one and the one that supersedes it, and three add a
retry between them.  The window of `NewestJudgementWins` takes one correction that
projects and one request or reviewer at its commit; with two corrections the
first's chain is the one that is overtaken. Larger instances were tried once: three workers with two
corrections, 2, 2, 2, 2, 2 with two workers (3.7 million states), and
`live_recovery` with 2, 2, 2, 0, 2 (1.3 million); nothing changed. Documents of
the store do not interact, except that the migration's worklist holds several;
three of them are one copied, one uploaded and one deleted meanwhile. In
`duplicates`, two stamps are enough for "before" and "at the same time", and two
normalizations for a replaced one; the two invariants are proved for every value
of the constants anyway. The bounds are `MaxTime`, `MaxNormalizations` and
`MaxValidations`.  In `locks`, a cycle of three needs three connections, but
`OnlyOutsidersDeadlock` is proved for all numbers, and with three clients and two
connections one waits for the pool while two wait for each other; four clients
with three connections (2.3 million states) were tried for the invariants.  In `fields`
(`MaxEdits`, `MaxCorrections`), a second
correction meets what the first left, and a second edit undoes or
completes the first; the ways of writing are enumerated one by one, and the
properties are proved for every text and any number of corrections anyway.

With `WritesStopped = FALSE`, `LiveRowHasFile` fails in a few steps: an upload
that commits after the script has read its list is not copied, and the cutover
makes its row point at nothing.  The runbook's order to stop writes is needed.

With recovery applied beside running workers and *two* corrections,
`VerdictStands` and `NewestJudgementWins` fail: the script frees the way
for a second correction while the first is still computing.  That is the case
the runbook excludes ("Never run `--apply` while an old worker may still be
completing the selected rows"), so those properties are checked with
`RunbookFollowed = TRUE`; the run `live_recovery` shows what holds even without
it.

### Fairness

`RequestsProceed` is, for each request, strong fairness of the steps it takes
when it is not waiting for the document's lock to be released by a correction
that holds it: the event loop runs every request, provider calls time out, and
PostgreSQL serves the waiters of a row lock in order, so a request cannot be
passed over for ever by others that keep taking the lock.  Nothing forces a
waiting request to give up; that the lock is released is for the holder's
fairness to show.  `FairSpec` adds weak fairness of
`Recover`: the operator of the runbook.  Clients, reviewers and crashes are
under no fairness.

In `RowLocks`, `Fairness` is strong fairness of each client's progress: the pool
and the queue of a row lock serve their waiters in turn, the deadlock detector
runs, and a transaction that has all its locks commits.

`LifeCycle` is a safety property.  That an extraction ends is
`DocumentLeavesProcessing`; stated in the abstract specification it would need
ENABLED under the substitution of a set for `escalations`, which TLC does not
evaluate.

## 5. Findings

1. `claim_queued` (a bug).  A reviewer submits while a correction is
   re-deciding.  The correction's session holds the Document it loaded first;
   `lock_document` does not refresh it; it already says NEEDS_REVIEW, so writing
   NEEDS_REVIEW emits nothing.  The document stays APPROVED or REJECTED under a
   new, unreviewed NEEDS_REVIEW decision, in nobody's queue.
2. `claim_failed` (a bug).  After a correction's validation has been run again,
   the service reloads its row, records the validation and commits
   (`P/correction/service.py:294-298`), between two `try` blocks and in none.  An
   exception there, such as a lost connection, leaves the correction PROCESSING:
   `docs/stage-8-corrections.md:172-174` says that it is FAILED if "a persistence
   write failed".  The document then refuses every correction until an operator
   runs the recovery script, as after a crash.
3. `claim_draft`.  The page shows a field as `normalized ?? extraction`
   (`review-detail.tsx:74`).  Once a reviewer has emptied a field, the next draft
   shows the vendor's text there again and submits it with the rest: the
   correction records an entry for a field that reviewer did not touch, and puts
   back what was taken out.  `docs/stage-8-corrections.md:318-319` says "one row
   per field the reviewer actually changed".

More statements were met while modelling and have no run:

* `docs/stage-8-corrections.md:231` says a final status always has its decision
  behind it: a correction that fails after its projection leaves one over a chain
  with no decision.
* `docs/stage-8-corrections.md:178-179`: a retried correction starts from the
  document's current chain.  It starts from the source the failed one recorded,
  which is what `ensure_decision_is_current_source` then checks.
* `P/decision/service.py:263-268`: the chain is locked and checked again "so a
  newer chain cannot appear in that interval and then be overwritten by this
  stale decision's document-status update".  What is locked is the document and
  the validation, and a projection locks neither: a newer chain can appear, not
  yet decided, and the status is written.  The same holds of a review.
  `NewestJudgementWins` is what does hold: the *decision* on the newer chain has
  to wait, and is not overwritten.
* `api/documents.py:135-136` and 210-211: a failed upload leaves no row without
  a file.  One whose commit took effect and raised does.  Such a row shows in the
  listing and cannot be read, and the migration reports it as missing, which
  keeps the cutover from following until somebody deletes the document.
* What `AcceptedInvoiceAddsUp` excepts: an invoice with a subtotal, no tax and
  any total is accepted if its lines make the subtotal.  No document says that
  it is not; a missing tax is not a required field.

Two values do not survive being shown and sent back, and `UntouchedFieldsKeep`
excepts them (`Fragile`): an amount below a millionth, which `str(Decimal)`
writes with an exponent and the number grammar refuses, and a text whose
characters combine only after an invisible one between them was removed, since
NFC is applied before the removal.

A statement of the documents that needs no run: the runbook
(`docs/stage-9-runbook.md:221-223`) re-drives a failed normalization, validation
or decision attempt through the pipeline's routes.  Both begin with an
extraction, `START_FROM` and `RETRY_FROM` (`P/extraction/lifecycle.py:36-37`)
require UPLOADED and FAILED, and the document of such an attempt is COMPLETED or
later: the pipeline always refuses.

Two comments are out of date for the same reasons: `models/document.py:40-41`
(nothing takes a document out of APPROVED or REJECTED; a correction does) and
`decision/lifecycle.py:145-148` (a stale validation is unreachable; a
correction's projection makes one).

## 6. Proofs

### The workflow of one document

For every set of workers and all bounds, from the assumption
`LedgerAssumption` (the bounds are naturals) alone:

* `InductiveInvariant`: `Spec => []IInv`.  `TypeOK` is not inductive: a
  transaction indexes a table with what the request carried over from an earlier
  one.  `IInv` adds `RequestHoldsItsRows` (what a request carries names a row of
  the right table, and a COMPLETED one where the next transaction needs that)
  and `SourcesCompleted` (every row's source exists and is COMPLETED, so the
  walk from a decision back to its extraction is defined).  Requests survive
  each other's steps because tables only grow and COMPLETED rows stay COMPLETED.
* `TypeCorrect`: `Spec => []TypeOK`, and `ChainIsGrounded`:
  `Spec => []SourcesCompleted`, from it.
* `DocumentNeverDisagrees`: `Spec => []DocumentTracksExtraction`.  The
  strengthening, `ExtractionsInOrder`, says that every extraction but the newest
  is FAILED; so an attempt a worker may still complete or fail is the newest
  one, a late result of an older attempt is refused, and a decision, review or
  correction (whose chain leads to a COMPLETED extraction) only ever moves a
  document that is past extraction.

`SequenceLemmas` has the facts about sequences; `LedgerProofs` begins with those
about `Latest` and the way one transaction changes one table, has a lemma per
action and puts them together in `NextPreserves`; its second half does the same
for the document.  All of them hold with recovery beside running
workers too: `RunbookFollowed` is either value.

`HistoryProofs` goes on from there, under the same assumption and for either
value of `RunbookFollowed`:

* `HistoryNeverRewritten`: `Spec => HistoryIsImmutable`.
* `WorkflowImplementsLife`: `Spec => LifeCycle`, the refinement: initial states
  map to initial states, and every step of every request is a step of
  `DocumentLife` or none.
* `EscalationsHold`, `ReviewsAnswerOnce`, `StatusesAreExplained`:
  `EscalationSticks`, `ReviewsResolveEscalations` and `StatusHasReason` hold in
  every reachable state.

They rest on `HistoryInv`, which adds three things to `DocumentInv`.  *Ownership*
(`OwnersInv`): an attempt being worked on is one request's, and that request has
not completed it, so a result is written once and an escalation joins the
abstract life once.  It holds of extractions, decisions and corrections; their
rows may be failed by the recovery script meanwhile, never completed.  *What a
session believes* (`SeenIsOrigin`, `SeenIsPast`): the stale status a correction
carries from its first transaction to its last is the one it started from, or
the NEEDS_REVIEW of its own new decision.  It may differ from the row, as finding
1 shows, but it is never less: a session that has seen a person in charge can
only meet a document a person is in charge of.  This is what makes the write over
a stale copy a step of the abstract life.  *The records* (`RecordsInv`):
a person is in charge exactly when some completed decision asked for one
(`EscalationsBehind`), reviews answer escalations, and statuses have reasons.
The records follow from the abstract step and the types alone, once every
transaction is shown to be one.

`ChainProofs` says what the attempts of a document are to each other:

* `SourcesHaveOneResult`: `Spec => []OneResultPerSource`.  A table only grows by
  an attempt whose source has none or a FAILED newest one (`NormsGrow`, `Grows`),
  and by projections, which are COMPLETED from the start; what is terminal does
  not change (`RowsKept`), so no earlier attempt comes back to life.
* `CorrectionsOwnTheirChain`: `Spec => []CorrectionHasItsChain`.  What the
  request of a correction carries from stage to stage was made from that
  correction's projection (`MadeFromProjection`), whoever else validates or
  decides on it meanwhile; a completed correction is never rewritten.
* `CorrectionsBuildOnEachOther`: `Spec => []NoCorrectionLost`.  The invariant is
  about the request that holds the document's lock between reading the chain and
  beginning its correction (`ReadersInv`): the decision it has read includes
  every completed correction, because nothing can complete one until it is done.
* `VerdictsAreFinal`: `Spec => []VerdictStands`, *if `RunbookFollowed = TRUE`*.
  A verdict on the current decision can only be overwritten by a decision or a
  correction that completes and is not itself the newest.  There is none: the
  correction that is still PROCESSING is the newest (`ActiveInv`), its projection
  is the newest of the projections (`ProjectionsInv`), and a request that
  finalizes the current decision writes nothing the session did not already
  believe.  The assumption is needed.  A script that fails a correction whose
  request is alive lets a second correction begin; the first one's late
  projection becomes current, and TLC finds a verdict overwritten then (the
  configuration of `corrections` with `RunbookFollowed = FALSE`).
* `NewestJudgementSettles`: `Spec => NewestJudgementWins`, under the same
  assumption, which TLC shows to be needed here too.  Whoever has checked that
  its chain is current holds the document from then on, and keeps the newest
  decision (`NewestInv`) although its data may no longer be the newest: a
  projection locks nothing, but the decision on it has to wait for the document.
  Of a correction that finalizes, its own decision is the newest because it is
  the only one at work (`ActiveInv`) and nobody projects after it
  (`ProjectionsInv`).
* `VerdictsReopenForCorrections`: `Spec => VerdictReopenedOnlyByCorrection`, with
  or without the runbook.  An open decision on the newest normalization cannot
  share it with the decision that was escalated (one result per source), so that
  normalization came later, and after a COMPLETED one only projections come.
* `EscapesAloneAbandon`: `AttendedSpec => OnlyEscapesAbandon`.  Of a transaction
  of request r it is enough that it `HandsOver`: every row that is open after it
  was open before and not r's, or is what r now works on; and a correction is
  carried along (`CarriesItsOwn`) until the step that closes it.  An escaped
  exception changes no row's status and lets go of one (`EscapesCost`).

### The document store

For every set of documents and clients, if nobody uploads or deletes during the
migration (`WritesStopped = TRUE`), without which TLC shows `LiveRowHasFile`
violated:

* `StoreInvariant`: `Spec => []StoreInv`, and from it `LiveRowsKeepTheirFiles`
  (`LiveRowHasFile`) and `UnavailableMeansDeleted`
  (`UnavailableOnlyIfDeleted`).
* `OrphansAreExplained` (`OrphanNeedsFault`) and `FailedUploadsAreExplained`
  (`FailedUploadLeavesAtMostItsRow`).

`StoreInv` adds to the properties what their steps rely on: two uploads never
hold one document, a request past `SaveFile` has its file, one that
cleans up has no row, and the migration accounts for every row: it is still on
the list, missing, being copied, or in the bucket.  `Cutover` then follows from
an empty list and nothing missing.  `LeftoverInv` is the other direction: every
file without a row is one a request is at work on (`FilesHandled`), a faulted
document's or left over from an abandoned migration, the uuid of an upload is
fresh in every backend, what the bucket has before the cutover was copied for a
row (`CopiesHaveRows`), and a row under an upload that is being undone was
committed by a commit that raised (`FailuresExplained`).

### The duplicate search

`InvoiceProofs`, for every number of documents, every set of invoices and every bound, from
`SearchAssumption`:

* `SearchInvariant`: `Spec => []SearchIInv`.
* `DuplicatesNeverBothAccepted`: `Spec => []DuplicatesAreReviewed`.
* `MatchesNeverStale`: `Spec => []MatchesAreLive`.

`DuplicatesAreReviewed` speaks of decided documents and is not inductive.  Take
two validations, v of document d and w of e, of copies that are both current.
Their rows were committed before they started (`Grounded`, for validation
refuses an uncommitted source).  If e's row was completed by the time v started,
v's search, which reads after its start, has found it as the newest one it may
see.  Otherwise w started later than v, and d's row was committed, so completed,
before: w has found that.  `SearchIInv` keeps this as `SearchesAgree`, with
`SawThePast` for a search that finished before the other row's validation did
anything, and `StampsInOrder` for the times.  A row that is replaced drops out
of the premise; a new one is later than every search.  Sameness of invoices is
symmetric (`SameInvoiceSymmetric`), which the rule "tax ids where both are
known, else names" is and a rule that prefers one side's data would not be
(the mutant `TaxIdFirst`).

The invariant proved is `VerdictIInv`, which is `SearchIInv` with one thing more,
`Reproducible`: a verdict's findings are what the rules make of the normalization
it names.  It carries a fact about the rules over to every verdict in every
reachable state, which the next three theorems use.

### The amounts

For every set of invoices, with any number of lines and any amounts, from
`SearchAssumption`:

* `AcceptedAddsUp`: `Spec => []AcceptedInvoiceAddsUp`.
* `RoundingTolerated`: `Spec => []RoundingIsTolerated`.
* `CreditNotesTreatedAlike`: `Spec => []CreditNoteIsTreatedAlike`.

All three speak of sums over lines.  `SequenceLemmas` gets induction without the
library's theorems that take a predicate as a parameter: a predicate becomes the
*set* where it holds, and `SubsetInduction` says that what
holds of the empty set, and of a set if it does of that set without any one
element, holds of every subset of a finite set.
`NaturalRecursion` and `FoldExists` show, by unions of partial solutions, that
the functions a recursive definition chooses exist at all.  From these follow
that a sum over lines is an integer (`SumIsInt`), that it changes sign with its
terms (`SumNegates`), and that sums of terms which differ by at most e differ by
at most e for each line (`SumsStayClose`).  The rest is what the rules compare:
the lines against the subtotal, what the total leaves of it, or the total, by
what is present (`ReconciledAddsUp`), a rounding that is within half a cent
(`RoundIsClose`), and each rule's comparison under a change of sign
(`MirroredFindings`).

### The row locks

For every set of clients and every pool, from `LocksAssumption` (there is a
connection); `LockInvariant`, `Spec => []LockInv`, is behind all three:

* `LocksTyped`: `Spec => []TypeOK`.  A client's requests are a prefix of one
  plan, and what it holds are locks.
* `OnlyOutsidersDeadlock`: `Spec => []DeadlocksNeedAnOutsider`.  Every plan of a
  stage or a correction takes the rows it locks in one order, validation,
  document, extraction, normalization, decision (`Rank`), except that a
  correction's own row is met by nobody else of them.  In a deadlocked set of
  such clients, take the one that waits for the row of highest rank: what blocks
  it holds that row, and so waits for a higher one.
* `HandlersSurvive`: `Spec => []HandlersAreNotAborted`.  It speaks of cycles,
  that is of minimal deadlocked sets, in which everybody is waited for by
  another (`CycleMembersAreWaitedFor`): a member that nobody waits for could be
  left out.  A handler waited for holds a lock and wants another, so it is the
  one that records a failed extraction, with the document and waiting for the
  extraction (`HandlerRows`: the others lock one row).  Whoever holds an
  extraction against that and goes on to lock more is the script, or a deletion,
  which would have the document too (`ExtractionLockedOnTheWay`).

`LockInv` says that what a client holds are the locks its plan has passed
(`HeldInPlan`), all but those it passed over (`AskedIsHeld`), that no two clients
hold locks in conflict (`NoConflict`), and that one correction runs
(`OneCorrection`).

### The fields of one document

For every set of reviewers, all bounds, and whatever is printed and typed: texts
of any length, decimals of any size, any date.  The assumptions are
`AbsentAssumption` (`Null` is none of the values), `CurrencyAssumption`
(`APPROVED_CURRENCY_CODES` are strings) and `ScreenAssumption` (what `Cases`
offers is written by somebody, in the sense of `Writers`):

* `ScreenInvariant`: `Spec => []ScreenIInv`.  The properties are about what was
  read, shown and recorded; none of them is inductive.  `ScreenIInv` says where
  everything comes from: every normalization is what the engine made of the
  extraction or of the draft before it, through the rows and back (`ChainIsKept`),
  and a draft holds only what was shown or typed (`PagesAreDrafts`).
* `ScreenTypeInvariant`: `Spec => []TypeOK`.
* `UntouchedFieldsStay`: `Spec => []UntouchedFieldsKeep`.
* `AuditLogIsComplete`: `Spec => []AuditLogReplays`.
* `MeaningIsNotLost`: `Spec => []MeaningIsKeptOrFlagged`.

The lemmas go from a value outwards.  `NormalizeResult`: a normalizer returns
absence, an error, or a value of its kind.  `ShownIsRead` and `ShownKeeps`: what
the page shows of a value is a text the same normalizer accepts, and gives an
equal value back, unless the value is `Fragile`; `ShownFailsAgain`: an extracted
text that came to nothing is read again as it was.  `RowsRoundTrip`: an invoice of any number of
lines, kept as rows and read back, is the same.  `ReplayStep`: a correction's
entries, applied to the invoice it was made from, give its result, however many
lines were added or removed; the numbers of lines need the cardinality of the
entries of each kind (`LineEntriesCounted`).  `AuditLogReplays` then chains these
by an induction over the corrections, for which equality of decimals has to be
transitive (`SameDecimalTransitive`: two decimals are equal when they are at any
common scale).  `LayoutIsRead` goes through the conventions of writing an amount
with any number of groups, `DateIsUnderstood` through the forms of a date.

`Pow10`, `Digits` and the `replayed` of `AuditLogReplays` are recursive
functions; that they exist and unfold is proved (`Pow10Unfolds`, `DigitsUnfold`,
`ReplayExists`), from `NaturalRecursion`.

### Only model-checked

Every safety and action property that a passing run checks is proved.  Liveness
under fairness (`RequestsEnd`, `DocumentLeavesProcessing`, `TransactionsEnd`) is
out of the prover's reach, and so are the two claims of section 5, of which a
run shows that they do not hold.

## 7. Plan

1. Deletion of a document in `Workflow`, under a running stage.
2. Fields and rules composed: what a correction supplies is what is validated.
3. The scoring of the evaluation harness (`evaluation/scoring.py`) against a
   reference definition.

## 8. Not modelled

The provider and PDF rendering (an external call that returns or raises), the
field-by-field mapping between rows and API schemas other than a normalized
invoice's, configuration, metrics, rate limits, migrations, the evaluation
harness, and the frontend's dashboard, which is a client that may ask for
anything at any time.  The checks of an upload's bytes and the listing routes
change nothing.  The duplicate search lets the result of a correction be any
invoice of a set; what a correction makes of an invoice is the fields model's.

A request that gets no connection for 30 seconds in the first statement of a
stage's last transaction, or of its failure handler, leaves its attempt
PROCESSING.  The workflow model has this as `Crash`: the same rows stay, and the
same script frees them.

The deletion of a document in `Workflow`: it takes its attempts along, so what a
stage still running for it finds next is no row to complete or to fail; the
request ends in an error and writes nothing.
