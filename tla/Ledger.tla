------------------------------- MODULE Ledger -------------------------------
(***************************************************************************)
(* The rows LedgerDrop keeps about one document, and the requests that are *)
(* working on it.                                                          *)
(*                                                                         *)
(* Every table is append-only, so a row is named by its place in its       *)
(* sequence and "highest attempt number for a source" is "latest row of    *)
(* that source".  A row's payload (invoice fields, findings, reasons) is   *)
(* abstracted away: no guard in the services reads it.                     *)
(*                                                                         *)
(* One step of a request is one database transaction.  Where what a        *)
(* transaction has checked can change before it commits (a correction's    *)
(* projection takes no lock), it is two steps: the checks, under the       *)
(* document's lock, and the write.                                         *)
(***************************************************************************)
EXTENDS Naturals, Sequences, FiniteSets

CONSTANTS
  Workers,             \* requests that can be in flight at once (the session pool)
  MaxExtractions,      \* bound on extraction attempts a client may start
  MaxNormalizations,   \* same, for direct normalization requests
  MaxValidations,      \* same, for direct validation requests
  MaxDecisions,        \* same, for direct decision requests
  MaxCorrections,      \* bound on correction attempts
  RunbookFollowed      \* recovery is applied only with every worker stopped

ASSUME LedgerAssumption ==
  /\ MaxExtractions \in Nat
  /\ MaxNormalizations \in Nat
  /\ MaxValidations \in Nat
  /\ MaxDecisions \in Nat
  /\ MaxCorrections \in Nat
  /\ RunbookFollowed \in BOOLEAN

VARIABLES
  docStatus,   \* documents.status
  exts,        \* invoice_extractions: the status of each attempt
  norms,       \* invoice_normalizations
  vals,        \* invoice_validations
  decs,        \* invoice_decisions
  reviews,     \* invoice_reviews
  corrs,       \* invoice_corrections
  reqs,        \* for each worker, where its request is
  reviewing    \* the decision under review by the open review transaction, or 0

tables == <<docStatus, exts, norms, vals, decs, reviews, corrs>>
vars   == <<tables, reqs, reviewing>>

-----------------------------------------------------------------------------
(* Row types *)

DocumentStatus == {"UPLOADED", "PROCESSING", "COMPLETED", "NEEDS_REVIEW",
                   "FAILED", "APPROVED", "REJECTED"}
AttemptStatus  == {"PROCESSING", "COMPLETED", "FAILED"}
Outcome        == {"ACCEPTED", "NEEDS_REVIEW"}
ReviewAction   == {"APPROVE", "REJECT"}
Action         == {"start", "retry"}

\* correction = 0: an attempt of the normalization engine; otherwise the
\* projection that correction wrote.
NormalizationAttempt == [source : Nat, status : AttemptStatus, correction : Nat]
ValidationAttempt    == [source : Nat, status : AttemptStatus]
DecisionAttempt      == [source : Nat, status : AttemptStatus,
                         outcome : Outcome \cup {"none"}]
ReviewRecord         == [decision : Nat, action : ReviewAction]

\* source is source_decision_id; the source normalization is that decision's.
\* norm, val, dec and result are the resulting_* columns, 0 / "none" for NULL.
CorrectionAttempt == [source : Nat, origin : DocumentStatus, status : AttemptStatus,
                      norm : Nat, val : Nat, dec : Nat,
                      result : DocumentStatus \cup {"none"}]

(***************************************************************************)
(* A request.  stage is the service it is inside, "idle" for a free        *)
(* worker.  via says who called that service: the client, the pipeline or  *)
(* a correction.  id is the attempt (or, at step "begin", the source) it   *)
(* works on and corr the correction.  seen is the status of the Document   *)
(* object in the session's identity map: expire_on_commit is off and       *)
(* SELECT ... FOR UPDATE does not refresh a loaded object, so it stays     *)
(* what the first SELECT of the session returned.                          *)
(***************************************************************************)
Stage == {"idle", "extraction", "normalization", "validation", "decision", "correction"}
Step  == {"begin", "run", "writing", "failing", "reading", "project", "record", "finalize"}
Via   == {"client", "pipeline", "correction"}

Request == [stage : Stage, step : Step, via : Via, id : Nat, corr : Nat,
            seen : DocumentStatus \cup {"unread"}]

Idle == [stage |-> "idle", step |-> "begin", via |-> "client", id |-> 0,
         corr |-> 0, seen |-> "unread"]

TypeOK ==
  /\ docStatus \in DocumentStatus
  /\ exts \in Seq(AttemptStatus)
  /\ norms \in Seq(NormalizationAttempt)
  /\ vals \in Seq(ValidationAttempt)
  /\ decs \in Seq(DecisionAttempt)
  /\ reviews \subseteq ReviewRecord
  /\ corrs \in Seq(CorrectionAttempt)
  /\ reqs \in [Workers -> Request]
  /\ reviewing \in Nat

LedgerInit ==
  /\ docStatus = "UPLOADED"
  /\ exts = <<>> /\ norms = <<>> /\ vals = <<>> /\ decs = <<>>
  /\ reviews = {}
  /\ corrs = <<>>
  /\ reqs = [r \in Workers |-> Idle]
  /\ reviewing = 0

-----------------------------------------------------------------------------
(* Queries of the repositories *)

AttemptsOf(table, s) == {i \in DOMAIN table : table[i].source = s}

\* The row with the highest attempt number for a source, 0 if there is none.
Latest(table, s) ==
  LET attempts == AttemptsOf(table, s) IN
  IF attempts = {} THEN 0 ELSE CHOOSE i \in attempts : \A j \in attempts : j <= i

LatestStatus(table, s) ==
  IF Latest(table, s) = 0 THEN "none" ELSE table[Latest(table, s)].status

HasActive(table, s) == \E i \in AttemptsOf(table, s) : table[i].status = "PROCESSING"

\* The newest row at every hop from the document down, whatever its status.
CurrentExtraction    == Len(exts)
CurrentNormalization == Latest(norms, CurrentExtraction)
CurrentValidation    == Latest(vals, CurrentNormalization)
CurrentDecision      == Latest(decs, CurrentValidation)

\* The chain a validation or a decision was computed from.
NormalizationOf(d) == vals[decs[d].source].source
ExtractionOf(n)    == norms[n].source

-----------------------------------------------------------------------------
(* Requests *)

At(r, stage, step) == reqs[r].stage = stage /\ reqs[r].step = step
IsIdle(r)          == reqs[r] = Idle

\* Every step of a worker's request ends here; none touches a review's.
Goto(r, request)   == reqs' = [reqs EXCEPT ![r] = request] /\ UNCHANGED reviewing
Finish(r)          == Goto(r, Idle)

\* The request enters a step of a stage; its correction and its view of the
\* document go with it.
Enter(r, stage, step, id) ==
  Goto(r, [reqs[r] EXCEPT !.stage = stage, !.step = step, !.id = id])

(***************************************************************************)
(* A transaction that has locked the documents row and not yet committed   *)
(* keeps every other transaction that locks or updates the row waiting:    *)
(* a correction that is reading the chain, a decision about to write its   *)
(* outcome, a review.  The others that lock the row are single steps: what *)
(* they check, only a holder of one of their locks could change.           *)
(***************************************************************************)
HoldsDocument(r) == At(r, "correction", "reading") \/ At(r, "decision", "writing")

DocumentLocked == reviewing # 0 \/ \E r \in Workers : HoldsDocument(r)

\* What the session believes documents.status to be.
Seen(r) == IF reqs[r].seen = "unread" THEN docStatus ELSE reqs[r].seen

\* Mutant: the row is always updated, as if it had been read again.
WriteFresh(r, status) == docStatus' = status

\* The UPDATE the session emits: none when the attribute is set to the value
\* it already has.
WriteStatus(r, status) == docStatus' = IF status = Seen(r) THEN docStatus ELSE status

\* Mutant: the constraint does not exist.
NoCheckConstraint(status) == TRUE

\* CHECK status_fields_consistent, which every attempt table has: a row that
\* has a failure_code cannot become COMPLETED.  It is what refuses a late
\* result; the transition guard looks at the session's own copy of the row.
MayBecomeCompleted(status) == status # "FAILED"

\* ensure_attempt_transition, the same in every stage: PROCESSING is the only
\* status with successors.
EnsureAttemptTransition(status) == status = "PROCESSING"

\* The producer, the evaluation or the write of the result raised before
\* anything was committed: the service turns to _mark_failed.
GiveUp(r, stage) ==
  /\ At(r, stage, "run")
  /\ Enter(r, stage, "failing", reqs[r].id)
  /\ UNCHANGED tables

\* An exception that no try of the stage covers: the commit that made the
\* attempt PROCESSING took effect and still raised, _complete's first reads
\* raised, or _mark_failed itself did.  The attempt stays PROCESSING.
Escapes(r, stage) ==
  /\ At(r, stage, "run") \/ At(r, stage, "failing")
  /\ UNCHANGED tables

=============================================================================
