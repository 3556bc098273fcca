------------------------- MODULE CorrectionService -------------------------
(***************************************************************************)
(* A reviewer's correction: a row in invoice_corrections, a projected      *)
(* normalization, and a re-run of validation and decision on it, all in    *)
(* one session but in up to nine transactions.  The document is locked     *)
(* only in the first, and again while the last writes the document status. *)
(***************************************************************************)
EXTENDS DecisionService

CORRECTABLE_DOCUMENT_STATUSES == {"COMPLETED", "NEEDS_REVIEW", "APPROVED", "REJECTED"}

EnsureDocumentCanBeCorrected(status) == status \in CORRECTABLE_DOCUMENT_STATUSES

ActiveCorrection == \E c \in DOMAIN corrs : corrs[c].status = "PROCESSING"

\* Mutant: an accepted correction always leaves a COMPLETED document.
AcceptedIsCompleted(origin, outcome) ==
  IF outcome = "NEEDS_REVIEW" THEN "NEEDS_REVIEW" ELSE "COMPLETED"

\* Mutant: a verdict survives a correction that needs review.
VerdictKept(origin, outcome) ==
  CASE outcome = "NEEDS_REVIEW" /\ origin = "APPROVED" -> "APPROVED"
    [] outcome = "NEEDS_REVIEW" /\ origin # "APPROVED" -> "NEEDS_REVIEW"
    [] OTHER -> IF origin = "COMPLETED" THEN "COMPLETED" ELSE "APPROVED"

\* The auto-accept / return-to-review matrix.
ResolveDocumentStatus(origin, outcome) ==
  CASE outcome = "NEEDS_REVIEW"                       -> "NEEDS_REVIEW"
    [] outcome = "ACCEPTED" /\ origin = "COMPLETED" -> "COMPLETED"
    [] outcome = "ACCEPTED" /\ origin # "COMPLETED" -> "APPROVED"

\* The request holds the document lock and has read the decision it will
\* correct; its session's Document object says what the row says now.
LockForCorrection(r, d) ==
  /\ IsIdle(r)
  /\ ~DocumentLocked
  /\ Len(corrs) < MaxCorrections
  /\ EnsureDocumentCanBeCorrected(docStatus)
  /\ d # 0 /\ decs[d].status = "COMPLETED"
  /\ Goto(r, [stage |-> "correction", step |-> "reading", via |-> "correction",
              id |-> d, corr |-> 0, seen |-> docStatus])
  /\ UNCHANGED tables

\* submit: the decision the reviewer names must be the current one.
SubmitCorrection(r) == LockForCorrection(r, CurrentDecision)

\* Mutant: a failed correction that a newer one superseded can be retried.
AnyFailedCorrection(c) == corrs[c].status = "FAILED"

MayRetryCorrection(c) == corrs[c].status = "FAILED" /\ c = Len(corrs)

\* retry: from the source the failed correction recorded.
RetryCorrection(r) ==
  \E c \in DOMAIN corrs :
    /\ MayRetryCorrection(c)
    /\ LockForCorrection(r, corrs[c].source)

\* The rest of the first transaction.  The chain was read before this check:
\* what other corrections commit without the lock can fall in between.
BeginCorrection(r) ==
  /\ At(r, "correction", "reading")
  /\ ~ActiveCorrection
  /\ corrs' = Append(corrs, [source |-> reqs[r].id, origin |-> reqs[r].seen,
                             status |-> "PROCESSING", norm |-> 0, val |-> 0,
                             dec |-> 0, result |-> "none"])
  /\ Goto(r, [reqs[r] EXCEPT !.step = "project", !.corr = Len(corrs) + 1])
  /\ UNCHANGED <<docStatus, exts, norms, vals, decs, reviews>>

\* Mutant: the request waits for the active correction instead.
WaitForActive(r) ==
  /\ At(r, "correction", "reading")
  /\ ~ActiveCorrection
  /\ Finish(r)
  /\ UNCHANGED tables

\* CORRECTION_IN_PROGRESS, CORRECTION_EMPTY or CORRECTION_INVALID.
RejectCorrection(r) ==
  /\ At(r, "correction", "reading")
  /\ Finish(r)
  /\ UNCHANGED tables

\* persist_projection and record_partial, in one transaction that locks
\* nothing; its commit may take effect and still raise.
ProjectCorrection(r) ==
  LET c == reqs[r].corr
      e == ExtractionOf(NormalizationOf(reqs[r].id))
      n == Len(norms) + 1
  IN
  /\ At(r, "correction", "project")
  /\ norms' = Append(norms, [source |-> e, status |-> "COMPLETED", correction |-> c])
  /\ corrs' = [corrs EXCEPT ![c].norm = n]
  /\ \/ Enter(r, "validation", "begin", n)
     \/ Enter(r, "correction", "failing", 0)
  /\ UNCHANGED <<docStatus, exts, vals, decs, reviews>>

\* record_partial after the validation's own transactions, outside every
\* try: if its commit takes effect and still raises, the request is over.
RecordValidation(r) ==
  LET v == reqs[r].id IN
  /\ At(r, "correction", "record")
  /\ corrs' = [corrs EXCEPT ![reqs[r].corr].val = v]
  /\ \/ IF vals[v].status = "FAILED" THEN Enter(r, "correction", "failing", 0)
                                     ELSE Enter(r, "decision", "begin", v)
     \/ Finish(r)
  /\ UNCHANGED <<docStatus, exts, norms, vals, decs, reviews>>

(***************************************************************************)
(* The last transaction.  lock_document returns the Document object the    *)
(* session has held since the first one, so the status is written only if  *)
(* it differs from what that object says.  CHECK status_fields_consistent  *)
(* refuses a correction already FAILED.                                    *)
(***************************************************************************)
FinalizeCorrection(r) ==
  LET c == reqs[r].corr
      d == reqs[r].id
      new == ResolveDocumentStatus(corrs[c].origin, decs[d].outcome)
  IN
  /\ At(r, "correction", "finalize")
  /\ ~DocumentLocked
  /\ MayBecomeCompleted(corrs[c].status)
  /\ corrs' = [corrs EXCEPT ![c] = [@ EXCEPT !.status = "COMPLETED", !.result = new,
                  !.norm = NormalizationOf(d), !.val = decs[d].source, !.dec = d]]
  /\ WriteStatus(r, new)
  /\ \/ Finish(r)
     \/ Enter(r, "correction", "failing", 0)
  /\ UNCHANGED <<exts, norms, vals, decs, reviews>>

\* Projecting or finalizing raised.
CorrectionRaises(r) ==
  /\ At(r, "correction", "project") \/ At(r, "correction", "finalize")
  /\ Enter(r, "correction", "failing", 0)
  /\ UNCHANGED tables

(***************************************************************************)
(* An exception that no try covers: the first commit took effect and still *)
(* raised ("project"), the reload or the commit that records the           *)
(* validation raised ("record"), or _mark_failed did.  Nobody is left to   *)
(* fail the correction: it stays PROCESSING.                               *)
(***************************************************************************)
CorrectionEscapes(r) ==
  /\ At(r, "correction", "project") \/ At(r, "correction", "record")
       \/ At(r, "correction", "failing")
  /\ Finish(r)
  /\ UNCHANGED tables

\* _mark_failed locks nothing and leaves the document alone.
MarkCorrectionFailed(r) ==
  LET c == reqs[r].corr IN
  /\ At(r, "correction", "failing")
  /\ corrs' = IF EnsureAttemptTransition(corrs[c].status)
                THEN [corrs EXCEPT ![c].status = "FAILED"] ELSE corrs
  /\ Finish(r)
  /\ UNCHANGED <<docStatus, exts, norms, vals, decs, reviews>>

=============================================================================
