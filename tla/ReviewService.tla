--------------------------- MODULE ReviewService ---------------------------
(***************************************************************************)
(* The human review: one transaction that locks the decision and the       *)
(* document, checks that the decision is the current one, and writes the   *)
(* verdict and the document's status.  A correction's projection, which    *)
(* locks nothing, can be committed between the checks and the write.  The  *)
(* session is fresh, so what it sees of the document is the row.           *)
(***************************************************************************)
EXTENDS Ledger

\* Mutant: the action's own name is stored.
ActionAsStatus(action) == action

\* Mutant: the verdicts are swapped.
SwappedVerdict(action) == IF action = "REJECT" THEN "APPROVED" ELSE "REJECTED"

DocumentStatusForAction(action) == IF action = "APPROVE" THEN "APPROVED" ELSE "REJECTED"

Reviewed(d) == \E rec \in reviews : rec.decision = d

\* Mutant: an ACCEPTED decision can be reviewed too.
ReviewAnyOutcome(d) == decs[d].status = "COMPLETED" /\ ~Reviewed(d)

EnsureDecisionCanBeReviewed(d) ==
  /\ decs[d].status = "COMPLETED" /\ decs[d].outcome = "NEEDS_REVIEW"
  /\ ~Reviewed(d)

EnsureDocumentAwaitingReview(status) == status = "NEEDS_REVIEW"

\* ensure_decision_is_current_source: every hop, and the decision is the
\* latest of its validation.
DecisionIsCurrentSource(d) ==
  /\ d = Latest(decs, decs[d].source)
  /\ ExtractionOf(NormalizationOf(d)) = CurrentExtraction
  /\ NormalizationOf(d) = CurrentNormalization
  /\ decs[d].source = CurrentValidation

\* submit up to its checks; from here the transaction holds both locks.
\* Note that a correction in progress is not an obstacle.
LockForReview(d) ==
  /\ ~DocumentLocked
  /\ EnsureDecisionCanBeReviewed(d)
  /\ EnsureDocumentAwaitingReview(docStatus)
  /\ DecisionIsCurrentSource(d)
  /\ reviewing' = d
  /\ UNCHANGED <<tables, reqs>>

SubmitReview(action) ==
  /\ reviewing # 0
  /\ reviews' = reviews \cup {[decision |-> reviewing, action |-> action]}
  /\ docStatus' = DocumentStatusForAction(action)
  /\ reviewing' = 0
  /\ UNCHANGED <<exts, norms, vals, decs, corrs, reqs>>

\* The flush or the commit raised, or the process died.
RollBackReview ==
  /\ reviewing # 0
  /\ reviewing' = 0
  /\ UNCHANGED <<tables, reqs>>

\* The review queue's query.
InQueue(d) ==
  /\ decs[d].status = "COMPLETED" /\ decs[d].outcome = "NEEDS_REVIEW"
  /\ docStatus = "NEEDS_REVIEW"
  /\ ~Reviewed(d)
  /\ ExtractionOf(NormalizationOf(d)) = CurrentExtraction
  /\ NormalizationOf(d) = CurrentNormalization
  /\ decs[d].source = CurrentValidation
  /\ d = Latest(decs, decs[d].source)

=============================================================================
