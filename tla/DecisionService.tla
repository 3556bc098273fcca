-------------------------- MODULE DecisionService --------------------------
(***************************************************************************)
(* One decision attempt for a completed validation.  Both of its           *)
(* transactions lock the validation and the document and check that the    *)
(* validation is on the document's current chain; the second also writes   *)
(* documents.status, through the Document object the session holds.        *)
(***************************************************************************)
EXTENDS ValidationService

EnsureValidationCanDecide(validation, latest, action) ==
  validation = "COMPLETED" /\ MayAttempt(latest, action)

\* Mutant: only the extraction is compared.
ExtractionIsCurrent(v) == ExtractionOf(vals[v].source) = CurrentExtraction

\* ensure_validation_is_current_source: its extraction and normalization are
\* the document's newest.  (That the validation is the newest of its
\* normalization is not asked.)
ValidationIsCurrentSource(v) ==
  /\ ExtractionOf(vals[v].source) = CurrentExtraction
  /\ vals[v].source = CurrentNormalization

\* Mutant: an accepted decision settles the document.
AcceptedSettles(outcome) ==
  IF outcome = "NEEDS_REVIEW" THEN "NEEDS_REVIEW" ELSE "COMPLETED"

\* "none" stands for leaving documents.status as it is.
DocumentStatusForOutcome(outcome) ==
  IF outcome = "NEEDS_REVIEW" THEN "NEEDS_REVIEW" ELSE "none"

MayDecide(v, action) ==
  /\ EnsureValidationCanDecide(vals[v].status, LatestStatus(decs, v), action)
  /\ ValidationIsCurrentSource(v)
  /\ ~HasActive(decs, v)

BeginDecision(r, v, action) ==
  /\ v \in DOMAIN vals
  /\ ~DocumentLocked
  /\ MayDecide(v, action)
  /\ decs' = Append(decs, [source |-> v, status |-> "PROCESSING", outcome |-> "none"])
  /\ Goto(r, [reqs[r] EXCEPT !.stage = "decision", !.step = "run",
                             !.id = Len(decs) + 1, !.seen = Seen(r)])
  /\ UNCHANGED <<docStatus, exts, norms, vals, reviews, corrs>>

RequestDecision(r, v, action) ==
  /\ IsIdle(r)
  /\ Len(decs) < MaxDecisions
  /\ BeginDecision(r, v, action)

\* The Document object now says status; a correction goes on with it.
AfterDecision(r, status) ==
  IF reqs[r].via = "correction"
    THEN Goto(r, [reqs[r] EXCEPT !.stage = "correction", !.step = "finalize",
                                 !.seen = status])
    ELSE Finish(r)

DecisionError(r) ==
  IF reqs[r].via = "correction" THEN Enter(r, "correction", "failing", 0) ELSE Finish(r)

(***************************************************************************)
(* _complete, in one transaction: the source is locked and checked again   *)
(* ("writing" holds the locks), then the outcome is recorded.  A           *)
(* projection, which locks nothing, can be committed in between.           *)
(***************************************************************************)
RecheckSource(r) ==
  /\ At(r, "decision", "run")
  /\ ~DocumentLocked
  /\ ValidationIsCurrentSource(decs[reqs[r].id].source)
  /\ Enter(r, "decision", "writing", reqs[r].id)
  /\ UNCHANGED tables

CompleteDecision(r) ==
  LET d == reqs[r].id IN
  /\ At(r, "decision", "writing")
  /\ MayBecomeCompleted(decs[d].status)
  /\ \E outcome \in Outcome :
       LET new == DocumentStatusForOutcome(outcome) IN
       /\ decs' = [decs EXCEPT ![d].status = "COMPLETED", ![d].outcome = outcome]
       /\ IF new = "none" THEN UNCHANGED docStatus ELSE WriteStatus(r, new)
       /\ \/ AfterDecision(r, IF new = "none" THEN reqs[r].seen ELSE new)
          \/ Enter(r, "decision", "failing", d)
  /\ UNCHANGED <<exts, norms, vals, reviews, corrs>>

\* The evaluation or the write raised, or the chain is no longer current.
DecisionRaises(r) ==
  /\ At(r, "decision", "run") \/ At(r, "decision", "writing")
  /\ Enter(r, "decision", "failing", reqs[r].id)
  /\ UNCHANGED tables

DecisionEscapes(r) == Escapes(r, "decision") /\ DecisionError(r)

\* Mutant: a technical failure is also written on the document.
MarkDocumentFailedToo(r) ==
  /\ At(r, "decision", "failing")
  /\ decs' = IF EnsureAttemptTransition(decs[reqs[r].id].status)
               THEN [decs EXCEPT ![reqs[r].id].status = "FAILED"] ELSE decs
  /\ DecisionError(r)
  /\ docStatus' = "FAILED"
  /\ UNCHANGED <<exts, norms, vals, reviews, corrs>>

\* _mark_failed never touches documents.status.
MarkDecisionFailed(r) ==
  /\ At(r, "decision", "failing")
  /\ decs' = IF EnsureAttemptTransition(decs[reqs[r].id].status)
               THEN [decs EXCEPT ![reqs[r].id].status = "FAILED"] ELSE decs
  /\ DecisionError(r)
  /\ UNCHANGED <<docStatus, exts, norms, vals, reviews, corrs>>

=============================================================================
