-------------------------- MODULE WorkflowProperties --------------------------
(***************************************************************************)
(* What LedgerDrop promises about a document and its history.              *)
(***************************************************************************)
EXTENDS Workflow

CompletedDecision(d) == d # 0 /\ decs[d].status = "COMPLETED"
Escalated(d) == CompletedDecision(d) /\ decs[d].outcome = "NEEDS_REVIEW"

\* Nothing is in flight and no crash left an attempt open.
AtRest ==
  /\ \A r \in Workers : IsIdle(r)
  /\ reviewing = 0
  /\ ~ActiveExtraction /\ ~ActiveCorrection
  /\ Processing(norms) = {} /\ Processing(vals) = {} /\ Processing(decs) = {}

-----------------------------------------------------------------------------
(* Invariants *)

\* documents.status says what the newest extraction attempt says, until that
\* attempt is COMPLETED (extraction/service.py writes both in one
\* transaction, at five places; the recovery script is a sixth).
DocumentTracksExtraction ==
  /\ docStatus = "UPLOADED" <=> exts = <<>>
  /\ \A status \in {"PROCESSING", "FAILED"} :
       docStatus = status <=> exts # <<>> /\ exts[Len(exts)] = status

\* A source gets a second attempt only after the first one failed, so it has
\* at most one open attempt and at most one result.  A normalization a
\* correction projected is not an attempt of the normalization stage.
OneResultPerSource ==
  /\ \A i, j \in DOMAIN exts : i < j => exts[i] = "FAILED"
  /\ \A i, j \in DOMAIN norms :
       i < j /\ norms[i].source = norms[j].source /\ norms[j].correction = 0
         => norms[i].status = "FAILED"
  /\ \A i, j \in DOMAIN vals :
       i < j /\ vals[i].source = vals[j].source => vals[i].status = "FAILED"
  /\ \A i, j \in DOMAIN decs :
       i < j /\ decs[i].source = decs[j].source => decs[i].status = "FAILED"

\* Once the document's current decision has been reviewed, documents.status
\* is the reviewer's verdict: no decision or correction that was already
\* under way overwrites it.
VerdictStands ==
  \A rec \in reviews :
    rec.decision = CurrentDecision => docStatus = DocumentStatusForAction(rec.action)

\* A review resolves a completed decision that asked for one, and a decision
\* is resolved once.
ReviewsResolveEscalations ==
  /\ \A rec \in reviews : Escalated(rec.decision)
  /\ \A rec1, rec2 \in reviews : rec1.decision = rec2.decision => rec1 = rec2

\* Once any decision asked for a review, the document is never again merely
\* COMPLETED: only a person's verdict or correction settles it.
EscalationSticks ==
  docStatus = "COMPLETED" => \A d \in DOMAIN decs : ~Escalated(d)

\* A final status has its reason on record: REJECTED a rejection, APPROVED
\* an approval or a completed correction that was accepted, NEEDS_REVIEW a
\* decision.
StatusHasReason ==
  /\ docStatus = "REJECTED" => \E rec \in reviews : rec.action = "REJECT"
  /\ docStatus = "APPROVED" =>
       \/ \E rec \in reviews : rec.action = "APPROVE"
       \/ \E c \in DOMAIN corrs : /\ corrs[c].status = "COMPLETED"
                                  /\ corrs[c].result = "APPROVED"
  /\ docStatus = "NEEDS_REVIEW" => \E d \in DOMAIN decs : Escalated(d)

\* Corrections run one after the other, and none is lost: once a correction
\* has COMPLETED, every later one starts from data that includes its merge
\* (the chain is read before the check that no correction is active).
NoCorrectionLost ==
  \A c1, c2 \in DOMAIN corrs : c1 < c2 =>
    /\ corrs[c1].status # "PROCESSING"
    /\ corrs[c1].status = "COMPLETED" =>
         corrs[c1].norm <= NormalizationOf(corrs[c2].source)

\* A COMPLETED correction points at one chain of completed attempts, made
\* from its own projection, whose outcome is what its result reports.
CorrectionHasItsChain ==
  \A c \in DOMAIN corrs : corrs[c].status = "COMPLETED" =>
    LET corr == corrs[c] IN
    /\ norms[corr.norm].correction = c
    /\ vals[corr.val].status = "COMPLETED" /\ vals[corr.val].source = corr.norm
    /\ CompletedDecision(corr.dec) /\ decs[corr.dec].source = corr.val
    /\ Escalated(corr.dec) <=> corr.result = "NEEDS_REVIEW"

-----------------------------------------------------------------------------
(* The inductive invariant *)

\* Every attempt was made from a source that had COMPLETED.
SourcesCompleted ==
  /\ \A n \in DOMAIN norms :
       norms[n].source \in DOMAIN exts /\ exts[norms[n].source] = "COMPLETED"
  /\ \A v \in DOMAIN vals :
       vals[v].source \in DOMAIN norms /\ norms[vals[v].source].status = "COMPLETED"
  /\ \A d \in DOMAIN decs :
       decs[d].source \in DOMAIN vals /\ vals[decs[d].source].status = "COMPLETED"
  /\ \A c \in DOMAIN corrs :
       corrs[c].source \in DOMAIN decs /\ decs[corrs[c].source].status = "COMPLETED"
  /\ \A d \in DOMAIN decs : decs[d].status = "COMPLETED" => decs[d].outcome # "none"

\* What a request carries from one transaction to the next still names a row
\* of the table the next one works on, and is fit for it.
RequestHoldsItsRows(q) ==
  /\ q.stage = "idle" => q = Idle
  /\ q.stage = "extraction" => q.step \in {"run", "failing"} /\ q.id \in DOMAIN exts
  /\ q.stage = "normalization" /\ q.step # "begin" => q.id \in DOMAIN norms
  /\ q.stage = "normalization" /\ q.step = "begin" => q.id \in DOMAIN exts
  /\ q.stage = "validation" /\ q.step # "begin" => q.id \in DOMAIN vals
  /\ q.stage = "validation" /\ q.step = "begin" => q.id \in DOMAIN norms
  /\ q.stage = "decision" /\ q.step # "begin" => q.id \in DOMAIN decs
  /\ q.stage = "decision" /\ q.step = "begin" => q.id \in DOMAIN vals
  /\ q.stage = "decision" /\ q.step # "begin" => q.seen # "unread"
  /\ q.stage = "correction" => q.via = "correction"
  /\ q.stage = "correction" /\ q.step \in {"reading", "project", "finalize"} =>
       q.id \in DOMAIN decs /\ decs[q.id].status = "COMPLETED"
  /\ q.stage = "correction" /\ q.step = "record" => q.id \in DOMAIN vals
  /\ q.via = "correction" => q.seen # "unread"
  /\ q.via = "correction" /\ q.step # "reading" => q.corr \in DOMAIN corrs

\* The open review, if there is one, is of a completed decision.
ReviewHoldsItsRow ==
  reviewing # 0 => reviewing \in DOMAIN decs /\ decs[reviewing].status = "COMPLETED"

IInv ==
  /\ TypeOK
  /\ SourcesCompleted
  /\ \A r \in Workers : RequestHoldsItsRows(reqs[r])
  /\ ReviewHoldsItsRow

-----------------------------------------------------------------------------
(* Action properties *)

\* A row that has reached a terminal status is never changed again, and no
\* row is ever taken away: not by a late result, not by a commit that took
\* effect but was reported lost, not by the recovery script.
HistoryIsImmutable ==
  [][/\ \A e \in DOMAIN exts : exts[e] # "PROCESSING" =>
          e \in DOMAIN exts' /\ exts'[e] = exts[e]
     /\ \A n \in DOMAIN norms : norms[n].status # "PROCESSING" =>
          n \in DOMAIN norms' /\ norms'[n] = norms[n]
     /\ \A v \in DOMAIN vals : vals[v].status # "PROCESSING" =>
          v \in DOMAIN vals' /\ vals'[v] = vals[v]
     /\ \A d \in DOMAIN decs : decs[d].status # "PROCESSING" =>
          d \in DOMAIN decs' /\ decs'[d] = decs[d]
     /\ \A c \in DOMAIN corrs : corrs[c].status # "PROCESSING" =>
          c \in DOMAIN corrs' /\ corrs'[c].status = corrs[c].status
     /\ reviews \subseteq reviews'
    ]_vars

\* d is a completed decision, and no decision, finished or not, is about newer
\* data.  (There may be newer data: a correction's projection locks nothing.)
NewestJudgement(d) ==
  /\ CompletedDecision(d)
  /\ \A e \in DOMAIN decs : NormalizationOf(e) <= NormalizationOf(d)

\* The status is what decision d, its review or its correction says.
Settles(d, status) ==
  \/ status = "NEEDS_REVIEW" /\ Escalated(d)
  \/ \E rec \in reviews :
       rec.decision = d /\ status = DocumentStatusForAction(rec.action)
  \/ \E c \in DOMAIN corrs :
       corrs[c].status = "COMPLETED" /\ corrs[c].dec = d /\ corrs[c].result = status

\* A document enters NEEDS_REVIEW, APPROVED or REJECTED only by its newest
\* judgement: a decision, a review or a correction that newer data overtook
\* while it was under way never overrides what was decided on that data.
NewestJudgementWins ==
  [][docStatus' # docStatus /\ docStatus' \in {"NEEDS_REVIEW", "APPROVED", "REJECTED"}
       => (\E d \in DOMAIN decs : NewestJudgement(d) /\ Settles(d, docStatus))']_vars

\* A verdict is reopened only by new data: when a document leaves APPROVED
\* or REJECTED, the chain it is now judged by comes from a correction.
VerdictReopenedOnlyByCorrection ==
  [][/\ docStatus \in {"APPROVED", "REJECTED"}
     /\ docStatus' # docStatus
     => norms[CurrentNormalization].correction > 0
    ]_vars

-----------------------------------------------------------------------------
(* The abstract life of a document *)

Escalations == {d \in DOMAIN decs : Escalated(d)}
CompletedCorrections == {c \in DOMAIN corrs : corrs[c].status = "COMPLETED"}

Life == INSTANCE DocumentLife WITH
  status      <- docStatus,
  escalations <- Escalations,
  verdicts    <- reviews,
  corrections <- CompletedCorrections

\* Every transaction, crash and recovery is one step in the life of the
\* document, or none: an extraction is followed by its end, each escalation
\* and each verdict happens once, a document that a person is in charge of is
\* never again merely COMPLETED.
LifeCycle == Life!Spec

-----------------------------------------------------------------------------
(* While no process dies *)

\* The rows a request is at work on: a stage's attempt, a correction.
WorksOn(q) ==
  {<<"correction", q.corr>>} \cup
  IF q.stage # "correction" /\ q.step \in {"run", "writing", "failing"}
    THEN {<<q.stage, q.id>>} ELSE {}

OpenRows ==
  {<<"extraction", e>> : e \in {i \in DOMAIN exts : exts[i] = "PROCESSING"}}
    \cup {<<"normalization", n>> : n \in Processing(norms)}
    \cup {<<"validation", v>> : v \in Processing(vals)}
    \cup {<<"decision", d>> : d \in Processing(decs)}
    \cup {<<"correction", c>> : c \in Processing(corrs)}

\* The rows that are PROCESSING and nobody's work: each keeps its source, or
\* its document, from being tried again until an operator recovers it.
Abandoned == OpenRows \ UNION {WorksOn(reqs[r]) : r \in Workers}

\* An exception left a try-less part of the services (see Escapes).
SomethingEscapes(r) ==
  \/ ExtractionEscapes(r) \/ NormalizationEscapes(r) \/ ValidationEscapes(r)
  \/ DecisionEscapes(r) \/ CorrectionEscapes(r)
  \/ RecordValidation(r) /\ Finish(r)

\* A refused start, a lost race, a failed write, a commit that was reported
\* lost: none ends a request and leaves a row of its open.  What escapes does,
\* and costs one row: a correction outlives the stage it was running.  (An
\* operator who recovers has stopped the workers.)
OnlyEscapesAbandon ==
  [][\/ Abandoned' \subseteq Abandoned
     \/ \E r \in Workers : /\ SomethingEscapes(r)
                          /\ \E row \in WorksOn(reqs[r]) :
                               Abandoned' \subseteq Abandoned \cup {row}
     \/ Recover]_vars

-----------------------------------------------------------------------------
(* Liveness *)

\* Every request ends, without anybody's help: requests that wait for the
\* document's lock and corrections that wait for each other do not block
\* one another for ever.
RequestsEnd == \A r \in Workers : ~IsIdle(r) ~> IsIdle(r)

\* If an operator recovers what was abandoned, no crash and no exception leaves
\* a document PROCESSING.
DocumentLeavesProcessing ==
  WF_vars(Recover) => (docStatus = "PROCESSING" ~> docStatus # "PROCESSING")

=============================================================================
