------------------------------ MODULE Workflow ------------------------------
(***************************************************************************)
(* One document and everything that can work on it: clients of the stage   *)
(* endpoints, the pipeline, reviewers, correctors, crashes and recovery.   *)
(***************************************************************************)
EXTENDS Pipeline, ReviewService, Recovery

Init == LedgerInit

\* A client, or a reviewer, asks for something.  Nobody has to.
ClientRequest(r) ==
  /\ IsIdle(r)
  /\ \/ \E action \in Action :
          \/ BeginExtraction(r, action, "client")
          \/ StartPipeline(r, action)
          \/ \E e \in DOMAIN exts  : RequestNormalization(r, e, action)
          \/ \E n \in DOMAIN norms : RequestValidation(r, n, action)
          \/ \E v \in DOMAIN vals  : RequestDecision(r, v, action)
     \/ SubmitCorrection(r)
     \/ RetryCorrection(r)

\* A reviewer's transaction, which either of these ends.
EndReview == RollBackReview \/ \E action \in ReviewAction : SubmitReview(action)

Review == EndReview \/ \E d \in DOMAIN decs : LockForReview(d)

\* The transactions of a request that has been accepted, by stage.
ExtractionStep(r) ==
  \/ CompleteExtraction(r) \/ ExtractionRaises(r) \/ MarkExtractionFailed(r)
  \/ ExtractionEscapes(r)
NormalizationStep(r) ==
  \/ ContinueToNormalization(r)
  \/ CompleteNormalization(r) \/ NormalizationRaises(r) \/ MarkNormalizationFailed(r)
  \/ NormalizationEscapes(r)
ValidationStep(r) ==
  \/ ContinueToValidation(r)
  \/ CompleteValidation(r) \/ ValidationRaises(r) \/ MarkValidationFailed(r)
  \/ ValidationEscapes(r)
DecisionStep(r) ==
  \/ ContinueToDecision(r)
  \/ RecheckSource(r) \/ CompleteDecision(r) \/ DecisionRaises(r)
  \/ MarkDecisionFailed(r) \/ DecisionEscapes(r)
CorrectionStep(r) ==
  \/ BeginCorrection(r) \/ RejectCorrection(r)
  \/ ProjectCorrection(r) \/ CorrectionStageRefused(r) \/ RecordValidation(r)
  \/ FinalizeCorrection(r) \/ CorrectionRaises(r) \/ MarkCorrectionFailed(r)
  \/ CorrectionEscapes(r)

Proceed(r) ==
  \/ ExtractionStep(r) \/ NormalizationStep(r) \/ ValidationStep(r)
  \/ DecisionStep(r) \/ CorrectionStep(r)

ServiceNext == Review \/ \E r \in Workers : ClientRequest(r) \/ Proceed(r)

Next == ServiceNext \/ (\E r \in Workers : Crash(r)) \/ Recover

Spec == Init /\ [][Next]_vars

(***************************************************************************)
(* Fairness.  A request that need not wait for the document's lock takes   *)
(* its next transaction: the event loop runs every request and the         *)
(* provider call has a timeout.  A waiter for a row lock is served in      *)
(* order of arrival, so a lock that is taken again and again does not      *)
(* starve it (hence SF); but nothing makes it give up: no lock timeout is  *)
(* set.  A review that holds the lock ends.  Clients, reviewers, crashes   *)
(* and the operator owe nothing.                                           *)
(***************************************************************************)
WaitsForLock(r) ==
  /\ DocumentLocked
  /\ \/ reqs[r].stage = "extraction"
     \/ At(r, "decision", "begin") \/ At(r, "decision", "run")
     \/ At(r, "correction", "finalize")

RequestsProceed ==
  /\ \A r \in Workers : SF_vars(Proceed(r) /\ ~WaitsForLock(r))
  /\ WF_vars(EndReview)

FairSpec == Spec /\ RequestsProceed

\* The service while no process dies and nobody intervenes.
ServiceSpec == Init /\ [][ServiceNext]_vars

\* The same, with an operator who clears what exceptions left open.
AttendedSpec == Init /\ [][ServiceNext \/ Recover]_vars

=============================================================================
