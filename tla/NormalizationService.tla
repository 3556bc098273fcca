------------------------ MODULE NormalizationService ------------------------
(***************************************************************************)
(* One normalization attempt for a completed extraction.  It locks the     *)
(* extraction row, never the document, and writes only its own row.        *)
(***************************************************************************)
EXTENDS Ledger

\* Mutant: any earlier attempt can be retried, a completed one too.
RetryAnything(latest, action) ==
  IF action = "start" THEN latest = "none" ELSE latest # "none"

\* The guard stages 4 to 6 share: what the newest attempt for the source
\* must be for a start, or a retry, to be accepted.
MayAttempt(latest, action) ==
  IF action = "start" THEN latest = "none" ELSE latest = "FAILED"

\* Mutant: any extraction will do.
AnyExtraction(extraction, latest, action) == MayAttempt(latest, action)

EnsureExtractionCanNormalize(extraction, latest, action) ==
  extraction = "COMPLETED" /\ MayAttempt(latest, action)

\* _run up to its first commit, whoever called it.
BeginNormalization(r, e, action) ==
  /\ e \in DOMAIN exts
  /\ EnsureExtractionCanNormalize(exts[e], LatestStatus(norms, e), action)
  /\ ~HasActive(norms, e)
  /\ norms' = Append(norms, [source |-> e, status |-> "PROCESSING", correction |-> 0])
  /\ Enter(r, "normalization", "run", Len(norms) + 1)
  /\ UNCHANGED <<docStatus, exts, vals, decs, reviews, corrs>>

\* A request on the normalization endpoints.
RequestNormalization(r, e, action) ==
  /\ IsIdle(r)
  /\ Len(norms) < MaxNormalizations
  /\ BeginNormalization(r, e, action)

AfterNormalization(r) ==
  IF reqs[r].via = "pipeline" THEN Enter(r, "validation", "begin", reqs[r].id)
                              ELSE Finish(r)

CompleteNormalization(r) ==
  /\ At(r, "normalization", "run")
  /\ MayBecomeCompleted(norms[reqs[r].id].status)
  /\ norms' = [norms EXCEPT ![reqs[r].id].status = "COMPLETED"]
  /\ \/ AfterNormalization(r)
     \/ Enter(r, "normalization", "failing", reqs[r].id)
  /\ UNCHANGED <<docStatus, exts, vals, decs, reviews, corrs>>

NormalizationRaises(r) == GiveUp(r, "normalization")

NormalizationEscapes(r) == Escapes(r, "normalization") /\ Finish(r)

\* _mark_failed; ValueError leaves a terminal row alone.
MarkNormalizationFailed(r) ==
  /\ At(r, "normalization", "failing")
  /\ norms' = IF EnsureAttemptTransition(norms[reqs[r].id].status)
                THEN [norms EXCEPT ![reqs[r].id].status = "FAILED"] ELSE norms
  /\ Finish(r)
  /\ UNCHANGED <<docStatus, exts, vals, decs, reviews, corrs>>

=============================================================================
