-------------------------- MODULE ValidationService --------------------------
(***************************************************************************)
(* One validation attempt for a completed normalization.  It locks the     *)
(* normalization row and writes only its own row.  It does not ask whether *)
(* that normalization is still the current one.                            *)
(***************************************************************************)
EXTENDS NormalizationService

EnsureNormalizationCanValidate(normalization, latest, action) ==
  normalization = "COMPLETED" /\ MayAttempt(latest, action)

BeginValidation(r, n, action) ==
  /\ n \in DOMAIN norms
  /\ EnsureNormalizationCanValidate(norms[n].status, LatestStatus(vals, n), action)
  /\ ~HasActive(vals, n)
  /\ vals' = Append(vals, [source |-> n, status |-> "PROCESSING"])
  /\ Enter(r, "validation", "run", Len(vals) + 1)
  /\ UNCHANGED <<docStatus, exts, norms, decs, reviews, corrs>>

RequestValidation(r, n, action) ==
  /\ IsIdle(r)
  /\ Len(vals) < MaxValidations
  /\ BeginValidation(r, n, action)

\* start returned an attempt: the pipeline goes on from a COMPLETED one
\* only, a correction records it whatever its status.
AfterValidation(r, status) ==
  CASE reqs[r].via = "correction" -> Enter(r, "correction", "record", reqs[r].id)
    [] reqs[r].via = "pipeline" /\ status = "COMPLETED" ->
         Enter(r, "decision", "begin", reqs[r].id)
    [] OTHER -> Finish(r)

\* start raised: a correction catches it, nobody else does.
ValidationError(r) ==
  IF reqs[r].via = "correction" THEN Enter(r, "correction", "failing", 0) ELSE Finish(r)

CompleteValidation(r) ==
  /\ At(r, "validation", "run")
  /\ MayBecomeCompleted(vals[reqs[r].id].status)
  /\ vals' = [vals EXCEPT ![reqs[r].id].status = "COMPLETED"]
  /\ \/ AfterValidation(r, "COMPLETED")
     \/ Enter(r, "validation", "failing", reqs[r].id)
  /\ UNCHANGED <<docStatus, exts, norms, decs, reviews, corrs>>

ValidationRaises(r) == GiveUp(r, "validation")

ValidationEscapes(r) == Escapes(r, "validation") /\ ValidationError(r)

\* Its commit, too, may take effect and still raise.
MarkValidationFailed(r) ==
  /\ At(r, "validation", "failing")
  /\ IF EnsureAttemptTransition(vals[reqs[r].id].status)
       THEN /\ vals' = [vals EXCEPT ![reqs[r].id].status = "FAILED"]
            /\ AfterValidation(r, "FAILED") \/ ValidationError(r)
       ELSE /\ ValidationError(r)
            /\ UNCHANGED vals
  /\ UNCHANGED <<docStatus, exts, norms, decs, reviews, corrs>>

=============================================================================
